--------------------------- MODULE MCSlaveTables ---------------------------
(* Two slaves; what varies is the outputs of the first one and the order   *)
(* and addresses of both.                                                  *)
EXTENDS SlaveTables

Mapped(o, n) == [object |-> o, bits |-> n]

\* Mappings the declarations can have: one entry, two, none, a bit-wise one.
MCEntries == {<<Mapped("a", 8)>>, <<Mapped("b", 16), Mapped("c", 8)>>, <<>>, <<Mapped("d", 4)>>}

Pdos(index) == {[index |-> index, sm |-> m, entries |-> e] :
                   m \in {"none", "own", "other"}, e \in MCEntries}

Sect(list, enabled, pdos) == [list |-> list, enabled |-> enabled, pdos |-> pdos]

EniSections ==
    {Sect(l, en, ps) :
        l \in {<<>>, <<1>>, <<2, 1>>, <<1, 2>>, <<1, 1>>}, en \in BOOLEAN,
        ps \in {<<p>> : p \in Pdos(1)} \union {<<p, q>> : p \in Pdos(1), q \in Pdos(2)}
               \union {<<p, p>> : p \in Pdos(1)}}

YamlPdos(index) == {p \in Pdos(index) : p.sm = "own"}

YamlSections ==
    {Sect(<<>>, TRUE, ps) :
        ps \in {<<p>> : p \in YamlPdos(1)} \union
               {<<p, q>> : p \in YamlPdos(1), q \in YamlPdos(2)} \union
               {<<q, p>> : p \in YamlPdos(1), q \in YamlPdos(2)}}

Inputs == Sect(<<>>, TRUE, <<[index |-> 1, sm |-> "own", entries |-> <<Mapped("x", 16)>>]>>)
OtherInputs == Sect(<<>>, TRUE, <<[index |-> 1, sm |-> "own", entries |-> <<Mapped("y", 8)>>]>>)
OtherOutputs == Sect(<<>>, TRUE, <<[index |-> 1, sm |-> "own", entries |-> <<Mapped("z", 8)>>]>>)

Station(address, identity, out, in) ==
    [address |-> address, identity |-> identity, out |-> out, in |-> in]

EniSources ==
    {[kind |-> "eni", slaves |-> IF swapped THEN <<second, first>> ELSE <<first, second>>] :
        swapped \in BOOLEAN,
        first \in {Station(0, 11, s, Inputs) : s \in EniSections},
        second \in {Station(a, n, OtherOutputs, OtherInputs) : a \in {65535, 1}, n \in {11, 22}}}

YamlSources ==
    {[kind |-> "yaml", slaves |-> <<Station(0, 0, s, Inputs),
                                    Station(a, 0, OtherOutputs, t)>>] :
        s \in YamlSections, a \in {1, 2},
        t \in {OtherInputs, [OtherInputs EXCEPT !.pdos[1].entries = <<>>]}}

MCObjects == {"a", "b", "c", "d", "e", "f", "g", "x", "y", "z"}

MCSources == EniSources \union YamlSources

MCDevice == [p \in 0..1 |-> [i \in 1..2 |->
                IF p = 0 THEN IF i = 1 THEN <<Mapped("e", 8), Mapped("f", 8)>> ELSE <<>>
                ELSE <<Mapped("g", 16)>>]]
MCIdentity == [p \in 0..1 |-> 11 * (p + 1)]
=============================================================================
