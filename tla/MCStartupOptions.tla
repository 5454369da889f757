-------------------------- MODULE MCStartupOptions --------------------------
(* Periods 1 to 3 fit into the nanoseconds of SYNC0, 4 does not.           *)
EXTENDS StartupOptions

MCNumber == [text \in {"0", "1", "2", "4", "16"} |->
    CASE text = "0" -> 0 [] text = "1" -> 1 [] text = "2" -> 2
      [] text = "4" -> 4 [] text = "16" -> 16]

\* Every short command line, and the complete ones with up to two settings.
Texts == {"help", "bogus", "config", "period", "dc", "cpu", "0", "4", "on", "auto"}
Pairs == {<<"period", "2">>, <<"period", "4">>, <<"dc", "on">>, <<"dc", "off">>,
          <<"cpu", "1">>, <<"cpu", "auto">>, <<"attempts", "0">>, <<"attempts", "2">>,
          <<"period", "16">>, <<>>}
MCCommandLines ==
    [1..2 -> Texts] \union [1..3 -> Texts]
        \union {<<"config", "f">> \o p \o q : p \in Pairs, q \in Pairs}
        \union {p \o <<"config", "f">> \o q : p \in Pairs, q \in Pairs}

Slave(dc, cycle, reference) == [dc |-> dc, cycle |-> cycle, reference |-> reference]

\* The mapping of a YAML file: some of the settings.
Choice(s) == CASE s = "period" -> {"0", "2", "4"} [] s = "dc" -> {"on", "off"}
               [] s = "cpu" -> {"null", "1", "2"} [] s = "attempts" -> {"1"}
Yamls == UNION {{y \in [D -> UNION {Choice(s) : s \in D}] : \A s \in D : y[s] \in Choice(s)} :
                   D \in SUBSET {"period", "dc", "cpu"}}

\* ENI: the cycle of a slave with a clock is fixed, and no clock has cycle 0.
MCFiles ==
    {[eni |-> TRUE, period |-> p, yaml |-> y, slaves |-> <<first, second>>] :
        p \in {1, 2}, y \in Yamls, first \in {Slave(FALSE, 0, FALSE), Slave(TRUE, 8, TRUE)},
        second \in {Slave(FALSE, 0, FALSE), Slave(TRUE, 8, FALSE), Slave(TRUE, 4, FALSE)}}
    \union
    {[eni |-> FALSE, period |-> MinPeriod, yaml |-> y,
      slaves |-> <<Slave(TRUE, 0, r), Slave(TRUE, 0, q)>>] :
        y \in Yamls, r \in BOOLEAN, q \in BOOLEAN}
=============================================================================
