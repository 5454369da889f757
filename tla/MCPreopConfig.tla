---------------------------- MODULE MCPreopConfig ----------------------------
\* Slave 0 has a writable RxPDO with one entry and a read-only TxPDO with one
\* entry; slave 1 has no RxPDO and an empty TxPDO.
EXTENDS PreopConfig

C(s, sm, field, expected) ==
    [slave |-> s, sm |-> sm, field |-> field, expected |-> expected]

MCChecks == <<
    C(0, 2, "AssignmentCount", 1), C(0, 2, "Assignment", 5),
    C(0, 2, "MappingCount", 1),    C(0, 2, "MappingEntry", 6),
    C(0, 3, "AssignmentCount", 1), C(0, 3, "Assignment", 7),
    C(0, 3, "MappingCount", 1),    C(0, 3, "MappingEntry", 8),
    C(1, 2, "AssignmentCount", 0),
    C(1, 3, "AssignmentCount", 1), C(1, 3, "Assignment", 9),
    C(1, 3, "MappingCount", 0) >>

MCInitWrites == <<0, 1>>
MCFixed == {7, 8}

\* Factory defaults: as configured; another RxPDO mapping and assignment; a
\* read-only mapping that cannot be what is configured.
MCPowerUp == {<<1, 5, 1, 6, 1, 7, 1, 8, 0, 1, 9, 0>>,
              <<2, 4, 2, 6, 1, 7, 1, 8, 1, 1, 4, 0>>,
              <<1, 5, 1, 4, 1, 7, 1, 4, 0, 1, 9, 0>>}
=============================================================================
