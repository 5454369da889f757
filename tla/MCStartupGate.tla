---------------------------- MODULE MCStartupGate ----------------------------
\* Two slaves with one check each.
EXTENDS StartupGate, TLC

CONSTANTS a, b

MCSlaveOf == 1 :> a @@ 2 :> b
=============================================================================
