---------------------------- MODULE ReportChannel ----------------------------
(***************************************************************************)
(* What the cyclic thread and the reporter may expect of the mailbox       *)
(* between them: a channel of capacity one.  A report that was accepted is *)
(* delivered as it was, once, in order; one that finds the channel full    *)
(* was never accepted.  Nobody waits for anybody.                          *)
(***************************************************************************)
EXTENDS Naturals, Sequences

CONSTANT Reports

VARIABLES accepted, delivered

channel == <<accepted, delivered>>

Init == accepted = <<>> /\ delivered = <<>>

Accept(r) ==
    /\ Len(accepted) = Len(delivered)
    /\ accepted' = Append(accepted, r)
    /\ UNCHANGED delivered

Deliver ==
    /\ Len(accepted) > Len(delivered)
    /\ delivered' = Append(delivered, accepted[Len(delivered) + 1])
    /\ UNCHANGED accepted

Next == Deliver \/ \E r \in Reports : Accept(r)

Spec == Init /\ [][Next]_channel
=============================================================================
