-------------------------- MODULE PreopConfigProofs --------------------------
(***************************************************************************)
(* What configurePreop does, for any slaves, checks, init commands, budget *)
(* of attempts and read-only mappings, and any behaviour of the devices.   *)
(*                                                                         *)
(* The invariant follows the loops: what they have passed, going by the    *)
(* order of positions, has been cleared, written or compared.              *)
(***************************************************************************)
EXTENDS PreopConfig, FiniteSets, FiniteSetTheorems, SequenceTheorems,
        WellFoundedInduction, TLAPS

-----------------------------------------------------------------------------
(* The checks and their mappings.                                          *)

LEMMA ChecksFacts ==
    /\ Indices = 1..Len(Checks) /\ Len(Checks) \in Nat \ {0}
    /\ Indices \subseteq Nat \ {0} /\ 1 \in Indices
    /\ \A c \in Indices :
         /\ Checks[c].slave \in Slaves /\ Checks[c].slave \in Nat
         /\ Checks[c].expected \in Nat /\ Checks[c].field \in Fields
    /\ Slaves \subseteq Nat
<1> DEFINE Check == [slave : Nat, sm : {2, 3}, field : Fields, expected : Nat]
<1>0. Checks \in Seq(Check) /\ Checks # <<>>
  BY ChecksAssumption
<1>1. Indices = 1..Len(Checks) /\ Len(Checks) \in Nat \ {0}
  <2> HIDE DEF Check
  <2> QED
    BY <1>0, EmptySeq DEF Indices
<1>2. \A c \in Indices : Checks[c] \in Check
  <2> HIDE DEF Check
  <2> QED
    BY <1>0, <1>1, ElementOfSeq
<1> QED
  BY <1>1, <1>2 DEF Slaves

LEMMA FirstIsLeast ==
    /\ FirstSlave \in Slaves
    /\ \A c \in Indices : FirstSlave <= Checks[c].slave
<1>1. \A c \in Indices : 1 < c => Checks[1].slave <= Checks[c].slave
  BY ChecksFacts, ChecksAssumption
<1> QED
  BY <1>1, ChecksFacts DEF FirstSlave

\* Every slave has checks, and its checks are its own.
LEMMA GroupFacts ==
    ASSUME NEW s \in Slaves
    PROVE  Group(s) # {} /\ Group(s) \subseteq Indices /\ Group(s) \subseteq Nat \ {0}
  BY ChecksFacts DEF Group, Slaves

\* A mapping is its count followed by its entries, all of one slave.
LEMMA BlockFacts ==
    ASSUME NEW m \in Mappings
    PROVE  /\ m \in Indices /\ Is(m, "MappingCount")
           /\ Checks[m].expected \in Nat \ {0}
           /\ m \in Block(m) /\ m + Checks[m].expected \in Block(m)
           /\ Block(m) \subseteq Mapped /\ Block(m) \subseteq Group(Checks[m].slave)
           /\ \A e \in Block(m) :
                /\ e \in Nat /\ m <= e /\ e <= m + Checks[m].expected
                /\ e # m => Is(e, "MappingEntry")
<1>1. m \in Indices /\ Is(m, "MappingCount") /\ Checks[m].expected \in Nat \ {0} /\ m \in Nat
  BY ChecksFacts DEF Mappings
<1>2. \A e \in Block(m) \ {m} :
        e \in Indices /\ Is(e, "MappingEntry") /\ Checks[e].slave = Checks[m].slave
  BY BlocksAssumption
<1>3. \A e \in Block(m) : e \in Nat /\ m <= e /\ e <= m + Checks[m].expected
  BY <1>1 DEF Block
<1>4. m \in Block(m) /\ m + Checks[m].expected \in Block(m)
  BY <1>1 DEF Block
<1>5. Block(m) \subseteq Mapped
  BY DEF Mapped
<1>6. Block(m) \subseteq Group(Checks[m].slave)
  BY <1>1, <1>2 DEF Group
<1> QED
  BY <1>1, <1>2, <1>3, <1>4, <1>5, <1>6

LEMMA MappedFacts ==
    /\ Mapped \subseteq Indices
    /\ \A c \in Mapped : Is(c, "MappingCount") \/ Is(c, "MappingEntry")
    /\ \A c \in Mapped : \E m \in Mappings : c \in Block(m)
<1>1. \A c \in Mapped : \E m \in Mappings : c \in Block(m)
  BY DEF Mapped
<1>2. ASSUME NEW m \in Mappings, NEW c \in Block(m)
      PROVE  c \in Indices /\ (Is(c, "MappingCount") \/ Is(c, "MappingEntry"))
  BY <1>2, BlockFacts DEF Group
<1> QED
  BY <1>1, <1>2

\* An entry is not a count, so no mapping begins inside another.
LEMMA BlocksDisjoint ==
    ASSUME NEW m \in Mappings, NEW n \in Mappings, NEW e \in Block(m), e \in Block(n)
    PROVE  m = n
<1>1. ~(Is(m, "MappingEntry")) /\ ~(Is(n, "MappingEntry"))
  BY BlockFacts DEF Is
<1>2. m \in Nat /\ n \in Nat /\ e \in Nat
  BY BlockFacts, ChecksFacts
<1>3. m <= e /\ e <= m + Checks[m].expected /\ Checks[m].expected \in Nat
  BY BlockFacts
<1>4. n <= e /\ e <= n + Checks[n].expected /\ Checks[n].expected \in Nat
  BY BlockFacts
<1>5. ASSUME m < n PROVE FALSE
  <2>1. n \in Block(m)
    BY <1>2, <1>3, <1>4, <1>5 DEF Block
  <2> QED
    BY <2>1, <1>1, <1>2, <1>5, BlockFacts
<1>6. ASSUME n < m PROVE FALSE
  <2>1. m \in Block(n)
    BY <1>2, <1>3, <1>4, <1>6 DEF Block
  <2> QED
    BY <2>1, <1>1, <1>2, <1>6, BlockFacts
<1> QED
  BY <1>2, <1>5, <1>6

LEMMA BlockOfIs ==
    ASSUME NEW m \in Mappings, NEW c \in Block(m)
    PROVE  BlockOf(c) = Block(m)
<1> DEFINE n == CHOOSE k \in Mappings : c \in Block(k)
<1>1. n \in Mappings /\ c \in Block(n)
  OBVIOUS
<1>2. n = m
  BY <1>1, BlocksDisjoint
<1> QED
  BY <1>2 DEF BlockOf

-----------------------------------------------------------------------------
(* The order of the loops.                                                 *)

\* Every set of naturals that is not empty has a least element: of the parts
\* of it below one of its elements, take one that includes no other.
LEMMA LeastExists ==
    ASSUME NEW S \in SUBSET Nat, S # {}
    PROVE  \E x \in S : \A y \in S : x <= y
<1> DEFINE Upto(n) == {i \in S : i <= n}
           T == {Upto(n) : n \in S}
<1>1. T \subseteq FiniteSubsetsOf(S)
  <2> SUFFICES ASSUME NEW n \in S PROVE Upto(n) \in FiniteSubsetsOf(S)
    OBVIOUS
  <2>1. Upto(n) \in SUBSET Nat /\ n \in Nat /\ \A i \in Upto(n) : i <= n
    OBVIOUS
  <2>2. IsFiniteSet(Upto(n))
    BY <2>1, FS_BoundedSetOfNaturals
  <2> QED
    BY <2>2 DEF FiniteSubsetsOf
<1>2. PICK t \in T : \A u \in T : <<u, t>> \notin StrictSubsetOrdering(S)
  <2> HIDE DEF T
  <2>1. T # {}
    BY DEF T
  <2> QED
    BY <1>1, <2>1, WFMin, FS_StrictSubsetOrderingWellFounded
<1>3. PICK n \in S : t = Upto(n)
  OBVIOUS
<1>4. ASSUME NEW m \in S, ~ (n <= m) PROVE FALSE
  <2>1. m < n /\ m \in Nat /\ n \in Nat
    BY <1>4
  <2>2. ASSUME NEW i \in Upto(m) PROVE i \in Upto(n)
    <3>1. i \in S /\ i \in Nat /\ i <= m
      OBVIOUS
    <3> QED
      BY <2>1, <3>1
  <2>3. Upto(m) \in SUBSET S /\ Upto(n) \in SUBSET S
    OBVIOUS
  <2>4. n \in Upto(n) /\ n \notin Upto(m)
    BY <2>1
  <2>5. <<Upto(m), Upto(n)>> \in StrictSubsetOrdering(S)
    BY <2>2, <2>3, <2>4 DEF StrictSubsetOrdering
  <2> QED
    BY <2>5, <1>2, <1>3
<1> QED
  BY <1>4

\* What Soonest chooses is there.
LEMMA SoonestIs ==
    ASSUME NEW S \in SUBSET (Nat \X Nat), S # {}
    PROVE  Soonest(S) \in S /\ \A q \in S : Soonest(S) = q \/ Before(Soonest(S), q)
<1> DEFINE P == {o[1] : o \in S}
<1>1. PICK p \in P : \A y \in P : p <= y
  <2> P \in SUBSET Nat /\ P # {}
    OBVIOUS
  <2> HIDE DEF P
  <2> QED
    BY LeastExists
<1> DEFINE C == {o[2] : o \in {q \in S : q[1] = p}}
<1>2. C \in SUBSET Nat /\ C # {}
  BY <1>1
<1>3. PICK c \in C : \A y \in C : c <= y
  <2> HIDE DEF C
  <2> QED
    BY <1>2, LeastExists
<1>4. PICK o \in S : o[1] = p /\ o[2] = c
  BY <1>1, <1>3
<1>5. \A q \in S : o = q \/ Before(o, q)
  <2> SUFFICES ASSUME NEW q \in S PROVE o = q \/ Before(o, q)
    OBVIOUS
  <2>1. p <= q[1] /\ q[1] \in Nat /\ p \in Nat
    BY <1>1
  <2>2. q[1] = p => q[2] \in C
    OBVIOUS
  <2>3. q[1] = p => c <= q[2] /\ c \in Nat /\ q[2] \in Nat
    BY <2>2, <1>2, <1>3
  <2>4. o = <<o[1], o[2]>> /\ q = <<q[1], q[2]>>
    OBVIOUS
  <2> QED
    BY <2>1, <2>3, <2>4, <1>4 DEF Before
<1> QED
  BY <1>5 DEF Soonest

\* The position after o is one of slave s that is visited, and the loops leave
\* nothing out on the way there.
LEMMA Arrival ==
    ASSUME NEW s \in Slaves, NEW o \in (0..7) \X Nat, NEW kept, Later(s, o, kept) # {},
           NEW q, q = Soonest(Later(s, o, kept))
    PROVE  /\ q \in (0..7) \X Group(s) /\ q = <<q[1], q[2]>>
           /\ Visited(q[1], q[2], kept) /\ Before(o, q)
           /\ \A p \in 0..7 : \A c \in Group(s) :
                Visited(p, c, kept) /\ Before(<<p, c>>, q)
                => <<p, c>> = o \/ Before(<<p, c>>, o)
<1> DEFINE L == Later(s, o, kept)
<1>1. L \in SUBSET (Nat \X Nat) /\ L \subseteq (0..7) \X Group(s)
  BY GroupFacts DEF Later
<1>2. q \in L /\ \A r \in L : q = r \/ Before(q, r)
  <2> HIDE DEF L
  <2> QED
    BY <1>1, SoonestIs DEF L
<1>3. q \in (0..7) \X Group(s) /\ q = <<q[1], q[2]>> /\ Visited(q[1], q[2], kept) /\ Before(o, q)
  BY <1>1, <1>2 DEF Later
<1>4. ASSUME NEW p \in 0..7, NEW c \in Group(s), Visited(p, c, kept), Before(<<p, c>>, q),
             ~(<<p, c>> = o \/ Before(<<p, c>>, o))
      PROVE  FALSE
  <2>1. c \in Nat /\ p \in Nat /\ o[1] \in Nat /\ o[2] \in Nat /\ o = <<o[1], o[2]>>
    BY GroupFacts
  <2>2. Before(o, <<p, c>>)
    BY <1>4, <2>1 DEF Before
  <2>3. <<p, c>> \in L
    BY <2>2, <1>4 DEF Later
  <2>4. q = <<p, c>> \/ Before(q, <<p, c>>)
    BY <2>3, <1>2
  <2>5. q[1] \in Nat /\ q[2] \in Nat
    BY <1>3, GroupFacts
  <2> QED
    BY <2>1, <2>4, <2>5, <1>4 DEF Before
<1> QED
  BY <1>3, <1>4

\* The read-back is ahead of everything else.
LEMMA LaterSome ==
    ASSUME NEW s \in Slaves, NEW o \in (0..7) \X Nat, NEW kept, o[1] < 7
    PROVE  Later(s, o, kept) # {}
<1>1. PICK c \in Group(s) : TRUE
  BY GroupFacts
<1>2. Visited(7, c, kept) /\ Before(o, <<7, c>>)
  BY GroupFacts DEF Visited, ReadBack, Before
<1> QED
  BY <1>2 DEF Later

-----------------------------------------------------------------------------
(* The inductive invariant.                                                *)

TypeInv ==
    /\ mode \in {"init", "pdo", "done"}
    /\ command \in 1..(Len(InitWrites) + 1)
    /\ slave \in Slaves
    /\ attempt \in 1..MaxAttempts
    /\ pos \in (0..7) \X Nat
    /\ at \in {"guard", "call", "confirm"}
    /\ keep \subseteq Mapped
    /\ reply \in {"None", "Done", "Error", "BadSize", "Match", "Differ"}
    /\ result \in {"Pending", "Ok", "Failed"}
    /\ failure \in {"None", "PreopTimeout", "PreopState", "Clock", "Write", "Read", "Compare"}
    /\ device \in [Indices -> Nat]
    /\ preop \subseteq Slaves
    /\ expired \in BOOLEAN
    /\ faults \in 0..MaxFaults
    /\ strayed \subseteq Slaves
    /\ left \subseteq Slaves
    /\ sent \in Seq(Nat)

\* The thread is where its loops visit, and has a verdict when it is done.
Placed ==
    /\ mode = "init" => slave = FirstSlave
    /\ mode = "pdo" => Cursor \in Group(slave) /\ Visited(Phase, Cursor, keep)
    /\ at # "guard" => Busy
    /\ result = "Pending" <=> mode # "done"

\* The init commands sent so far are the first ones, in order.
SentInOrder ==
    /\ \A i \in 1..Len(sent) : sent[i] = i
    /\ mode = "init" => Len(sent) = (IF at = "confirm" THEN command ELSE command - 1)
    /\ mode = "pdo" => Len(sent) = Len(InitWrites)

\* A mapping is kept as a whole or not at all.
KeepClosed == \A m \in Mappings : Block(m) \subseteq keep \/ Block(m) \cap keep = {}

\* Position <<p, c>> is behind the thread, or its write was acknowledged.
Passed(p, c) ==
    \/ Before(<<p, c>>, pos)
    \/ <<p, c>> = pos /\ at = "confirm" /\ reply = "Done"

\* The counts passed in phases 1 and 2 are zero until they are restored.
Cleared ==
    mode = "pdo" /\ slave \in preop =>
        /\ Phase <= 5 =>
             \A a \in AssignmentsOf(slave) : Passed(1, a) => device[a] = 0
        /\ Phase <= 3 =>
             \A m \in Group(slave) : Visited(2, m, keep) /\ Passed(2, m) => device[m] = 0

Configured(c) == device[c] = Checks[c].expected

\* Earlier slaves, and what was read back of this one, are as configured.
Verified ==
    mode = "pdo" =>
        /\ \A c \in Indices :
             Checks[c].slave < slave /\ Checks[c].slave \notin strayed => Configured(c)
        /\ slave \in preop /\ Phase = 7 =>
             \A c \in Group(slave) :
                 c < Cursor \/ (c = Cursor /\ at = "confirm" /\ reply = "Match") => Configured(c)

\* What the configuration does not write.
Rigid(c) == c \in Fixed \/ (Is(c, "MappingCount") /\ Checks[c].expected = 0)

\* Nothing has gone wrong that could excuse a failure, the budget apart.
Clean == faults = 0 /\ left = {} /\ \A c \in Indices : Rigid(c) => Configured(c)

\* Without an excuse every SDO succeeds ...
Answered ==
    at = "confirm" =>
        /\ Commanding \/ Writing => reply = "Done"
        /\ Reading => reply = (IF Configured(Cursor) THEN "Match" ELSE "Differ")

\* ... what is kept, and the part of a mapping that has been read, matches ...
Kept ==
    /\ \A c \in keep : Configured(c)
    /\ mode = "pdo" /\ Phase = 0 =>
         \A m \in Mappings : Cursor \in Block(m) =>
             \A e \in Block(m) : e < Cursor => Configured(e)

\* ... a read-only mapping that has been read is kept ...
FixedKept ==
    mode = "pdo" => \A m \in Mappings :
        /\ Block(m) \subseteq Fixed /\ Checks[m].slave = slave
        /\ Before(<<0, m + Checks[m].expected>>, pos)
        => Block(m) \subseteq keep

\* ... and what was written to stay is as configured.
Restored ==
    mode = "pdo" => \A p \in 3..6 : \A c \in Group(slave) :
        Visited(p, c, keep) /\ Passed(p, c) => Configured(c)

Calm ==
    /\ left = {} => preop = Slaves
    /\ Clean => Answered /\ Kept /\ FixedKept /\ Restored

IInv ==
    /\ TypeInv /\ Placed /\ SentInOrder /\ KeepClosed /\ Cleared /\ Verified /\ Calm
    /\ SuccessConfigured /\ NoHomemadeFailure

-----------------------------------------------------------------------------
(* What the loops visit.                                                   *)

LEMMA PositionFacts ==
    ASSUME TypeInv
    PROVE  pos = <<Phase, Cursor>> /\ Phase \in 0..7 /\ Cursor \in Nat /\ slave \in Slaves
  BY DEF TypeInv, Phase, Cursor

\* What is written is neither kept nor an empty count.
LEMMA WrittenFacts ==
    ASSUME NEW p \in 1..6, NEW c \in Indices, NEW kept
    PROVE  /\ Visited(p, c, kept) =>
                /\ Is(c, Phases[p]) /\ c \notin kept
                /\ ~(Is(c, "MappingCount") /\ Checks[c].expected = 0)
           /\ Is(c, Phases[p]) /\ c \notin kept
              /\ ~(Is(c, "MappingCount") /\ Checks[c].expected = 0)
              => Visited(p, c, kept)
  BY DEF Visited, Untouched

LEMMA PhasesAre ==
    /\ Phases[1] = "AssignmentCount" /\ Phases[2] = "MappingCount"
    /\ Phases[3] = "MappingEntry" /\ Phases[4] = "MappingCount"
    /\ Phases[5] = "Assignment" /\ Phases[6] = "AssignmentCount"
    /\ \A p \in 1..6 :
         /\ Phases[p] = "MappingCount" => p \in {2, 4}
         /\ Phases[p] = "MappingEntry" => p = 3
         /\ Phases[p] = "Assignment" => p = 5
<1>1. /\ Phases[1] = "AssignmentCount" /\ Phases[2] = "MappingCount"
      /\ Phases[3] = "MappingEntry" /\ Phases[4] = "MappingCount"
      /\ Phases[5] = "Assignment" /\ Phases[6] = "AssignmentCount"
  BY DEF Phases
<1>2. ASSUME NEW p \in 1..6 PROVE p \in {1, 2, 3, 4, 5, 6}
  OBVIOUS
<1> QED
  BY <1>1, <1>2

\* Every assignment count is cleared, whatever is kept.
LEMMA AssignmentsVisited ==
    ASSUME NEW s \in Slaves, NEW a \in AssignmentsOf(s), NEW kept \in SUBSET Mapped
    PROVE  a \in Group(s) /\ Visited(1, a, kept)
<1>1. a \in Group(s) /\ a \in Indices /\ Is(a, "AssignmentCount")
  BY GroupFacts DEF AssignmentsOf
<1>2. a \notin kept
  BY <1>1, MappedFacts DEF Is
<1> QED
  BY <1>1, <1>2, PhasesAre, WrittenFacts DEF Is

\* The mapping the pre-read is in, and its last check.
LEMMA ReadingBlock ==
    ASSUME NEW s \in Slaves, NEW c \in Group(s), NEW kept, Visited(0, c, kept)
    PROVE  \E b \in Mappings :
             /\ c \in Block(b) /\ BlockOf(c) = Block(b) /\ Checks[b].slave = s
             /\ Block(b) \subseteq Group(s)
             /\ \A last \in Block(b) :
                  (\A d \in Block(b) : d <= last) => last = b + Checks[b].expected
<1>1. PICK b \in Mappings : c \in Block(b)
  BY MappedFacts DEF Visited
<1>2. Block(b) \subseteq Group(Checks[b].slave)
  BY BlockFacts
<1>3. Checks[b].slave = s
  BY <1>1, <1>2 DEF Group
<1>4. BlockOf(c) = Block(b)
  BY <1>1, BlockOfIs
<1>5. ASSUME NEW last \in Block(b), \A d \in Block(b) : d <= last
      PROVE  last = b + Checks[b].expected
  <2>1. b + Checks[b].expected \in Block(b) /\ b \in Nat /\ Checks[b].expected \in Nat
    BY BlockFacts, ChecksFacts
  <2>2. b + Checks[b].expected <= last /\ last <= b + Checks[b].expected /\ last \in Nat
    BY <2>1, <1>5, BlockFacts
  <2> QED
    BY <2>1, <2>2
<1> QED
  BY <1>1, <1>2, <1>3, <1>4, <1>5

\* Whether anything has gone wrong depends on three variables.
LEMMA CleanKept ==
    ASSUME UNCHANGED <<device, faults, left>>
    PROVE  Clean' <=> Clean
  BY DEF Clean, Configured

-----------------------------------------------------------------------------
(* The moves of the loops keep the invariant.                              *)

\* The beginning of an attempt: nothing is behind the thread.
LEMMA StartAttemptIInv ==
    ASSUME IInv, mode # "done", NEW s \in Slaves, NEW n \in 1..MaxAttempts, StartAttempt(s, n),
           UNCHANGED <<reply, faults, sent, world>>, Len(sent) = Len(InitWrites),
           \A c \in Indices :
               Checks[c].slave < s /\ Checks[c].slave \notin strayed => Configured(c)
    PROVE  IInv'
<1>1. /\ mode' = "pdo" /\ slave' = s /\ attempt' = n /\ keep' = {} /\ at' = "guard"
      /\ pos' = Soonest(Later(s, Nowhere, {}))
      /\ UNCHANGED <<command, result, failure, reply, faults, sent, device, preop, expired,
                     strayed, left>>
  BY DEF StartAttempt, verdict, world
<1>2. TypeInv /\ Placed /\ SentInOrder /\ Calm /\ result = "Pending"
  BY DEF IInv, Placed
<1>3. /\ pos' \in (0..7) \X Group(s) /\ pos' = <<Phase', Cursor'>>
      /\ Visited(Phase', Cursor', {})
      /\ \A p \in 0..7 : \A c \in Group(s) :
           Visited(p, c, {}) => ~Before(<<p, c>>, pos')
  <2>1. Nowhere \in (0..7) \X Nat /\ Nowhere[1] < 7 /\ Nowhere = <<0, 0>>
    BY DEF Nowhere
  <2>2. Later(s, Nowhere, {}) # {}
    BY <2>1, LaterSome
  <2>3. /\ pos' \in (0..7) \X Group(s) /\ pos' = <<pos'[1], pos'[2]>>
        /\ Visited(pos'[1], pos'[2], {})
        /\ \A p \in 0..7 : \A c \in Group(s) :
             Visited(p, c, {}) /\ Before(<<p, c>>, pos')
             => <<p, c>> = Nowhere \/ Before(<<p, c>>, Nowhere)
    BY <1>1, <2>1, <2>2, Arrival
  <2>4. \A p \in 0..7 : \A c \in Group(s) : ~(<<p, c>> = Nowhere \/ Before(<<p, c>>, Nowhere))
    BY <2>1, GroupFacts DEF Before
  <2> QED
    BY <2>3, <2>4 DEF Phase, Cursor
<1>4. TypeInv'
  <2>1. pos' \in (0..7) \X Nat
    BY <1>3, GroupFacts
  <2> QED
    BY <1>1, <1>2, <2>1 DEF TypeInv
<1>5. Placed'
  BY <1>1, <1>2, <1>3 DEF Placed
<1>6. SentInOrder'
  BY <1>1, <1>2 DEF SentInOrder
<1>7. KeepClosed'
  BY <1>1 DEF KeepClosed
<1>8. \A p \in 1..6 : \A c \in Group(s) : Visited(p, c, {}) => ~Passed(p, c)'
  BY <1>1, <1>3 DEF Passed
<1>9. Cleared'
  <2>1. ASSUME NEW a \in AssignmentsOf(s) PROVE ~Passed(1, a)'
    BY <1>8, AssignmentsVisited
  <2> QED
    BY <1>1, <1>8, <2>1 DEF Cleared
<1>10. Verified'
  <2>1. ASSUME Phase' = 7, NEW c \in Group(s), c < Cursor' PROVE FALSE
    <3>1. Visited(7, c, {})
      BY GroupFacts DEF Visited, ReadBack
    <3> QED
      BY <1>3, <2>1, <3>1 DEF Before
  <2> QED
    BY <1>1, <2>1 DEF Verified, Configured
<1>11. Calm'
  <2>1. Clean => Answered'
    BY <1>1 DEF Answered
  <2>2. Kept'
    <3>1. ASSUME Phase' = 0, NEW m \in Mappings, Cursor' \in Block(m), NEW e \in Block(m),
                 e < Cursor'
          PROVE  FALSE
      <4>1. e \in Group(s) /\ e \in Mapped
        BY <1>3, <3>1, BlockFacts DEF Group
      <4> QED
        BY <1>3, <3>1, <4>1 DEF Visited, Before
    <3> QED
      BY <1>1, <3>1 DEF Kept
  <2>3. FixedKept'
    <3>1. ASSUME NEW m \in Mappings, Checks[m].slave = s
          PROVE  ~Before(<<0, m + Checks[m].expected>>, pos')
      <4>1. m + Checks[m].expected \in Group(s) /\ m + Checks[m].expected \in Mapped
        BY <3>1, BlockFacts
      <4> QED
        BY <1>3, <4>1 DEF Visited
    <3> QED
      BY <1>1, <3>1 DEF FixedKept
  <2>4. Restored'
    BY <1>1, <1>8 DEF Restored
  <2> QED
    BY <1>1, <1>2, <2>1, <2>2, <2>3, <2>4, CleanKept DEF Calm
<1>12. SuccessConfigured' /\ NoHomemadeFailure'
  BY <1>1, <1>2 DEF SuccessConfigured, NoHomemadeFailure
<1> QED
  BY <1>4, <1>5, <1>6, <1>7, <1>9, <1>10, <1>11, <1>12 DEF IInv

\* Once the outcome is there, only what it promises matters.
LEMMA FinishIInv ==
    ASSUME IInv, NEW outcome \in {"Ok", "Failed"},
           NEW why \in {"None", "PreopTimeout", "PreopState", "Clock", "Write", "Read", "Compare"},
           Finish(outcome, why), UNCHANGED <<reply, sent, world>>, faults' \in faults..MaxFaults,
           outcome = "Ok" =>
               \A c \in Indices : Checks[c].slave \notin strayed => Configured(c),
           outcome = "Failed" => expired \/ ~Clean'
    PROVE  IInv'
<1>1. /\ mode' = "done" /\ pos' = <<0, 0>> /\ at' = "guard" /\ result' = outcome /\ failure' = why
      /\ UNCHANGED <<command, slave, attempt, keep, reply, sent, device, preop, expired,
                     strayed, left>>
  BY DEF Finish, Nowhere, world
<1>2. TypeInv /\ SentInOrder /\ KeepClosed /\ Calm
  BY DEF IInv
<1>3. TypeInv'
  BY <1>1, <1>2 DEF TypeInv
<1>4. Placed' /\ SentInOrder' /\ KeepClosed' /\ Cleared' /\ Verified'
  BY <1>1, <1>2 DEF Placed, SentInOrder, KeepClosed, Cleared, Verified
<1>5. SuccessConfigured'
  BY <1>1 DEF SuccessConfigured, Configured
<1>6. NoHomemadeFailure'
  <2>1. ASSUME outcome = "Failed", ~Clean' PROVE NoHomemadeFailure'
    <3>1. faults' # 0 \/ left' # {} \/ \E c \in Indices : Rigid(c) /\ ~Configured(c)'
      BY <2>1 DEF Clean
    <3>2. faults' # 0 => faults' > 0
      BY <1>2, WorldAssumption DEF TypeInv
    <3> QED
      BY <3>1, <3>2 DEF NoHomemadeFailure, Rigid, Configured
  <2> QED
    BY <1>1, <2>1 DEF NoHomemadeFailure
<1>7. Calm'
  <2>1. Clean' => Clean
    <3>1. faults' = 0 => faults = 0
      BY <1>2 DEF TypeInv
    <3> QED
      BY <1>1, <3>1 DEF Clean, Configured
  <2> QED
    BY <1>1, <1>2, <2>1 DEF Calm, Answered, Kept, FixedKept, Restored, Configured
<1> QED
  BY <1>3, <1>4, <1>5, <1>6, <1>7 DEF IInv

\* A failed attempt needs an excuse only if it is the last.
LEMMA RetryIInv ==
    ASSUME IInv, mode = "pdo", NEW why \in {"Write", "Read", "Compare"}, Retry(why),
           UNCHANGED <<reply, faults, sent, world>>, ~Clean
    PROVE  IInv'
<1>1. TypeInv /\ SentInOrder /\ Verified
  BY DEF IInv
<1>2. attempt \in 1..MaxAttempts /\ MaxAttempts \in Nat \ {0} /\ slave \in Slaves /\ faults \in 0..MaxFaults
  BY <1>1, WorldAssumption DEF TypeInv
<1>3. CASE attempt < MaxAttempts
  <2>1. StartAttempt(slave, attempt + 1) /\ attempt + 1 \in 1..MaxAttempts
    BY <1>2, <1>3 DEF Retry
  <2>2. Len(sent) = Len(InitWrites)
    BY <1>1 DEF SentInOrder
  <2>3. \A c \in Indices :
          Checks[c].slave < slave /\ Checks[c].slave \notin strayed => Configured(c)
    BY <1>1 DEF Verified
  <2> QED
    BY <1>2, <2>1, <2>2, <2>3, StartAttemptIInv
<1>4. CASE ~(attempt < MaxAttempts)
  <2>1. Finish("Failed", why)
    BY <1>4 DEF Retry
  <2>2. ~Clean' /\ faults' \in faults..MaxFaults
    BY <1>2, CleanKept DEF world
  <2> QED
    BY <2>1, <2>2, FinishIInv
<1> QED
  BY <1>3, <1>4

\* What every step of a loop over one slave keeps.
LEMMA ContinueFacts ==
    ASSUME IInv, mode = "pdo", NEW o \in (0..7) \X Nat, NEW kept \in SUBSET Mapped,
           Later(slave, o, kept) # {}, Continue(o, kept),
           UNCHANGED <<reply, faults, sent, world>>
    PROVE  /\ TypeInv' /\ Placed' /\ SentInOrder' /\ SuccessConfigured' /\ NoHomemadeFailure'
           /\ mode' = "pdo" /\ keep' = kept /\ at' = "guard"
           /\ UNCHANGED <<command, slave, attempt, result, failure, reply, faults, sent, device,
                          preop, expired, strayed, left>>
           /\ pos' \in (0..7) \X Group(slave) /\ pos' = <<Phase', Cursor'>>
           /\ Visited(Phase', Cursor', kept) /\ Before(o, pos')
           /\ \A p \in 0..7 : \A c \in Group(slave) :
                Visited(p, c, kept) /\ Before(<<p, c>>, pos')
                => <<p, c>> = o \/ Before(<<p, c>>, o)
           /\ \A p \in 0..7 : \A c \in Group(slave) :
                Visited(p, c, kept) /\ Passed(p, c)' => <<p, c>> = o \/ Before(<<p, c>>, o)
<1>1. TypeInv /\ Placed /\ SentInOrder /\ NoHomemadeFailure /\ SuccessConfigured /\ slave \in Slaves
  BY DEF IInv, TypeInv
<1>2. /\ mode' = "pdo" /\ keep' = kept /\ at' = "guard"
      /\ pos' = Soonest(Later(slave, o, kept))
      /\ UNCHANGED <<command, slave, attempt, result, failure, reply, faults, sent, device,
                     preop, expired, strayed, left>>
  BY DEF Continue, verdict, world
<1>3. /\ pos' \in (0..7) \X Group(slave) /\ pos' = <<Phase', Cursor'>>
      /\ Visited(Phase', Cursor', kept) /\ Before(o, pos')
      /\ \A p \in 0..7 : \A c \in Group(slave) :
           Visited(p, c, kept) /\ Before(<<p, c>>, pos')
           => <<p, c>> = o \/ Before(<<p, c>>, o)
  <2>1. /\ pos' \in (0..7) \X Group(slave) /\ pos' = <<pos'[1], pos'[2]>>
        /\ Visited(pos'[1], pos'[2], kept) /\ Before(o, pos')
        /\ \A p \in 0..7 : \A c \in Group(slave) :
             Visited(p, c, kept) /\ Before(<<p, c>>, pos')
             => <<p, c>> = o \/ Before(<<p, c>>, o)
    BY <1>1, <1>2, Arrival
  <2> QED
    BY <2>1 DEF Phase, Cursor
<1>4. TypeInv'
  <2>1. pos' \in (0..7) \X Nat
    BY <1>1, <1>3, GroupFacts
  <2> QED
    BY <1>1, <1>2, <2>1 DEF TypeInv
<1>5. Placed' /\ SentInOrder'
  BY <1>1, <1>2, <1>3 DEF Placed, SentInOrder
<1>6. SuccessConfigured' /\ NoHomemadeFailure'
  BY <1>1, <1>2 DEF Placed, SuccessConfigured, NoHomemadeFailure
<1>7. \A p \in 0..7 : \A c \in Group(slave) :
        Visited(p, c, kept) /\ Passed(p, c)' => <<p, c>> = o \/ Before(<<p, c>>, o)
  BY <1>2, <1>3 DEF Passed
<1> QED
  BY <1>2, <1>3, <1>4, <1>5, <1>6, <1>7

\* On to the next check of a loop, after a write that was acknowledged or a
\* check that was read back as expected.
LEMMA OnwardIInv ==
    ASSUME IInv, mode = "pdo", at = "confirm", Continue(pos, keep), Later(slave, pos, keep) # {},
           (Phase \in 1..6 /\ reply = "Done") \/ (Phase = 7 /\ reply = "Match"),
           UNCHANGED <<reply, faults, sent, world>>
    PROVE  IInv'
<1>1. /\ TypeInv /\ Placed /\ KeepClosed /\ Cleared /\ Verified /\ Calm
      /\ slave \in Slaves /\ keep \in SUBSET Mapped
      /\ pos \in (0..7) \X Nat /\ pos = <<Phase, Cursor>> /\ Phase \in Nat /\ Cursor \in Nat
  BY PositionFacts DEF IInv, TypeInv
<1>2. /\ TypeInv' /\ Placed' /\ SentInOrder' /\ SuccessConfigured' /\ NoHomemadeFailure'
      /\ mode' = "pdo" /\ keep' = keep /\ at' = "guard"
      /\ UNCHANGED <<command, slave, attempt, result, failure, reply, faults, sent, device,
                     preop, expired, strayed, left>>
      /\ pos' \in (0..7) \X Group(slave) /\ pos' = <<Phase', Cursor'>>
      /\ Before(pos, pos')
      /\ \A p \in 0..7 : \A c \in Group(slave) :
           Visited(p, c, keep) /\ Before(<<p, c>>, pos')
           => <<p, c>> = pos \/ Before(<<p, c>>, pos)
      /\ \A p \in 0..7 : \A c \in Group(slave) :
           Visited(p, c, keep) /\ Passed(p, c)' => <<p, c>> = pos \/ Before(<<p, c>>, pos)
  BY <1>1, ContinueFacts
<1>3. Phase' \in 0..7 /\ Phase <= Phase'
  BY <1>1, <1>2 DEF Before
<1>4. KeepClosed'
  BY <1>1, <1>2 DEF KeepClosed
<1>5. \A p \in 1..6 : \A c \in Group(slave) :
        Visited(p, c, keep) /\ Passed(p, c)' => Passed(p, c)
  BY <1>1, <1>2 DEF Passed
<1>6. Cleared'
  <2>1. ASSUME NEW a \in AssignmentsOf(slave), Passed(1, a)' PROVE Passed(1, a)
    BY <1>1, <1>5, <2>1, AssignmentsVisited
  <2> QED
    BY <1>1, <1>2, <1>3, <1>5, <2>1 DEF Cleared
<1>7. Verified'
  <2>1. ASSUME Phase' = 7, slave \in preop, NEW c \in Group(slave), c < Cursor'
        PROVE  Configured(c)
    <3>1. c \in Nat /\ Visited(7, c, keep) /\ Before(<<7, c>>, pos')
      BY <1>1, <1>2, <2>1, GroupFacts DEF Visited, ReadBack, Before
    <3>2. <<7, c>> = pos \/ Before(<<7, c>>, pos)
      BY <1>2, <3>1
    <3>3. Phase = 7 /\ (c = Cursor \/ c < Cursor)
      BY <1>1, <3>1, <3>2 DEF Before
    <3> QED
      BY <1>1, <2>1, <3>3 DEF Verified
  <2> QED
    BY <1>1, <1>2, <2>1 DEF Verified, Configured
<1>8. Calm'
  <2>1. Clean' <=> Clean
    BY <1>2, CleanKept
  <2>2. Kept => Kept'
    BY <1>1, <1>2, <1>3 DEF Kept, Configured
  <2>3. FixedKept => FixedKept'
    <3>1. ASSUME NEW m \in Mappings PROVE Before(<<0, m + Checks[m].expected>>, pos)
      BY <1>1 DEF Before
    <3> QED
      BY <1>2, <3>1 DEF FixedKept
  <2>4. Restored => Restored'
    BY <1>2, <1>5 DEF Restored, Configured
  <2>5. Answered'
    BY <1>2 DEF Answered
  <2> QED
    BY <1>1, <1>2, <2>1, <2>2, <2>3, <2>4, <2>5 DEF Calm
<1> QED
  BY <1>2, <1>4, <1>6, <1>7, <1>8 DEF IInv

\* On in the pre-read: after a match to the next check, keeping the mapping if it
\* was the last one; after a difference to the next mapping.
LEMMA PrereadIInv ==
    ASSUME IInv, mode = "pdo", at = "confirm", Phase = 0,
           NEW last \in BlockOf(Cursor), \A d \in BlockOf(Cursor) : d <= last,
           \/ reply = "Match" /\ Cursor # last /\ Continue(pos, keep)
           \/ reply = "Match" /\ Cursor = last /\ Continue(pos, keep \union BlockOf(Cursor))
           \/ reply = "Differ" /\ Continue(<<0, last>>, keep),
           UNCHANGED <<reply, faults, sent, world>>
    PROVE  IInv'
<1>1. /\ TypeInv /\ Placed /\ KeepClosed /\ Verified /\ Calm
      /\ slave \in Slaves /\ keep \in SUBSET Mapped
      /\ pos \in (0..7) \X Nat /\ pos = <<0, Cursor>> /\ Cursor \in Nat
      /\ Cursor \in Group(slave) /\ Visited(0, Cursor, keep)
  BY PositionFacts DEF IInv, TypeInv, Placed
<1>2. PICK b \in Mappings :
             /\ Cursor \in Block(b) /\ BlockOf(Cursor) = Block(b) /\ Checks[b].slave = slave
             /\ Block(b) \subseteq Group(slave) /\ last = b + Checks[b].expected
  BY <1>1, ReadingBlock
<1>3. /\ last \in Nat /\ last \in Block(b) /\ Cursor <= last
      /\ \A e \in Block(b) : e \in Nat /\ b <= e /\ e <= last
  BY <1>1, <1>2, BlockFacts
<1> DEFINE o == IF reply = "Match" THEN pos ELSE <<0, last>>
           kept == IF reply = "Match" /\ Cursor = last THEN keep \union Block(b) ELSE keep
<1>4. /\ reply \in {"Match", "Differ"} /\ Continue(o, kept)
      /\ o \in (0..7) \X Nat /\ o[1] = 0 /\ o = <<0, o[2]>>
      /\ o[2] = (IF reply = "Match" THEN Cursor ELSE last)
      /\ keep \subseteq kept /\ kept \subseteq keep \union Block(b)
      /\ reply = "Match" /\ Cursor = last => Block(b) \subseteq kept
      /\ kept = keep \/ (reply = "Match" /\ Cursor = last)
  BY <1>1, <1>2, <1>3
<1>5. kept \in SUBSET Mapped
  BY <1>1, <1>4, BlockFacts
<1> HIDE DEF o, kept
<1>6. /\ TypeInv' /\ Placed' /\ SentInOrder' /\ SuccessConfigured' /\ NoHomemadeFailure'
      /\ mode' = "pdo" /\ keep' = kept /\ at' = "guard"
      /\ UNCHANGED <<command, slave, attempt, result, failure, reply, faults, sent, device,
                     preop, expired, strayed, left>>
      /\ pos' \in (0..7) \X Group(slave) /\ pos' = <<Phase', Cursor'>>
      /\ Before(o, pos')
      /\ \A p \in 0..7 : \A c \in Group(slave) :
           Visited(p, c, kept) /\ Before(<<p, c>>, pos') => <<p, c>> = o \/ Before(<<p, c>>, o)
      /\ \A p \in 0..7 : \A c \in Group(slave) :
           Visited(p, c, kept) /\ Passed(p, c)' => <<p, c>> = o \/ Before(<<p, c>>, o)
  <2>1. Later(slave, o, kept) # {}
    BY <1>1, <1>4, LaterSome
  <2> QED
    BY <1>1, <1>4, <1>5, <2>1, ContinueFacts
<1>7. KeepClosed'
  <2>1. ASSUME NEW m \in Mappings PROVE Block(m) \subseteq kept \/ Block(m) \cap kept = {}
    <3>1. CASE m = b
      BY <1>1, <1>4, <3>1 DEF KeepClosed
    <3>2. CASE m # b
      <4>1. Block(m) \cap Block(b) = {}
        BY <3>2, BlocksDisjoint
      <4> QED
        BY <1>1, <1>4, <4>1 DEF KeepClosed
    <3> QED
      BY <3>1, <3>2
  <2> QED
    BY <1>6, <2>1 DEF KeepClosed
\* Nothing has been written or read back yet.
<1>8. \A p \in 1..7 : \A c \in Group(slave) : ~(<<p, c>> = o \/ Before(<<p, c>>, o))
  BY <1>4 DEF Before
<1>9. \A p \in 1..6 : \A c \in Group(slave) : Visited(p, c, kept) => ~Passed(p, c)'
  <2> SUFFICES ASSUME NEW p \in 1..6, NEW c \in Group(slave), Visited(p, c, kept)
               PROVE  ~Passed(p, c)'
    OBVIOUS
  <2>1. p \in 0..7 /\ p \in 1..7
    OBVIOUS
  <2> QED
    BY <1>6, <1>8, <2>1
<1>10. Cleared'
  <2>1. ASSUME NEW a \in AssignmentsOf(slave) PROVE ~Passed(1, a)'
    <3>1. a \in Group(slave) /\ Visited(1, a, kept)
      BY <1>1, <1>5, AssignmentsVisited
    <3> QED
      BY <1>9, <3>1
  <2> QED
    BY <1>6, <1>9, <2>1 DEF Cleared
<1>11. Verified'
  <2>1. ASSUME Phase' = 7, NEW c \in Group(slave), c < Cursor' PROVE FALSE
    <3>1. Visited(7, c, kept)
      BY <1>1, GroupFacts DEF Visited, ReadBack
    <3>2. Before(<<7, c>>, pos')
      BY <1>6, <2>1 DEF Before
    <3> QED
      BY <1>6, <1>8, <3>1, <3>2
  <2> QED
    BY <1>1, <1>6, <2>1 DEF Verified, Configured
<1>12. ASSUME Clean PROVE Kept' /\ FixedKept' /\ Restored' /\ Answered'
  <2>1. /\ reply = "Match" => Configured(Cursor)
        /\ reply = "Differ" => ~Configured(Cursor)
        /\ Kept /\ FixedKept
    BY <1>1, <1>12 DEF Calm, Answered, Reading
  <2>2. ASSUME NEW c \in kept PROVE Configured(c)
    <3>1. CASE c \in keep
      BY <2>1, <3>1 DEF Kept
    <3>2. CASE c \notin keep
      <4>1. reply = "Match" /\ Cursor = last /\ c \in Block(b)
        BY <1>4, <3>2
      <4>2. c = Cursor \/ c < Cursor
        BY <1>1, <1>3, <4>1
      <4> QED
        BY <1>1, <1>2, <2>1, <4>1, <4>2 DEF Kept
    <3> QED
      BY <3>1, <3>2
  <2>3. ASSUME Phase' = 0, NEW m \in Mappings, Cursor' \in Block(m), NEW e \in Block(m),
               e < Cursor'
        PROVE  Configured(e)
    <3>1. e \in Group(slave) /\ e \in Mapped
      BY <1>6, <2>3, BlockFacts DEF Group
    <3>2. e \in Nat /\ Cursor' \in Nat /\ o[2] < Cursor' /\ o[2] \in Nat
      BY <1>1, <1>4, <1>6, <2>3, <3>1, GroupFacts DEF Before
    <3>3. e <= o[2]
      <4>1. Visited(0, e, kept) /\ Before(<<0, e>>, pos')
        BY <1>6, <2>3, <3>1 DEF Visited, Before
      <4>2. <<0, e>> = o \/ Before(<<0, e>>, o)
        BY <1>6, <3>1, <4>1
      <4> QED
        BY <1>4, <3>2, <4>2 DEF Before
    <3>4. o[2] \in Block(m)
      <4>1. m \in Nat /\ m <= e /\ Checks[m].expected \in Nat /\ Cursor' <= m + Checks[m].expected
        BY <2>3, BlockFacts, ChecksFacts
      <4> QED
        BY <3>2, <3>3, <4>1 DEF Block
    <3>5. o[2] \in Block(b)
      BY <1>2, <1>3, <1>4
    <3>6. m = b
      BY <3>4, <3>5, BlocksDisjoint
    <3>7. Cursor' <= last
      BY <1>3, <2>3, <3>6
    <3>8. o[2] = Cursor /\ reply = "Match"
      BY <1>3, <1>4, <3>2, <3>7
    <3> QED
      BY <1>1, <1>2, <2>1, <3>2, <3>3, <3>6, <3>8 DEF Kept
  <2>4. ASSUME NEW m \in Mappings, Block(m) \subseteq Fixed, Checks[m].slave = slave,
               Before(<<0, m + Checks[m].expected>>, pos')
        PROVE  Block(m) \subseteq kept
    <3> DEFINE l == m + Checks[m].expected
    <3>1. l \in Group(slave) /\ l \in Mapped /\ l \in Block(m) /\ l \in Nat
      BY <2>4, BlockFacts
    <3>2. l <= o[2]
      <4>1. <<0, l>> = o \/ Before(<<0, l>>, o)
        BY <1>6, <2>4, <3>1 DEF Visited
      <4> QED
        BY <1>4, <3>1, <4>1 DEF Before
    <3>3. CASE l < Cursor
      BY <1>1, <1>4, <2>1, <2>4, <3>3 DEF FixedKept, Before
    <3>4. CASE ~(l < Cursor)
      <4>1. Cursor <= l /\ l <= last
        BY <1>1, <1>3, <1>4, <3>1, <3>2, <3>4
      <4>2. l \in Block(b)
        <5>1. b \in Nat /\ b <= Cursor /\ Checks[b].expected \in Nat
          BY <1>2, BlockFacts, ChecksFacts
        <5> QED
          BY <1>1, <1>2, <3>1, <4>1, <5>1 DEF Block
      <4>3. m = b
        BY <3>1, <4>2, BlocksDisjoint
      <4>4. Configured(Cursor)
        BY <1>2, <1>12, <2>4, <4>3, BlockFacts DEF Clean, Rigid, Group
      <4>5. reply = "Match" /\ Cursor = last
        BY <1>1, <1>2, <1>3, <1>4, <2>1, <3>1, <3>2, <4>1, <4>3, <4>4
      <4> QED
        BY <1>4, <4>3, <4>5
    <3> QED
      BY <3>3, <3>4
  <2>5. Restored'
    BY <1>6, <1>9 DEF Restored
  <2> QED
    BY <1>6, <2>2, <2>3, <2>4, <2>5 DEF Kept, FixedKept, Answered, Configured
<1>13. Calm'
  BY <1>1, <1>6, <1>12, CleanKept DEF Calm
<1> QED
  BY <1>6, <1>7, <1>10, <1>11, <1>13 DEF IInv

-----------------------------------------------------------------------------
(* The SDOs.                                                               *)

\* What a slave that is in PREOP is asked to write it can write.
LEMMA WriteInOrder ==
    ASSUME IInv, mode = "pdo", Phase \in 1..6, slave \in preop, at # "confirm"
    PROVE  ~OutOfOrder(Cursor)
<1>1. /\ TypeInv /\ Placed /\ KeepClosed /\ Cleared
      /\ slave \in Slaves /\ keep \in SUBSET Mapped
      /\ pos = <<Phase, Cursor>> /\ Cursor \in Nat
      /\ Cursor \in Group(slave) /\ Cursor \in Indices /\ Checks[Cursor].slave = slave
      /\ Visited(Phase, Cursor, keep)
  BY PositionFacts DEF IInv, TypeInv, Placed, Group
<1>2. /\ Is(Cursor, Phases[Phase]) /\ Cursor \notin keep
      /\ ~(Is(Cursor, "MappingCount") /\ Checks[Cursor].expected = 0)
  BY <1>1, WrittenFacts
<1>3. ASSUME NEW a \in AssignmentsOf(slave), Phase \in 2..5 PROVE device[a] = 0
  <2>1. Passed(1, a)
    BY <1>1, <1>3 DEF Passed, Before
  <2> QED
    BY <1>1, <1>3, <2>1 DEF Cleared
<1>4. CASE Is(Cursor, "MappingCount")
  <2>1. Phase \in {2, 4}
    BY <1>2, <1>4, PhasesAre DEF Is
  <2> QED
    BY <1>1, <1>3, <1>4, <2>1 DEF OutOfOrder, Is
<1>5. CASE Is(Cursor, "MappingEntry")
  <2>1. Phase = 3
    BY <1>2, <1>5, PhasesAre DEF Is
  <2>2. PICK b \in Mappings : Cursor \in Block(b) /\ BlockOf(Cursor) = Block(b)
    BY <1>1, <1>5, BlocksAssumption, MappedFacts, BlockOfIs
  <2>3. Block(b) \cap keep = {} /\ Block(b) \subseteq Group(Checks[b].slave)
    BY <1>1, <1>2, <2>2, BlockFacts DEF KeepClosed
  <2>4. ASSUME NEW m \in BlockOf(Cursor), Is(m, "MappingCount") PROVE device[m] = 0
    <3>1. m = b
      BY <2>2, <2>4, BlockFacts DEF Is
    <3>2. m \in Group(slave) /\ m \in Indices /\ m \notin keep /\ Checks[m].expected # 0
      BY <1>1, <2>2, <2>3, <2>4, <3>1, BlockFacts DEF Group
    <3>3. Visited(2, m, keep)
      BY <2>4, <3>2, WrittenFacts, PhasesAre DEF Is
    <3>4. Passed(2, m)
      BY <1>1, <2>1 DEF Passed, Before
    <3> QED
      BY <1>1, <2>1, <3>2, <3>3, <3>4 DEF Cleared
  <2> QED
    BY <1>1, <1>3, <1>5, <2>1, <2>4 DEF OutOfOrder, Is
<1>6. CASE Is(Cursor, "Assignment")
  <2>1. Phase = 5
    BY <1>2, <1>6, PhasesAre DEF Is
  <2> QED
    BY <1>1, <1>3, <1>6, <2>1 DEF OutOfOrder, Is
<1> QED
  BY <1>4, <1>5, <1>6 DEF OutOfOrder

LEMMA CallWriteIInv ==
    ASSUME IInv, CallWrite
    PROVE  IInv'
<1> DEFINE refused == ~Reached \/ OutOfOrder(Cursor) \/ Cursor \in Fixed
           written == [device EXCEPT ![Cursor] = Value]
<1>1. /\ TypeInv /\ Placed /\ SentInOrder /\ KeepClosed /\ Cleared /\ Verified /\ Calm
      /\ mode = "pdo" /\ at = "call" /\ at' = "confirm" /\ Phase \in 1..6
      /\ slave \in Slaves /\ keep \in SUBSET Mapped
      /\ pos = <<Phase, Cursor>> /\ Cursor \in Nat
      /\ Cursor \in Group(slave) /\ Cursor \in Indices /\ Checks[Cursor].slave = slave
      /\ Visited(Phase, Cursor, keep) /\ Addressed = slave
  BY PositionFacts DEF IInv, TypeInv, Placed, Group, CallWrite, Writing, Addressed, Commanding
<1>2. UNCHANGED <<mode, command, slave, attempt, pos, keep, result, failure, sent, preop,
                  expired, strayed, left>>
  BY DEF CallWrite, loop, verdict
<1>3. /\ Is(Cursor, Phases[Phase]) /\ Cursor \notin keep
      /\ ~(Is(Cursor, "MappingCount") /\ Checks[Cursor].expected = 0)
  BY <1>1, WrittenFacts
<1>4. /\ device \in [Indices -> Nat] /\ faults \in 0..MaxFaults /\ MaxFaults \in Nat
      /\ Value \in Nat /\ Value = (IF Phase <= 2 THEN 0 ELSE Checks[Cursor].expected)
  BY <1>1, WorldAssumption, ChecksFacts DEF TypeInv, Value
<1>5. /\ device' = device \/ (~refused /\ device' = written)
      /\ reply' = "Done" => device' = written \/ Value # 0
      /\ faults' \in faults..MaxFaults /\ reply' \in {"Done", "Error"}
      /\ faults' = 0 => faults = 0 /\ (~refused => reply' = "Done" /\ device' = written)
  BY <1>4 DEF CallWrite
<1> HIDE DEF refused
<1>6. /\ device' \in [Indices -> Nat]
      /\ \A c \in Indices : c # Cursor => device'[c] = device[c]
      /\ device' = written => device'[Cursor] = Value
  BY <1>1, <1>4, <1>5
<1> HIDE DEF written
<1>7. TypeInv'
  BY <1>1, <1>2, <1>4, <1>5, <1>6 DEF TypeInv
<1>8. Placed' /\ SentInOrder' /\ KeepClosed'
  BY <1>1, <1>2 DEF Placed, SentInOrder, KeepClosed, Busy, Commanding, Phase, Cursor
<1>9. SuccessConfigured' /\ NoHomemadeFailure'
  BY <1>1, <1>2 DEF Placed, SuccessConfigured, NoHomemadeFailure
<1>10. Cleared'
  <2>1. ASSUME slave \in preop, Phase <= 5, NEW a \in AssignmentsOf(slave), Passed(1, a)'
        PROVE  device'[a] = 0
    <3>1. a \in Indices /\ a \in Nat /\ Is(a, "AssignmentCount")
      BY <1>1, ChecksFacts, GroupFacts DEF AssignmentsOf
    <3>2. CASE <<1, a>> = pos /\ reply' = "Done"
      BY <1>1, <1>4, <1>5, <1>6, <3>2
    <3>3. CASE Before(<<1, a>>, pos)
      <4>1. a # Cursor
        BY <1>1, <1>3, <2>1, <3>1, <3>3, PhasesAre DEF Is, Before
      <4> QED
        BY <1>1, <1>6, <2>1, <3>1, <3>3, <4>1 DEF Cleared, Passed
    <3> QED
      BY <1>2, <2>1, <3>2, <3>3 DEF Passed
  <2>2. ASSUME slave \in preop, Phase <= 3, NEW m \in Group(slave), Visited(2, m, keep), Passed(2, m)'
        PROVE  device'[m] = 0
    <3>1. m \in Indices /\ m \in Nat /\ Is(m, "MappingCount")
      BY <1>1, <2>2, ChecksFacts, GroupFacts, WrittenFacts, PhasesAre
    <3>2. CASE <<2, m>> = pos /\ reply' = "Done"
      BY <1>1, <1>4, <1>5, <1>6, <3>2
    <3>3. CASE Before(<<2, m>>, pos)
      <4>1. m # Cursor
        BY <1>1, <1>3, <2>2, <3>1, <3>3, PhasesAre DEF Is, Before
      <4> QED
        BY <1>1, <1>6, <2>2, <3>1, <3>3, <4>1 DEF Cleared, Passed
    <3> QED
      BY <1>2, <2>2, <3>2, <3>3 DEF Passed
  <2> QED
    BY <1>2, <2>1, <2>2 DEF Cleared, Phase
<1>11. Verified'
  <2>1. ASSUME NEW c \in Indices, Checks[c].slave < slave PROVE device'[c] = device[c]
    <3>1. slave \in Nat
      BY <1>1, ChecksFacts
    <3> QED
      BY <1>1, <1>6, <2>1, <3>1
  <2> QED
    BY <1>1, <1>2, <2>1 DEF Verified, Configured, Phase
<1>12. ASSUME Clean'
       PROVE  Clean /\ reply' = "Done" /\ device' = written
  <2>1. \A c \in Indices : Rigid(c) => device'[c] = device[c]
    BY <1>1, <1>3, <1>5, <1>6 DEF Rigid, refused
  <2>2. Clean
    BY <1>2, <1>5, <1>12, <2>1 DEF Clean, Configured
  <2>3. Reached /\ slave \in preop
    BY <1>1, <2>2 DEF Calm, Clean, Reached
  <2>4. ~OutOfOrder(Cursor)
    BY <1>1, <2>3, WriteInOrder
  <2>5. Cursor \notin Fixed
    <3>1. ASSUME Cursor \in Fixed PROVE FALSE
      <4>1. PICK b \in Mappings : Cursor \in Block(b)
        BY <3>1, WorldAssumption, MappedFacts
      <4>2. Block(b) \subseteq Fixed
        BY <3>1, <4>1, WorldAssumption
      <4>3. Checks[b].slave = slave
        BY <1>1, <4>1, BlockFacts DEF Group
      <4>4. Before(<<0, b + Checks[b].expected>>, pos)
        BY <1>1 DEF Before
      <4> QED
        BY <1>1, <1>3, <2>2, <4>1, <4>2, <4>3, <4>4 DEF Calm, FixedKept
    <3> QED
      BY <3>1
  <2> QED
    BY <1>5, <1>12, <2>2, <2>3, <2>4, <2>5 DEF refused, Clean
<1>13. ASSUME Clean' PROVE Answered' /\ Kept' /\ FixedKept' /\ Restored'
  <2>1. Clean /\ reply' = "Done" /\ device'[Cursor] = Value /\ Kept /\ FixedKept /\ Restored
    BY <1>1, <1>6, <1>12, <1>13 DEF Calm
  <2>2. Answered'
    BY <1>1, <1>2, <2>1 DEF Answered, Reading, Phase
  <2>3. Kept'
    <3>1. \A c \in keep : c \in Indices /\ c # Cursor
      BY <1>1, <1>3, MappedFacts
    <3> QED
      BY <1>1, <1>2, <1>6, <2>1, <3>1 DEF Kept, Configured, Phase
  <2>4. FixedKept'
    BY <1>2, <2>1 DEF FixedKept
  <2>5. ASSUME NEW p \in 3..6, NEW c \in Group(slave), Visited(p, c, keep), Passed(p, c)'
        PROVE  device'[c] = Checks[c].expected
    <3>1. c \in Indices /\ (Before(<<p, c>>, pos) \/ <<p, c>> = pos)
      BY <1>1, <1>2, <2>5, GroupFacts DEF Passed
    <3>2. CASE c = Cursor
      BY <1>1, <1>4, <2>1, <3>1, <3>2 DEF Before
    <3>3. CASE c # Cursor
      <4>1. Before(<<p, c>>, pos)
        BY <1>1, <3>1, <3>3
      <4> QED
        BY <1>1, <1>6, <2>1, <2>5, <3>1, <3>3, <4>1 DEF Restored, Passed, Configured
    <3> QED
      BY <3>2, <3>3
  <2> QED
    BY <1>2, <2>2, <2>3, <2>4, <2>5 DEF Restored, Configured
<1>14. Calm'
  BY <1>1, <1>2, <1>13 DEF Calm
<1> QED
  BY <1>7, <1>8, <1>9, <1>10, <1>11, <1>14 DEF IInv

LEMMA CallInitIInv ==
    ASSUME IInv, CallInit
    PROVE  IInv'
<1>1. /\ TypeInv /\ Placed /\ SentInOrder /\ KeepClosed /\ Calm
      /\ mode = "init" /\ at = "call" /\ at' = "confirm" /\ command \in 1..(Len(InitWrites) + 1)
      /\ command <= Len(InitWrites) /\ Len(sent) = command - 1 /\ sent \in Seq(Nat)
      /\ faults \in 0..MaxFaults /\ MaxFaults \in Nat /\ Len(InitWrites) \in Nat
  BY WorldAssumption DEF IInv, TypeInv, SentInOrder, CallInit, Commanding
<1>2. UNCHANGED <<mode, command, slave, attempt, pos, keep, result, failure, device, preop,
                  expired, strayed, left>>
  BY DEF CallInit, loop, verdict, world
<1>3. /\ sent' \in Seq(Nat) /\ Len(sent') = command
      /\ \A i \in 1..Len(sent') : sent'[i] = i
  <2>1. sent' = Append(sent, command) /\ command \in Nat
    BY <1>1 DEF CallInit
  <2> QED
    BY <1>1, <2>1 DEF SentInOrder
<1>4. /\ faults' \in faults..MaxFaults /\ reply' \in {"Done", "Error"}
      /\ faults' = 0 => faults = 0 /\ (Reached => reply' = "Done")
  BY <1>1 DEF CallInit
<1>5. TypeInv'
  BY <1>1, <1>2, <1>3, <1>4 DEF TypeInv
<1>6. Placed' /\ SentInOrder' /\ KeepClosed' /\ Cleared' /\ Verified'
  BY <1>1, <1>2, <1>3 DEF Placed, SentInOrder, KeepClosed, Cleared, Verified, Busy, Commanding
<1>7. SuccessConfigured' /\ NoHomemadeFailure'
  BY <1>1, <1>2 DEF Placed, SuccessConfigured, NoHomemadeFailure
<1>8. ASSUME Clean' PROVE Answered' /\ Kept' /\ FixedKept' /\ Restored'
  <2>1. Clean
    BY <1>2, <1>4, <1>8 DEF Clean, Configured
  <2>2. Kept /\ Reached
    <3>1. InitWrites[command] \in Slaves
      BY <1>1, WorldAssumption
    <3> QED
      BY <1>1, <2>1, <3>1 DEF Calm, Clean, Reached, Addressed, Commanding
  <2>3. reply' = "Done"
    BY <1>4, <1>8, <2>2 DEF Clean
  <2> QED
    BY <1>1, <1>2, <2>2, <2>3
    DEF Answered, Kept, FixedKept, Restored, Configured, Reading, Writing
<1>9. Calm'
  BY <1>1, <1>2, <1>8 DEF Calm
<1> QED
  BY <1>5, <1>6, <1>7, <1>9 DEF IInv

LEMMA CallReadIInv ==
    ASSUME IInv, CallRead
    PROVE  IInv'
<1>1. /\ TypeInv /\ Placed /\ SentInOrder /\ KeepClosed /\ Cleared /\ Verified /\ Calm
      /\ mode = "pdo" /\ at = "call" /\ at' = "confirm" /\ Phase \in {0, 7}
      /\ slave \in Slaves /\ pos = <<Phase, Cursor>> /\ Cursor \in Nat
      /\ Addressed = slave /\ faults \in 0..MaxFaults /\ MaxFaults \in Nat
  BY PositionFacts, WorldAssumption
  DEF IInv, TypeInv, CallRead, Reading, Addressed, Commanding
<1>2. UNCHANGED <<mode, command, slave, attempt, pos, keep, result, failure, sent, device,
                  preop, expired, strayed, left>>
  BY DEF CallRead, loop, verdict, world
<1>3. /\ faults' \in faults..MaxFaults /\ reply' \in {"Match", "Differ", "Error", "BadSize"}
      /\ reply' = "Match" => Configured(Cursor)
      /\ faults' = 0 =>
           /\ faults = 0
           /\ Reached => reply' = (IF Configured(Cursor) THEN "Match" ELSE "Differ")
  BY <1>1 DEF CallRead, Configured
<1>4. TypeInv'
  BY <1>1, <1>2, <1>3 DEF TypeInv
<1>5. Placed' /\ SentInOrder' /\ KeepClosed'
  BY <1>1, <1>2 DEF Placed, SentInOrder, KeepClosed, Busy, Commanding, Phase, Cursor
<1>6. SuccessConfigured' /\ NoHomemadeFailure'
  BY <1>1, <1>2 DEF Placed, SuccessConfigured, NoHomemadeFailure
<1>7. \A p \in 1..6 : \A c \in Group(slave) : Passed(p, c)' <=> Passed(p, c)
  BY <1>1, <1>2, <1>3 DEF Passed
<1>8. Cleared'
  <2>1. AssignmentsOf(slave) \subseteq Group(slave)
    BY DEF AssignmentsOf
  <2> QED
    BY <1>1, <1>2, <1>7, <2>1 DEF Cleared, Phase
<1>9. Verified'
  BY <1>1, <1>2, <1>3 DEF Verified, Configured, Phase, Cursor
<1>10. ASSUME Clean' PROVE Answered' /\ Kept' /\ FixedKept' /\ Restored'
  <2>1. Clean
    BY <1>2, <1>3, <1>10 DEF Clean, Configured
  <2>2. Kept /\ FixedKept /\ Restored /\ Reached
    BY <1>1, <2>1 DEF Calm, Clean, Reached
  <2>3. Answered'
    BY <1>1, <1>2, <1>3, <1>10, <2>2
    DEF Clean, Answered, Configured, Commanding, Writing, Phase, Cursor
  <2>4. Kept' /\ FixedKept'
    BY <1>2, <2>2 DEF Kept, FixedKept, Configured, Phase, Cursor
  <2>5. Restored'
    BY <1>2, <1>7, <2>2 DEF Restored, Configured
  <2> QED
    BY <2>3, <2>4, <2>5
<1>11. Calm'
  BY <1>1, <1>2, <1>10 DEF Calm
<1> QED
  BY <1>4, <1>5, <1>6, <1>8, <1>9, <1>11 DEF IInv

-----------------------------------------------------------------------------
(* The guards and what follows an SDO.                                     *)

LEMMA GuardIInv ==
    ASSUME IInv, Guard
    PROVE  IInv'
<1>1. /\ TypeInv /\ Placed /\ SentInOrder /\ KeepClosed /\ Cleared /\ Verified /\ Calm
      /\ SuccessConfigured /\ NoHomemadeFailure
      /\ at = "guard" /\ at' = "call" /\ Busy
      /\ UNCHANGED <<mode, command, slave, attempt, pos, keep, result, failure, reply, faults,
                     sent, device, preop, expired, strayed, left>>
  BY DEF IInv, Guard, loop, verdict, world
<1>2. TypeInv' /\ KeepClosed' /\ SuccessConfigured' /\ NoHomemadeFailure'
  BY <1>1 DEF TypeInv, KeepClosed, SuccessConfigured, NoHomemadeFailure
<1>3. Placed' /\ SentInOrder'
  BY <1>1 DEF Placed, SentInOrder, Busy, Commanding, Phase, Cursor
<1>4. \A p \in 1..6 : \A c \in Indices : Passed(p, c)' <=> Passed(p, c)
  BY <1>1 DEF Passed
<1>5. Group(slave) \subseteq Indices /\ AssignmentsOf(slave) \subseteq Indices
  BY DEF Group, AssignmentsOf
<1>6. Cleared' /\ Verified'
  BY <1>1, <1>4, <1>5 DEF Cleared, Verified, Configured, Phase, Cursor
<1>7. Calm'
  <2>1. Restored => Restored'
    BY <1>1, <1>4, <1>5 DEF Restored, Configured
  <2>2. Answered' /\ (Kept => Kept') /\ (FixedKept => FixedKept')
    BY <1>1 DEF Answered, Kept, FixedKept, Configured, Phase, Cursor
  <2> QED
    BY <1>1, <2>1, <2>2, CleanKept DEF Calm
<1> QED
  BY <1>2, <1>3, <1>6, <1>7 DEF IInv

LEMMA AddressedIsSlave == TypeInv /\ Busy => Addressed \in Slaves
<1>1. ASSUME TypeInv, Commanding PROVE InitWrites[command] \in Slaves
  BY <1>1, WorldAssumption DEF TypeInv, Commanding
<1> QED
  BY <1>1 DEF TypeInv, Busy, Addressed

LEMMA GuardFailsIInv ==
    ASSUME IInv, GuardFails
    PROVE  IInv'
<1>1. /\ TypeInv /\ Calm /\ Busy /\ faults \in 0..MaxFaults /\ MaxFaults \in Nat
      /\ UNCHANGED <<reply, sent, world>> /\ UNCHANGED <<device, left>>
  BY WorldAssumption DEF IInv, TypeInv, GuardFails, world
<1>2. \/ ~GuardPasses /\ UNCHANGED faults
      \/ faults' = faults + 1 /\ faults < MaxFaults
  BY DEF GuardFails
<1>3. faults' \in faults..MaxFaults /\ (expired \/ ~Clean')
  <2>1. CASE ~GuardPasses /\ UNCHANGED faults
    <3>1. ~expired => left # {}
      BY <1>1, <2>1, AddressedIsSlave DEF GuardPasses, Calm
    <3>2. ~expired => ~Clean'
      BY <1>1, <2>1, <3>1 DEF Clean
    <3> QED
      BY <1>1, <2>1, <3>2
  <2>2. CASE faults' = faults + 1 /\ faults < MaxFaults
    BY <1>1, <2>2 DEF Clean
  <2> QED
    BY <1>2, <2>1, <2>2
<1>4. PICK why \in {"PreopTimeout", "PreopState", "Clock"} : Finish("Failed", why)
  BY DEF GuardFails
<1> QED
  BY <1>1, <1>3, <1>4, FinishIInv

LEMMA BeginSlavesIInv ==
    ASSUME IInv, BeginSlaves
    PROVE  IInv'
<1>1. /\ TypeInv /\ Placed /\ SentInOrder
      /\ mode = "init" /\ ~Commanding /\ StartAttempt(slave, attempt)
      /\ UNCHANGED <<reply, faults, sent, world>>
      /\ slave \in Slaves /\ attempt \in 1..MaxAttempts /\ slave = FirstSlave
      /\ command \in 1..(Len(InitWrites) + 1) /\ Len(InitWrites) \in Nat
  BY WorldAssumption DEF IInv, TypeInv, Placed, BeginSlaves
<1>2. Len(sent) = Len(InitWrites)
  <2>1. at = "guard" /\ Len(sent) = command - 1
    BY <1>1 DEF Placed, SentInOrder, Busy, TypeInv
  <2> QED
    BY <1>1, <2>1 DEF Commanding
<1>3. \A c \in Indices : ~(Checks[c].slave < slave)
  BY <1>1, FirstIsLeast, ChecksFacts
<1> QED
  BY <1>1, <1>2, <1>3, StartAttemptIInv

LEMMA ConfirmInitIInv ==
    ASSUME IInv, ConfirmInit
    PROVE  IInv'
<1>1. /\ TypeInv /\ Placed /\ SentInOrder /\ KeepClosed /\ Calm
      /\ SuccessConfigured /\ NoHomemadeFailure
      /\ at = "confirm" /\ Commanding /\ mode = "init" /\ command <= Len(InitWrites)
      /\ UNCHANGED <<reply, faults, sent, world>>
      /\ UNCHANGED <<reply, faults, sent, device, preop, expired, strayed, left>>
      /\ command \in 1..(Len(InitWrites) + 1) /\ Len(InitWrites) \in Nat
      /\ faults \in 0..MaxFaults
  BY WorldAssumption DEF IInv, TypeInv, ConfirmInit, Confirmed, Commanding, world
<1>2. CASE reply # "Done"
  <2>1. ~Clean' /\ faults' \in faults..MaxFaults
    BY <1>1, <1>2, CleanKept DEF Calm, Answered
  <2>2. Finish("Failed", "Write")
    BY <1>2 DEF ConfirmInit
  <2> QED
    BY <1>1, <2>1, <2>2, FinishIInv
<1>3. CASE reply = "Done"
  <2>1. /\ command' = command + 1 /\ at' = "guard"
        /\ UNCHANGED <<mode, slave, attempt, pos, keep, result, failure>>
    BY <1>3 DEF ConfirmInit, verdict
  <2>2. TypeInv' /\ KeepClosed' /\ SuccessConfigured' /\ NoHomemadeFailure'
    BY <1>1, <2>1 DEF TypeInv, KeepClosed, SuccessConfigured, NoHomemadeFailure
  <2>3. Placed' /\ SentInOrder' /\ Cleared' /\ Verified'
    BY <1>1, <2>1 DEF Placed, SentInOrder, Cleared, Verified
  <2>4. Calm'
    BY <1>1, <2>1, CleanKept DEF Calm, Answered, Kept, FixedKept, Restored, Configured
  <2> QED
    BY <2>2, <2>3, <2>4 DEF IInv
<1> QED
  BY <1>2, <1>3

LEMMA ConfirmPrereadIInv ==
    ASSUME IInv, ConfirmPreread
    PROVE  IInv'
<1>1. /\ Calm /\ at = "confirm" /\ mode = "pdo" /\ Phase = 0
      /\ UNCHANGED <<reply, faults, sent, world>>
  BY DEF IInv, ConfirmPreread, Confirmed
<1>2. PICK last \in BlockOf(Cursor) :
         /\ \A d \in BlockOf(Cursor) : d <= last
         /\ \/ reply = "Match" /\ Cursor # last /\ Continue(pos, keep)
            \/ reply = "Match" /\ Cursor = last /\ Continue(pos, keep \union BlockOf(Cursor))
            \/ reply = "Differ" /\ Continue(<<0, last>>, keep)
            \/ reply \notin {"Match", "Differ"} /\ Retry("Read")
  BY DEF ConfirmPreread
<1>3. CASE reply \notin {"Match", "Differ"} /\ Retry("Read")
  <2>1. ~Clean
    BY <1>1, <1>3 DEF Calm, Answered, Reading
  <2> QED
    BY <1>1, <1>3, <2>1, RetryIInv
<1>4. CASE reply \in {"Match", "Differ"}
  BY <1>1, <1>2, <1>4, PrereadIInv
<1> QED
  BY <1>2, <1>3, <1>4

LEMMA ConfirmWriteIInv ==
    ASSUME IInv, ConfirmWrite
    PROVE  IInv'
<1>1. /\ TypeInv /\ Calm /\ at = "confirm" /\ mode = "pdo" /\ Phase \in 1..6
      /\ UNCHANGED <<reply, faults, sent, world>>
  BY DEF IInv, ConfirmWrite, Confirmed, Writing
<1>2. CASE reply = "Done"
  <2>1. slave \in Slaves /\ pos \in (0..7) \X Nat /\ pos[1] < 7
    BY <1>1 DEF TypeInv, Phase
  <2>2. Later(slave, pos, keep) # {}
    BY <2>1, LaterSome
  <2>3. Continue(pos, keep)
    BY <1>2 DEF ConfirmWrite
  <2>4. (Phase \in 1..6 /\ reply = "Done") \/ (Phase = 7 /\ reply = "Match")
    BY <1>1, <1>2
  <2> QED
    BY <1>1, <2>2, <2>3, <2>4, OnwardIInv
<1>3. CASE reply # "Done"
  <2>1. ~Clean
    BY <1>1, <1>3 DEF Calm, Answered, Writing
  <2> QED
    BY <1>1, <1>3, <2>1, RetryIInv DEF ConfirmWrite
<1> QED
  BY <1>2, <1>3

\* When nothing went wrong, reading back finds what was configured.
LEMMA ReadBackFinds ==
    ASSUME IInv, Clean, mode = "pdo", Phase = 7
    PROVE  Configured(Cursor)
<1>1. /\ Kept /\ Restored /\ pos = <<7, Cursor>>
      /\ Cursor \in Group(slave) /\ Cursor \in Indices /\ Checks[Cursor].field \in Fields
  BY PositionFacts, ChecksFacts DEF IInv, Calm, Placed, Group
<1>2. ASSUME NEW p \in 3..6, Visited(p, Cursor, keep) PROVE Configured(Cursor)
  BY <1>1, <1>2 DEF Restored, Passed, Before
<1>3. CASE Cursor \in keep
  BY <1>1, <1>3 DEF Kept
<1>4. CASE Is(Cursor, "MappingCount") /\ Checks[Cursor].expected = 0
  BY <1>1, <1>4 DEF Clean, Rigid
<1>5. CASE Cursor \notin keep /\ ~(Is(Cursor, "MappingCount") /\ Checks[Cursor].expected = 0)
  <2>1. \A p \in 3..6 : Is(Cursor, Phases[p]) => Visited(p, Cursor, keep)
    BY <1>1, <1>5, WrittenFacts
  <2>2. \E p \in 3..6 : Is(Cursor, Phases[p])
    <3>1. Is(Cursor, Phases[3]) \/ Is(Cursor, Phases[4]) \/ Is(Cursor, Phases[5])
          \/ Is(Cursor, Phases[6])
      BY <1>1, PhasesAre DEF Fields, Is
    <3>2. 3 \in 3..6 /\ 4 \in 3..6 /\ 5 \in 3..6 /\ 6 \in 3..6
      OBVIOUS
    <3> QED
      BY <3>1, <3>2
  <2> QED
    BY <1>2, <2>1, <2>2
<1> QED
  BY <1>3, <1>4, <1>5

LEMMA ConfirmReadbackIInv ==
    ASSUME IInv, ConfirmReadback
    PROVE  IInv'
<1>1. /\ TypeInv /\ Placed /\ SentInOrder /\ Verified /\ Calm
      /\ at = "confirm" /\ mode = "pdo" /\ Phase = 7 /\ slave \in preop /\ ~expired
      /\ UNCHANGED <<reply, faults, sent, world>> /\ faults \in 0..MaxFaults
      /\ slave \in Slaves /\ pos \in (0..7) \X Nat /\ pos = <<7, Cursor>> /\ Cursor \in Nat
      /\ MaxAttempts \in Nat \ {0} /\ MaxFaults \in Nat
  BY PositionFacts, WorldAssumption
  DEF IInv, TypeInv, ConfirmReadback, Confirmed, GuardPasses, Addressed, Commanding
<1>2. CASE reply # "Match"
  <2>1. ~Clean
    BY <1>1, <1>2, ReadBackFinds DEF Calm, Answered, Reading
  <2>2. Retry("Compare")
    BY <1>2 DEF ConfirmReadback
  <2> QED
    BY <1>1, <2>1, <2>2, RetryIInv
<1>3. CASE reply = "Match" /\ Later(slave, pos, keep) # {}
  <2>1. Continue(pos, keep)
    BY <1>3 DEF ConfirmReadback
  <2> QED
    BY <1>1, <1>3, <2>1, OnwardIInv
<1>4. CASE reply = "Match" /\ Later(slave, pos, keep) = {}
  <2>1. \A c \in Group(slave) : Configured(c)
    <3> SUFFICES ASSUME NEW c \in Group(slave) PROVE Configured(c)
      OBVIOUS
    <3>1. c \in Nat /\ Visited(7, c, keep)
      BY <1>1, GroupFacts DEF Visited, ReadBack
    <3>2. ~Before(pos, <<7, c>>)
      BY <1>4, <3>1 DEF Later
    <3>3. c = Cursor \/ c < Cursor
      BY <1>1, <3>1, <3>2 DEF Before
    <3> QED
      BY <1>1, <1>4, <3>3 DEF Verified
  <2>2. \A c \in Indices :
          Checks[c].slave <= slave /\ Checks[c].slave \notin strayed => Configured(c)
    <3> SUFFICES ASSUME NEW c \in Indices, Checks[c].slave <= slave, Checks[c].slave \notin strayed
                 PROVE  Configured(c)
      OBVIOUS
    <3>1. Checks[c].slave < slave \/ c \in Group(slave)
      BY <1>1, ChecksFacts DEF Group
    <3> QED
      BY <1>1, <2>1, <3>1 DEF Verified
  <2>3. NextSlave
    BY <1>4 DEF ConfirmReadback
  <2>4. CASE LaterSlaves = {}
    <3>1. \A c \in Indices : Checks[c].slave <= slave
      BY <1>1, <2>4, ChecksFacts DEF LaterSlaves
    <3>2. Finish("Ok", "None")
      BY <2>3, <2>4 DEF NextSlave
    <3>3. faults' \in faults..MaxFaults
      BY <1>1
    <3> QED
      BY <1>1, <2>2, <3>1, <3>2, <3>3, FinishIInv
  <2>5. CASE LaterSlaves # {}
    <3>1. PICK s \in LaterSlaves : (\A t \in LaterSlaves : s <= t) /\ StartAttempt(s, 1)
      BY <2>3, <2>5 DEF NextSlave
    <3>2. s \in Slaves /\ 1 \in 1..MaxAttempts /\ Len(sent) = Len(InitWrites)
      BY <1>1, <3>1 DEF LaterSlaves, SentInOrder
    <3>3. ASSUME NEW c \in Indices, Checks[c].slave < s PROVE Checks[c].slave <= slave
      <4>1. Checks[c].slave \notin LaterSlaves
        BY <1>1, <3>1, <3>2, <3>3, ChecksFacts
      <4> QED
        BY <1>1, <4>1, ChecksFacts DEF LaterSlaves
    <3> QED
      BY <1>1, <2>2, <3>1, <3>2, <3>3, StartAttemptIInv
  <2> QED
    BY <2>4, <2>5
<1> QED
  BY <1>2, <1>3, <1>4

-----------------------------------------------------------------------------
(* Slaves and clock.                                                       *)

LEMMA LeavePreopIInv ==
    ASSUME IInv, Busy, NEW s \in Slaves, LeavePreop(s)
    PROVE  IInv'
<1>1. /\ TypeInv /\ Placed /\ SentInOrder /\ KeepClosed /\ Cleared /\ Verified
      /\ mode # "done" /\ result = "Pending" /\ slave \in Slaves /\ left \subseteq Slaves
      /\ preop' = preop \ {s} /\ left' = left \union {s}
      /\ strayed' = (IF s < slave THEN strayed \union {s} ELSE strayed)
      /\ UNCHANGED <<mode, command, slave, attempt, pos, at, keep, reply, result, failure,
                     faults, sent, expired>>
  BY DEF IInv, TypeInv, Placed, Busy, Commanding, LeavePreop, loop, verdict
<1>2. device' \in [Indices -> Nat] /\ \A c \in Indices : c \notin Group(s) => device'[c] = device[c]
  <2>1. PICK image \in PowerUp :
          device' = [c \in Indices |-> IF c \in Group(s) THEN image[c] ELSE device[c]]
    BY DEF LeavePreop
  <2>2. image \in [Indices -> Nat] /\ device \in [Indices -> Nat]
    BY <1>1, WorldAssumption DEF TypeInv
  <2> QED
    BY <2>1, <2>2
<1>3. TypeInv'
  BY <1>1, <1>2 DEF TypeInv
<1>4. Placed' /\ SentInOrder' /\ KeepClosed'
  BY <1>1 DEF Placed, SentInOrder, KeepClosed, Busy, Commanding, Phase, Cursor
<1>5. SuccessConfigured' /\ NoHomemadeFailure'
  BY <1>1 DEF SuccessConfigured, NoHomemadeFailure
<1>6. ASSUME slave \in preop', NEW c \in Group(slave)
      PROVE  slave \in preop /\ c \in Indices /\ device'[c] = device[c]
  BY <1>1, <1>2, <1>6 DEF Group
<1>7. Cleared'
  <2>1. AssignmentsOf(slave) \subseteq Group(slave)
    BY DEF AssignmentsOf
  <2>2. \A p \in 1..6 : \A c \in Group(slave) : Passed(p, c)' <=> Passed(p, c)
    BY <1>1 DEF Passed
  <2> QED
    BY <1>1, <1>6, <2>1, <2>2 DEF Cleared, Phase
<1>8. Verified'
  <2>1. ASSUME NEW c \in Indices, Checks[c].slave < slave, Checks[c].slave \notin strayed'
        PROVE  Checks[c].slave \notin strayed /\ device'[c] = device[c]
    BY <1>1, <1>2, <2>1 DEF Group
  <2> QED
    BY <1>1, <1>6, <2>1 DEF Verified, Configured, Phase, Cursor
<1>9. Calm'
  BY <1>1 DEF Calm, Clean
<1> QED
  BY <1>3, <1>4, <1>5, <1>7, <1>8, <1>9 DEF IInv

LEMMA RegainPreopIInv ==
    ASSUME IInv, Busy, NEW s \in Slaves, RegainPreop(s)
    PROVE  IInv'
<1>1. /\ TypeInv /\ Placed /\ SentInOrder /\ KeepClosed /\ Cleared /\ Verified /\ Calm
      /\ SuccessConfigured /\ NoHomemadeFailure
      /\ preop' = preop \union {s} /\ (mode = "pdo" => s # slave)
      /\ preop \subseteq Slaves
      /\ UNCHANGED <<mode, command, slave, attempt, pos, at, keep, reply, result, failure,
                     faults, sent, device, expired, strayed, left>>
  BY DEF IInv, TypeInv, RegainPreop, Addressed, Commanding, loop, verdict
<1>2. TypeInv' /\ KeepClosed' /\ SuccessConfigured' /\ NoHomemadeFailure'
  BY <1>1 DEF TypeInv, KeepClosed, SuccessConfigured, NoHomemadeFailure
<1>3. Placed' /\ SentInOrder'
  BY <1>1 DEF Placed, SentInOrder, Busy, Commanding, Phase, Cursor
<1>4. \A p \in 1..6 : \A c \in Indices : Passed(p, c)' <=> Passed(p, c)
  BY <1>1 DEF Passed
<1>5. Group(slave) \subseteq Indices /\ AssignmentsOf(slave) \subseteq Indices
  BY DEF Group, AssignmentsOf
<1>6. Cleared' /\ Verified'
  BY <1>1, <1>4, <1>5 DEF Cleared, Verified, Configured, Phase, Cursor
<1>7. Calm'
  <2>1. Restored => Restored'
    BY <1>1, <1>4, <1>5 DEF Restored, Configured
  <2>2. (Answered => Answered') /\ (Kept => Kept') /\ (FixedKept => FixedKept')
    BY <1>1
    DEF Answered, Kept, FixedKept, Configured, Commanding, Writing, Reading, Phase, Cursor
  <2> QED
    BY <1>1, <2>1, <2>2, CleanKept DEF Calm
<1> QED
  BY <1>2, <1>3, <1>6, <1>7 DEF IInv

\* The clock, and steps that change nothing.
LEMMA ExpireIInv ==
    ASSUME IInv,
           UNCHANGED <<loop, at, reply, faults, sent, device, preop, strayed, left>>,
           expired' \in BOOLEAN, expired => expired'
    PROVE  IInv'
<1>1. /\ TypeInv /\ Placed /\ SentInOrder /\ KeepClosed /\ Cleared /\ Verified /\ Calm
      /\ SuccessConfigured /\ NoHomemadeFailure
      /\ UNCHANGED <<mode, command, slave, attempt, pos, at, keep, reply, result, failure,
                     faults, sent, device, preop, strayed, left>>
  BY DEF IInv, loop, verdict
<1>2. TypeInv' /\ KeepClosed' /\ SuccessConfigured' /\ NoHomemadeFailure'
  <2>1. TypeInv'
    BY <1>1 DEF TypeInv
  <2>2. KeepClosed' /\ SuccessConfigured'
    BY <1>1 DEF KeepClosed, SuccessConfigured
  <2>3. NoHomemadeFailure'
    BY <1>1, Zenon DEF NoHomemadeFailure
  <2> QED
    BY <2>1, <2>2, <2>3
<1>3. Placed' /\ SentInOrder'
  BY <1>1 DEF Placed, SentInOrder, Busy, Commanding, Phase, Cursor
<1>4. \A p \in 1..6 : \A c \in Indices : Passed(p, c)' <=> Passed(p, c)
  BY <1>1 DEF Passed
<1>5. Group(slave) \subseteq Indices /\ AssignmentsOf(slave) \subseteq Indices
  BY DEF Group, AssignmentsOf
<1>6. Cleared' /\ Verified'
  BY <1>1, <1>4, <1>5 DEF Cleared, Verified, Configured, Phase, Cursor
<1>7. Calm'
  <2>1. Restored => Restored'
    BY <1>1, <1>4, <1>5 DEF Restored, Configured
  <2>2. (Answered => Answered') /\ (Kept => Kept') /\ (FixedKept => FixedKept')
    BY <1>1
    DEF Answered, Kept, FixedKept, Configured, Commanding, Writing, Reading, Phase, Cursor
  <2> QED
    BY <1>1, <2>1, <2>2, CleanKept DEF Calm
<1> QED
  BY <1>2, <1>3, <1>6, <1>7 DEF IInv

-----------------------------------------------------------------------------
(* The theorems.                                                           *)

LEMMA InitIInv == Init => IInv
<1> SUFFICES ASSUME Init PROVE IInv
  OBVIOUS
<1>1. /\ mode = "init" /\ command = 1 /\ pos = <<0, 0>> /\ at = "guard"
      /\ slave = FirstSlave /\ attempt = 1 /\ keep = {}
      /\ reply = "None" /\ result = "Pending" /\ failure = "None"
      /\ device \in [Indices -> Nat]
      /\ preop = Slaves /\ expired = FALSE
      /\ faults = 0 /\ strayed = {} /\ left = {} /\ sent = <<>>
  BY WorldAssumption DEF Init, Nowhere
<1>2. TypeInv
  <2>1. /\ Len(InitWrites) \in Nat /\ MaxAttempts \in Nat \ {0} /\ MaxFaults \in Nat
        /\ FirstSlave \in Slaves
    BY WorldAssumption, FirstIsLeast
  <2>2. command \in 1..(Len(InitWrites) + 1) /\ attempt \in 1..MaxAttempts
        /\ pos \in (0..7) \X Nat /\ faults \in 0..MaxFaults
    BY <1>1, <2>1
  <2>3. sent \in Seq(Nat) /\ keep \subseteq Mapped /\ strayed \subseteq Slaves /\ left \subseteq Slaves
    BY <1>1
  <2> QED
    BY <1>1, <2>1, <2>2, <2>3 DEF TypeInv
<1>3. Placed /\ SentInOrder /\ KeepClosed /\ Cleared /\ Verified
  BY <1>1 DEF Placed, SentInOrder, KeepClosed, Cleared, Verified
<1>4. Calm
  BY <1>1 DEF Calm, Answered, Kept, FixedKept, Restored
<1>5. SuccessConfigured /\ NoHomemadeFailure
  BY <1>1 DEF SuccessConfigured, NoHomemadeFailure
<1> QED
  BY <1>2, <1>3, <1>4, <1>5 DEF IInv

LEMMA NextIInv == IInv /\ [Next]_vars => IInv'
<1> SUFFICES ASSUME IInv, [Next]_vars PROVE IInv'
  OBVIOUS
<1>1. CASE Thread
  BY <1>1, BeginSlavesIInv, GuardIInv, GuardFailsIInv, CallInitIInv, CallWriteIInv, CallReadIInv,
     ConfirmInitIInv, ConfirmPrereadIInv, ConfirmWriteIInv, ConfirmReadbackIInv DEF Thread
<1>2. CASE Environment
  <2>1. CASE Expire
    BY <2>1, ExpireIInv DEF Expire
  <2>2. CASE \E s \in Slaves : LeavePreop(s) \/ RegainPreop(s)
    BY <1>2, <2>2, LeavePreopIInv, RegainPreopIInv DEF Environment
  <2> QED
    BY <1>2, <2>1, <2>2 DEF Environment
<1>3. CASE UNCHANGED vars
  <2>1. UNCHANGED <<loop, at, reply, faults, sent, device, preop, strayed, left>>
        /\ expired' = expired
    BY <1>3 DEF vars, world
  <2>2. expired \in BOOLEAN
    BY DEF IInv, TypeInv
  <2> QED
    BY <2>1, <2>2, ExpireIInv
<1> QED
  BY <1>1, <1>2, <1>3 DEF Next, Returned

LEMMA Invariance == Spec => []IInv
  BY InitIInv, NextIInv, PTL DEF Spec

\* The thread's position, its verdict and the dictionaries keep their types.
THEOREM TypeCorrect == Spec => []TypeInv
<1>1. IInv => TypeInv
  BY DEF IInv
<1> QED
  BY <1>1, Invariance, PTL

\* configurePreop only succeeds over dictionaries that hold the configuration,
\* whatever slaves do meanwhile and whatever SDOs report.
THEOREM OkIsConfigured == Spec => []SuccessConfigured
<1>1. IInv => SuccessConfigured
  BY DEF IInv
<1> QED
  BY <1>1, Invariance, PTL

\* A slave that stays in PREOP is never asked for a write it has to refuse,
\* whatever it woke up with and whatever was kept.
THEOREM WritesInOrder == Spec => []OrderedWrites
<1>1. IInv => OrderedWrites
  <2> SUFFICES ASSUME IInv, at = "call", Writing, Reached PROVE ~OutOfOrder(Cursor)
    BY DEF OrderedWrites
  <2>1. mode = "pdo" /\ Phase \in 1..6
    BY DEF Writing
  <2>2. slave \in preop /\ at # "confirm"
    BY <2>1 DEF Reached, Addressed, Commanding
  <2> QED
    BY <2>1, <2>2, WriteInOrder
<1> QED
  BY <1>1, Invariance, PTL

\* With devices that answer and read-only mappings that are as configured,
\* configurePreop fails for want of time only.
THEOREM FailureHasCause == Spec => []NoHomemadeFailure
<1>1. IInv => NoHomemadeFailure
  BY DEF IInv
<1> QED
  BY <1>1, Invariance, PTL

\* However often slaves are retried, init commands are sent once and in order.
THEOREM CommandsOnce == Spec => []InitOnce
<1>1. IInv => InitOnce
  BY DEF IInv, SentInOrder, InitOnce
<1> QED
  BY <1>1, Invariance, PTL
=============================================================================
