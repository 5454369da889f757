------------------------- MODULE MasterStartupProofs -------------------------
(***************************************************************************)
(* Theorems about EthercatMaster::initialize for any number of slaves, any *)
(* budget and any delay of the program's steps.  The parts of the          *)
(* inductive invariant:                                                    *)
(*   Stage   - what is held and configured at each point of initialize;    *)
(*   Count   - stable_count never runs ahead of what was seen of any slave;*)
(*   Spent   - what the budget can have been overdrawn by so far;          *)
(*   Clocked - the times IgH was given.                                    *)
(***************************************************************************)
EXTENDS MasterStartup, TLAPS

ActivePcs == {"reseed", "data", "layout"}
FromActivate == {"activate"} \union ActivePcs
FromRemaining == {"remaining", "configure", "seed"} \union FromActivate
FromReference == {"reference", "checks"} \union FromRemaining
FromInput == {"input", "output", "slaves"} \union FromReference

Stage ==
    /\ pc # "done" <=> result = "Pending"
    /\ pc # "done" => ~initialized
    /\ pc = "request" => held = {} /\ igh = "free"
    /\ pc \notin {"request", "done"} => "master" \in held
    /\ igh = "active" => pc \in ActivePcs \/ result = "Ok"
    /\ pc \in ActivePcs => igh = "active"
    /\ pc = "identify" => identities < NSlaves
    /\ pc = "discover" => identities = 0
    /\ pc \in EarlyPcs => identities = 0
    /\ pc \in FromInput => identities = NSlaves
    /\ pc \in FromInput \ {"input"} => "input" \in held
    /\ pc \in FromInput \ {"input", "output"} => "output" \in held
    /\ pc \in EarlyPcs \union {"discover", "identify", "input", "output"} => configs = 0
    /\ pc = "slaves" => configs < NSlaves
    /\ pc \in FromReference => configs = NSlaves
    /\ pc \in FromRemaining => "checks" \in held
    /\ pc = "layout" => "data" \in held
    /\ AllOrNothing

Count ==
    /\ pc = "query" => at \in 1..(NSlaves + 1)
    /\ pc \in {"poll", "sleep"} => \A s \in Slaves : streak[s] >= stable
    /\ pc = "query" /\ allReady =>
         \A s \in Slaves : streak[s] >= stable + (IF s < at THEN 1 ELSE 0)
    /\ SettledBeforeTouch

Spent ==
    /\ pc = "configure" => now + remaining <= preopDeadline + MaxLag
    /\ pc = "seed" => now < preopDeadline + 2 * MaxLag
    /\ ActivatedInBudget

Clocked ==
    /\ pc \notin FromActivate \union {"done"} => given = <<>>
    /\ pc \in FromActivate /\ dc => given # <<>> /\ origin = given[1]
    /\ PhaseSeeded

IInv == TypeOK /\ Stage /\ Count /\ Spent /\ Clocked

-----------------------------------------------------------------------------

\* A step is at most MaxLag late.
LEMMA LaterFacts ==
  ASSUME NEW t \in Nat, NEW u \in Later(t)
  PROVE  u \in Nat /\ u <= t + MaxLag
  <1>1. PICK lag \in 0..MaxLag : u = IF t + lag <= Horizon THEN t + lag ELSE Horizon
    BY DEF Later
  <1> QED
    BY <1>1, MasterAssumption

LEMMA InitIInv == Init => IInv
  <1> SUFFICES ASSUME Init PROVE IInv
    OBVIOUS
  <1>1. TypeOK
    <2>1. /\ dc \in BOOLEAN /\ ready \subseteq Slaves /\ streak \in [Slaves -> Nat]
          /\ allReady \in BOOLEAN /\ reference \in BOOLEAN /\ initialized \in BOOLEAN
      BY DEF Init
    <2>2. identities \in 0..NSlaves /\ configs \in 0..NSlaves
      BY MasterAssumption DEF Init
    <2>3. /\ pc \in EarlyPcs \union LatePcs \union {"done"} /\ result \in {"Pending", "Ok", "Failed"}
          /\ igh \in {"free", "reserved", "active"} /\ held \subseteq Handles
      BY DEF Init, EarlyPcs
    <2>4. /\ now \in Nat /\ preopDeadline \in Nat /\ limit \in Nat /\ remaining \in Nat
          /\ at \in Nat /\ stable \in Nat
          /\ origin \in Nat \union {-1} /\ given \in Seq(Nat)
      BY DEF Init
    <2> QED
      BY <2>1, <2>2, <2>3, <2>4 DEF TypeOK
  <1>2. Stage
    BY MasterAssumption DEF Init, Stage, AllOrNothing, EarlyPcs, ActivePcs, FromActivate,
       FromRemaining, FromReference, FromInput
  <1>3. Count /\ Spent /\ Clocked
    BY DEF Init, Count, SettledBeforeTouch, LatePcs, Spent, ActivatedInBudget, Clocked,
       PhaseSeeded, FromActivate, ActivePcs
  <1> QED
    BY <1>1, <1>2, <1>3 DEF IInv

\* A failure, wherever it happens, ends in the object as it was constructed.
LEMMA FailIInv ==
  ASSUME IInv, pc # "done", Fail
  PROVE  IInv'
  <1> USE MasterAssumption DEF IInv, Fail, TypeOK, Stage, AllOrNothing, budget, polling
  <1>1. igh' = "free"
    BY DEF Release
  <1>2. TypeOK'
    <2>1. identities' \in 0..NSlaves /\ configs' \in 0..NSlaves /\ held' \subseteq Handles
      OBVIOUS
    <2>2. /\ pc' \in EarlyPcs \union LatePcs \union {"done"}
          /\ result' \in {"Pending", "Ok", "Failed"} /\ origin' \in Nat \union {-1}
      OBVIOUS
    <2>3. reference' \in BOOLEAN /\ initialized' \in BOOLEAN
      OBVIOUS
    <2> QED
      BY <1>1, <2>1, <2>2, <2>3
  <1>3. Stage'
    BY <1>1 DEF EarlyPcs, ActivePcs, FromActivate, FromRemaining, FromReference, FromInput
  <1>4. Count' /\ Spent' /\ Clocked'
    BY <1>1 DEF Count, SettledBeforeTouch, LatePcs, Spent, ActivatedInBudget, Clocked,
       PhaseSeeded, FromActivate, ActivePcs
  <1> QED
    BY <1>2, <1>3, <1>4 DEF IInv

\* One answer during a poll.
QueryResult ==
    /\ streak' \in [Slaves -> Nat]
    /\ \A s \in Slaves \ {at} : streak'[s] = streak[s]
    /\ at \in ready => streak'[at] = streak[at] + 1
    /\ allReady' \in BOOLEAN
    /\ allReady' => allReady /\ at \in ready

LEMMA QueryFacts ==
  ASSUME IInv, Query
  PROVE  QueryResult
  <1>1. streak \in [Slaves -> Nat] /\ at \in Slaves
    BY MasterAssumption DEF IInv, TypeOK, Count, Query, Slaves
  <1>2. streak' = [streak EXCEPT ![at] = IF at \in ready THEN streak[at] + 1 ELSE 0]
    BY DEF Query
  <1>3. streak[at] \in Nat
    BY <1>1
  <1>4. PICK n \in Nat : /\ streak' = [streak EXCEPT ![at] = n]
                         /\ at \in ready => n = streak[at] + 1
    <2>1. CASE at \in ready
      <3>1. streak' = [streak EXCEPT ![at] = streak[at] + 1] /\ streak[at] + 1 \in Nat
        BY <1>2, <1>3, <2>1
      <3> QED
        BY <3>1, Zenon
    <2>2. CASE at \notin ready
      BY <1>2, <2>2
    <2> QED
      BY <2>1, <2>2
  <1>5. allReady' = (allReady /\ at \in ready)
    BY Zenon DEF Query
  <1>6. allReady' \in BOOLEAN /\ (allReady' => allReady /\ at \in ready)
    BY <1>5
  <1> QED
    BY <1>1, <1>4, <1>6 DEF QueryResult

\* The reservation and the wait for PREOP.
LEMMA WaitIInv ==
  ASSUME IInv, \/ Request \/ StartBudget \/ BeginWait \/ BeginPoll \/ Query
               \/ EndPoll \/ Sleep
  PROVE  IInv'
  <1> USE MasterAssumption
      DEF IInv, TypeOK, Stage, Count, Spent, Clocked, AllOrNothing, SettledBeforeTouch,
          ActivatedInBudget, PhaseSeeded, EarlyPcs, LatePcs, ActivePcs, FromActivate,
          FromRemaining, FromReference, FromInput, Slaves, Handles,
          polling, object, phase, budget, Goto
  <1>1. CASE Request
    BY <1>1, LaterFacts DEF Request
  <1>2. CASE StartBudget
    BY <1>2, LaterFacts DEF StartBudget
  <1>3. CASE BeginWait
    BY <1>3, LaterFacts DEF BeginWait
  <1>4. CASE BeginPoll
    BY <1>4, LaterFacts DEF BeginPoll
  <1>5. CASE Query
    <2>1. /\ pc = "query" /\ at \in Slaves /\ pc' = "query" /\ now' \in Later(now)
          /\ at' = at + 1
          /\ UNCHANGED <<result, budget, stable, object, phase, dc, ready>>
      BY <1>5 DEF Query
    <2>2. QueryResult
      BY <1>5, QueryFacts
    <2>4. TypeOK' /\ Stage' /\ Spent' /\ Clocked'
      BY <2>1, <2>2, LaterFacts DEF QueryResult
    <2>5. Count'
      BY <2>1, <2>2 DEF QueryResult
    <2> QED
      BY <2>4, <2>5
  <1>6. CASE EndPoll
    BY <1>6, LaterFacts DEF EndPoll, Counted, StableConfirmations
  <1>7. CASE Sleep
    BY <1>7, LaterFacts DEF Sleep
  <1> QED
    BY <1>1, <1>2, <1>3, <1>4, <1>5, <1>6, <1>7

\* From the settled bus to the configured one.
LEMMA ConfigureIInv ==
  ASSUME IInv, \/ Discover \/ Identify \/ CreateInput \/ CreateOutput \/ ConfigureSlave
               \/ SelectReference \/ Prepare \/ TakeRemaining \/ ConfigurePreop
  PROVE  IInv'
  <1> USE MasterAssumption
      DEF IInv, TypeOK, Stage, Count, Spent, Clocked, AllOrNothing, SettledBeforeTouch,
          ActivatedInBudget, PhaseSeeded, EarlyPcs, LatePcs, ActivePcs, FromActivate,
          FromRemaining, FromReference, FromInput, Handles,
          polling, object, phase, budget, Goto
  <1>1. CASE Discover
    <2>1. PICK t \in Nat : now' \in Later(t)
      BY <1>1 DEF Discover
    <2> QED
      BY <1>1, <2>1, LaterFacts DEF Discover
  <1>2. CASE Identify
    BY <1>2, LaterFacts DEF Identify
  <1>3. CASE CreateInput
    BY <1>3, LaterFacts DEF CreateInput, Acquire
  <1>4. CASE CreateOutput
    BY <1>4, LaterFacts DEF CreateOutput, Acquire
  <1>5. CASE ConfigureSlave
    BY <1>5, LaterFacts DEF ConfigureSlave
  <1>6. CASE SelectReference
    BY <1>6, LaterFacts DEF SelectReference
  <1>7. CASE Prepare
    BY <1>7, LaterFacts DEF Prepare, Acquire
  <1>8. CASE TakeRemaining
    BY <1>8, LaterFacts DEF TakeRemaining, Left
  <1>9. CASE ConfigurePreop
    <2>1. PICK t \in now..Horizon : t < limit' /\ now' \in Later(t)
      BY <1>9 DEF ConfigurePreop
    <2>2. now' \in Nat /\ now' <= t + MaxLag
      BY <2>1, LaterFacts
    <2> QED
      BY <1>9, <2>1, <2>2 DEF ConfigurePreop
  <1> QED
    BY <1>1, <1>2, <1>3, <1>4, <1>5, <1>6, <1>7, <1>8, <1>9

\* Activation and the rest.
LEMMA ActivateIInv ==
  ASSUME IInv, Seed \/ Activate \/ Reseed \/ MapDomains \/ Succeed
  PROVE  IInv'
  <1> USE MasterAssumption
      DEF IInv, TypeOK, Stage, Count, Spent, Clocked, AllOrNothing, SettledBeforeTouch,
          ActivatedInBudget, PhaseSeeded, EarlyPcs, LatePcs, ActivePcs, FromActivate,
          FromRemaining, FromReference, FromInput, Handles,
          polling, object, phase, budget, Goto
  <1>1. CASE Seed
    BY <1>1, LaterFacts DEF Seed, SupplyTime, Origin
  <1>2. CASE Activate
    BY <1>2, LaterFacts DEF Activate
  <1>3. CASE Reseed
    BY <1>3, LaterFacts DEF Reseed, SupplyTime, Origin
  <1>4. CASE MapDomains
    BY <1>4, LaterFacts DEF MapDomains, Acquire
  <1>5. CASE Succeed
    BY <1>5 DEF Succeed
  <1> QED
    BY <1>1, <1>2, <1>3, <1>4, <1>5

LEMMA NextIInv == IInv /\ [Next]_vars => IInv'
  <1> SUFFICES ASSUME IInv, [Next]_vars PROVE IInv'
    OBVIOUS
  <1>1. CASE Advance
    BY <1>1, WaitIInv, ConfigureIInv, ActivateIInv, FailIInv
       DEF Advance, WaitExpired, NothingLeft
  <1>2. CASE CallFails
    BY <1>2, FailIInv DEF CallFails, Fallible
  <1>3. ASSUME NEW s \in Slaves, SlaveChanges(s) PROVE IInv'
    BY <1>3 DEF SlaveChanges, budget, polling, object, phase, IInv, TypeOK, Stage, Count,
       Spent, Clocked, AllOrNothing, SettledBeforeTouch, ActivatedInBudget, PhaseSeeded
  <1>4. CASE UNCHANGED vars
    BY <1>4 DEF vars, budget, polling, object, phase, IInv, TypeOK, Stage, Count,
       Spent, Clocked, AllOrNothing, SettledBeforeTouch, ActivatedInBudget, PhaseSeeded
  <1> QED
    BY <1>1, <1>2, <1>3, <1>4 DEF Next, Returned

LEMMA Invariance == Spec => []IInv
  <1> QED
    BY InitIInv, NextIInv, PTL DEF Spec

-----------------------------------------------------------------------------

\* The types of EthercatMaster and of the locals of initialize.
THEOREM TypeCorrect == Spec => []TypeOK
  <1>1. IInv => TypeOK
    BY DEF IInv
  <1> QED
    BY <1>1, Invariance, PTL

\* None of the error returns of initialize leaves a reserved master or a stale
\* pointer, and success is complete.
THEOREM NothingHalfway == Spec => []AllOrNothing
  <1>1. IInv => AllOrNothing
    BY DEF IInv, Stage
  <1> QED
    BY <1>1, Invariance, PTL

\* waitForSlavesInPreop lets the configuration begin on a settled bus only.
THEOREM SettledFirst == Spec => []SettledBeforeTouch
  <1>1. IInv => SettledBeforeTouch
    BY DEF IInv, Count
  <1> QED
    BY <1>1, Invariance, PTL

\* The three deadlines made of preop_timeout_ms do not add up.
THEOREM OneBudget == Spec => []ActivatedInBudget
  <1>1. IInv => ActivatedInBudget
    BY DEF IInv, Spent
  <1> QED
    BY <1>1, Invariance, PTL

\* dcPhaseOriginNs() is the time that was given before activation.
THEOREM OriginGiven == Spec => []PhaseSeeded
  <1>1. IInv => PhaseSeeded
    BY DEF IInv, Clocked
  <1> QED
    BY <1>1, Invariance, PTL
=============================================================================
