------------------------ MODULE ConfigWritebackProofs ------------------------
(***************************************************************************)
(* What others find in the place of the configuration, for any number of   *)
(* PDOs to discover and any number of edits, whenever this process dies.   *)
(***************************************************************************)
EXTENDS ConfigWriteback, TLAPS

Pcs == {"discover", "compare", "stat", "create", "write", "restat", "reread", "rename",
        "done", "dead"}
Writing == {"write", "restat", "reread", "rename"}

\* Nothing is at a path but the configuration and our own temporary file.
FilesInv ==
    /\ temp # target /\ text[target] # Absent
    /\ temp # None => text[temp] # Absent
    /\ \A i \in Inodes : i # target /\ i # temp => text[i] = Absent

\* Where a temporary file is.
TempInv ==
    /\ pc \in Writing => temp # None
    /\ pc \notin Writing \union {"dead"} => temp = None
    /\ pc \in {"restat", "reread", "rename"} => text[temp] = Output

\* Until the rename nothing of the discovery is in the configuration.
PlaceInv ==
    /\ text[target].whole
    /\ text[target].filled = IF result = "Ok" THEN NPdos ELSE 0
    /\ result # "Ok" => text[target].edits = edits /\ source = Loaded
    /\ memory = IF result = "Ok" THEN NPdos ELSE 0

StageInv ==
    /\ pc \notin {"done", "dead"} => result = "Pending"
    /\ pc \notin {"discover", "done", "dead"} => found = NPdos
    /\ pc = "dead" => result = "Pending"
    /\ seen <= edits
    /\ pc = "rename" => seen = 0

IInv == TypeOK /\ FilesInv /\ TempInv /\ PlaceInv /\ StageInv

LEMMA TextFields ==
    ASSUME NEW e \in 0..MaxEdits, NEW n \in 0..NPdos, NEW b \in BOOLEAN
    PROVE  [edits |-> e, filled |-> n, whole |-> b] \in Texts
BY DEF Texts

LEMMA TextNotAbsent == ASSUME NEW t \in Texts PROVE t # Absent
BY DEF Texts, Absent

LEMMA LoadedText ==
    /\ Loaded \in Texts /\ Loaded # Absent
    /\ [Loaded EXCEPT !.whole = FALSE] \in Texts
<1>1. 0 \in 0..MaxEdits /\ 0 \in 0..NPdos
  BY WritebackAssumption
<1>2. [Loaded EXCEPT !.whole = FALSE] = [edits |-> 0, filled |-> 0, whole |-> FALSE]
  <2>1. \A t, c : t = Loaded => [t EXCEPT !.whole = c] = [edits |-> 0, filled |-> 0, whole |-> c]
    BY DEF Loaded
  <2> QED
    BY <2>1
<1>3. Loaded \in Texts
  BY <1>1, TextFields DEF Loaded
<1>4. [Loaded EXCEPT !.whole = FALSE] \in Texts
  BY <1>1, <1>2, TextFields
<1> QED
  BY <1>3, <1>4, TextNotAbsent

LEMMA InitIInv == Init => IInv
<1> SUFFICES ASSUME Init PROVE IInv
  OBVIOUS
<1>1. Loaded \in Texts /\ Loaded # Absent
  BY LoadedText
<1>2. text = [i \in Inodes |-> IF i = 0 THEN Loaded ELSE Absent] /\ target = 0
      /\ temp = None /\ 0 \in Inodes
  BY DEF Init, Inodes
<1>3. TypeOK
  <2>1. text \in [Inodes -> Texts \union {Absent}] /\ source \in Texts
    BY <1>1, <1>2 DEF Init
  <2>2. expired \in BOOLEAN
    BY DEF Init
  <2> QED
    BY <1>2, <2>1, <2>2, WritebackAssumption DEF Init, TypeOK
<1>4. FilesInv
  BY <1>1, <1>2 DEF FilesInv, None
<1>5. TempInv /\ StageInv
  BY <1>2 DEF Init, TempInv, StageInv, Writing
<1>6. PlaceInv
  BY <1>2 DEF Init, PlaceInv, Loaded
<1> QED
  BY <1>3, <1>4, <1>5, <1>6 DEF IInv

\* The temporary file is all that Fail takes away.
LEMMA FailIInv == ASSUME IInv, pc \notin {"done", "dead"}, Fail PROVE IInv'
<1>1. result' = "Failed" /\ pc' = "done" /\ temp' = None
      /\ text' = (IF temp = None THEN text ELSE [text EXCEPT ![temp] = Absent])
      /\ UNCHANGED <<expired, found, source, before, memory, seen, target, edits>>
  BY DEF Fail, Discard
<1>2. temp # target /\ text \in [Inodes -> Texts \union {Absent}]
      /\ target \in Inodes /\ temp \in Inodes \union {None} /\ target # None
  BY DEF IInv, FilesInv, TypeOK, Inodes, None
<1>3. /\ text' \in [Inodes -> Texts \union {Absent}] /\ text'[target] = text[target]
      /\ \A i \in Inodes : i # target => text'[i] = Absent
  <2>1. CASE temp = None
    <3>1. text' = text /\ \A i \in Inodes : i # temp
      BY <1>1, <2>1 DEF Inodes, None
    <3> QED
      BY <1>2, <3>1 DEF IInv, FilesInv
  <2>2. CASE temp # None
    <3>1. temp \in Inodes /\ text' = [text EXCEPT ![temp] = Absent]
      BY <1>1, <1>2, <2>2
    <3>2. \A i \in Inodes : text'[i] = IF i = temp THEN Absent ELSE text[i]
      BY <1>2, <3>1
    <3>3. text' \in [Inodes -> Texts \union {Absent}]
      BY <1>2, <3>1
    <3> QED
      BY <1>2, <3>2, <3>3 DEF IInv, FilesInv
  <2> QED
    BY <2>1, <2>2
<1>4. TypeOK'
  BY <1>1, <1>3 DEF IInv, TypeOK
<1>5. FilesInv'
  BY <1>1, <1>2, <1>3 DEF IInv, FilesInv
<1>6. TempInv' /\ StageInv'
  BY <1>1 DEF IInv, TempInv, StageInv, Writing
<1>7. PlaceInv'
  BY <1>1, <1>3 DEF IInv, PlaceInv, StageInv
<1> QED
  BY <1>4, <1>5, <1>6, <1>7 DEF IInv

LEMMA DiscoveryIInv == ASSUME IInv, Discovery PROVE IInv'
<1>1. CASE ReadFails
  BY <1>1, FailIInv DEF ReadFails
<1>2. CASE ReadPdo
  <2>1. found' \in 0..NPdos
    BY <1>2, WritebackAssumption DEF ReadPdo, IInv, TypeOK
  <2> QED
    BY <1>2, <2>1 DEF ReadPdo, file, IInv, TypeOK, FilesInv, TempInv, PlaceInv, StageInv, Writing
<1>3. CASE Discovered
  <2>1. pc = "discover" /\ found = NPdos /\ result = "Pending" /\ temp = None
        /\ UNCHANGED <<expired, found, source, before, memory, seen, target, edits>>
    BY <1>3 DEF Discovered, AllFound, IInv, StageInv, TempInv, Writing
  <2>2. UNCHANGED <<text, temp>>
    BY <1>3, <2>1 DEF Discovered, Discard
  <2>3. \/ pc' = "done" /\ result' = "Ok" /\ NPdos = 0
        \/ pc' = "done" /\ result' = "Failed"
        \/ pc' = "compare" /\ result' = "Pending"
    BY <1>3, <2>1 DEF Discovered
  <2>4. TypeOK'
    BY <2>1, <2>2, <2>3 DEF IInv, TypeOK
  <2>5. FilesInv' /\ TempInv' /\ StageInv'
    BY <2>1, <2>2, <2>3 DEF IInv, FilesInv, TempInv, StageInv, Writing
  <2>6. PlaceInv'
    BY <2>1, <2>2, <2>3 DEF IInv, PlaceInv
  <2> QED
    BY <2>4, <2>5, <2>6 DEF IInv
<1> QED
  BY <1>1, <1>2, <1>3 DEF Discovery

\* The file of mkstemp is a new one.
LEMMA CreateIInv == ASSUME IInv, Create PROVE IInv'
<1>1. pc = "create" /\ pc' = "write" /\ temp' = Where
      /\ text' = [text EXCEPT ![Where] = [source EXCEPT !.whole = FALSE]]
      /\ UNCHANGED <<expired, found, source, before, memory, result, seen, target, edits>>
  BY DEF Create, Step
<1>2. temp = None /\ text \in [Inodes -> Texts \union {Absent}] /\ target \in Inodes
      /\ result = "Pending" /\ source = Loaded
  BY <1>1 DEF IInv, TempInv, Writing, TypeOK, StageInv, PlaceInv
<1>3. \E i \in Inodes : text[i] = Absent
  <2>1. PICK i \in Inodes : i # target
    BY DEF Inodes
  <2> QED
    BY <1>2, <2>1 DEF IInv, FilesInv, Inodes, None
<1>4. Where \in Inodes /\ text[Where] = Absent
  BY <1>3 DEF Where
<1>5. Where # target /\ Where # None
  BY <1>4 DEF IInv, FilesInv, Inodes, None
<1>6. [source EXCEPT !.whole = FALSE] \in Texts
  BY <1>2, LoadedText
<1> DEFINE new == [source EXCEPT !.whole = FALSE]
<1> HIDE DEF new
<1>7. text' = [text EXCEPT ![Where] = new] /\ new \in Texts /\ new # Absent
  BY <1>1, <1>6, TextNotAbsent DEF new
<1>8. TypeOK'
  BY <1>1, <1>2, <1>4, <1>7 DEF IInv, TypeOK
<1>9. FilesInv'
  <2>1. \A i \in Inodes : text'[i] = IF i = Where THEN new ELSE text[i]
    BY <1>2, <1>4, <1>7
  <2>2. text[target] # Absent /\ \A i \in Inodes : i # target => text[i] = Absent
    BY <1>2 DEF IInv, FilesInv, Inodes, None
  <2>3. PICK w \in Inodes : w = Where
    BY <1>4
  <2>4. temp' = w /\ target' = target
    BY <1>1, <2>3
  <2> QED
    BY <1>2, <1>5, <1>7, <2>1, <2>2, <2>3, <2>4 DEF FilesInv
<1>10. TempInv' /\ StageInv'
  BY <1>1, <1>5 DEF IInv, TempInv, StageInv, Writing
<1>11. PlaceInv'
  <2>1. text'[target'] = text[target]
    BY <1>1, <1>2, <1>5, <1>7
  <2> QED
    BY <1>1, <2>1 DEF IInv, PlaceInv
<1> QED
  BY <1>8, <1>9, <1>10, <1>11 DEF IInv

LEMMA OutputType ==
    ASSUME TypeOK
    PROVE  /\ Output \in Texts /\ Output # Absent
           /\ Output.edits = source.edits /\ Output.filled = found
           /\ source.whole => Output.whole
<1>1. PICK e \in 0..MaxEdits, n \in 0..NPdos, b \in BOOLEAN :
        source = [edits |-> e, filled |-> n, whole |-> b]
  BY DEF TypeOK, Texts
<1>2. Output = [edits |-> e, filled |-> found, whole |-> b]
  BY <1>1 DEF Output
<1>3. found \in 0..NPdos
  BY DEF TypeOK
<1>4. Output \in Texts
  BY <1>1, <1>2, <1>3 DEF Texts
<1> QED
  BY <1>1, <1>2, <1>4, TextNotAbsent

LEMMA WriteIInv == ASSUME IInv, Write PROVE IInv'
<1>1. pc = "write" /\ pc' = "restat" /\ text' = [text EXCEPT ![temp] = Output]
      /\ UNCHANGED <<expired, found, source, before, temp, memory, result, seen, target, edits>>
  BY DEF Write, Step
<1>2. /\ text \in [Inodes -> Texts \union {Absent}] /\ target \in Inodes
      /\ temp \in Inodes /\ temp # target
  BY <1>1 DEF IInv, TypeOK, TempInv, FilesInv, Writing
<1>3. Output \in Texts /\ Output # Absent /\ Output' = Output
  BY <1>1, OutputType DEF IInv, Output
<1>4. TypeOK'
  BY <1>1, <1>2, <1>3 DEF IInv, TypeOK
<1>5. FilesInv' /\ TempInv' /\ StageInv'
  BY <1>1, <1>2, <1>3 DEF IInv, FilesInv, TempInv, StageInv, Writing
<1>6. PlaceInv'
  BY <1>1, <1>2 DEF IInv, PlaceInv
<1> QED
  BY <1>4, <1>5, <1>6 DEF IInv

\* The new text is whole, and has everything that was found.
LEMMA RenameIInv == ASSUME IInv, Rename PROVE IInv'
<1>1. pc = "rename" /\ pc' = "done" /\ target' = temp /\ temp' = None
      /\ text' = [text EXCEPT ![target] = Absent]
      /\ source' = Output /\ memory' = found /\ result' = "Ok"
      /\ UNCHANGED <<expired, found, before, seen, edits>>
  BY DEF Rename, Step
<1>2. /\ text \in [Inodes -> Texts \union {Absent}] /\ target \in Inodes
      /\ temp \in Inodes /\ temp # target /\ text[temp] = Output
      /\ found = NPdos /\ source = Loaded
  BY <1>1 DEF IInv, TypeOK, TempInv, FilesInv, Writing, StageInv, PlaceInv
<1>3. Output \in Texts /\ Output # Absent /\ Output.filled = found /\ Output.whole
  BY <1>2, OutputType DEF IInv, Loaded
<1>4. text' \in [Inodes -> Texts \union {Absent}] /\ text'[temp] = Output
      /\ \A i \in Inodes : i # temp => text'[i] = Absent
  BY <1>1, <1>2 DEF IInv, FilesInv
<1>5. TypeOK'
  BY <1>1, <1>2, <1>3, <1>4 DEF IInv, TypeOK
<1>6. FilesInv'
  BY <1>1, <1>2, <1>3, <1>4 DEF FilesInv, Inodes, None
<1>7. TempInv' /\ StageInv'
  BY <1>1 DEF IInv, TempInv, StageInv, Writing
<1>8. PlaceInv'
  BY <1>1, <1>2, <1>3, <1>4 DEF PlaceInv
<1> QED
  BY <1>5, <1>6, <1>7, <1>8 DEF IInv

\* If what the last look reads is what was parsed, nobody had edited it yet.
LEMMA LooksIInv == ASSUME IInv, Compare \/ Stat \/ Restat \/ Reread PROVE IInv'
<1> USE DEF IInv, FilesInv, TempInv, PlaceInv, StageInv, Writing, Step, file
<1>1. CASE Compare
  BY <1>1 DEF Compare, TypeOK, Output
<1>2. CASE Stat
  BY <1>2 DEF Stat, TypeOK, Output
<1>3. CASE Restat
  BY <1>3 DEF Restat, TypeOK, Output
<1>4. CASE Reread
  <2>1. seen = 0
    <3>1. text[target].edits = edits /\ text[target] = source /\ source = Loaded
      BY <1>4 DEF Reread, Unchanged
    <3>2. edits = 0 /\ seen \in Nat /\ seen <= edits
      BY <3>1 DEF Loaded, TypeOK
    <3> QED
      BY <3>2
  <2> QED
    BY <1>4, <2>1 DEF Reread, TypeOK, Output
<1> QED
  BY <1>1, <1>2, <1>3, <1>4

LEMMA EditedText ==
    ASSUME text[target] \in Texts, edits + 1 \in 0..MaxEdits
    PROVE  /\ Edited \in Texts /\ Edited # Absent /\ Edited.edits = edits + 1
           /\ Edited.whole = text[target].whole /\ Edited.filled = text[target].filled
<1>1. PICK e \in 0..MaxEdits, n \in 0..NPdos, b \in BOOLEAN :
        text[target] = [edits |-> e, filled |-> n, whole |-> b]
  BY DEF Texts
<1>2. Edited = [edits |-> edits + 1, filled |-> n, whole |-> b]
  BY <1>1 DEF Edited
<1>3. Edited \in Texts
  BY <1>1, <1>2, TextFields
<1> QED
  BY <1>1, <1>2, <1>3, TextNotAbsent

\* Others replace the text or the file, and know nothing of the temporary one.
LEMMA EditInPlaceIInv == ASSUME IInv, EditInPlace PROVE IInv'
<1>1. edits < MaxEdits /\ edits' = edits + 1 /\ text' = [text EXCEPT ![target] = Edited]
      /\ UNCHANGED <<pc, expired, found, source, before, temp, memory, result, seen, target>>
  BY DEF EditInPlace
<1>2. /\ text \in [Inodes -> Texts \union {Absent}] /\ target \in Inodes
      /\ temp # target /\ edits' \in 0..MaxEdits
  BY <1>1, WritebackAssumption DEF IInv, TypeOK, FilesInv
<1>3. PICK old \in Texts : old = text[target]
  BY <1>2 DEF IInv, FilesInv
<1>4. PICK new : new = Edited
  OBVIOUS
<1>5. /\ new \in Texts /\ new # Absent /\ new.edits = edits'
      /\ new.whole = old.whole /\ new.filled = old.filled
  BY <1>1, <1>2, <1>3, <1>4, EditedText
<1>6. /\ text' \in [Inodes -> Texts \union {Absent}] /\ text'[target] = new
      /\ \A i \in Inodes : i # target => text'[i] = text[i]
  BY <1>1, <1>2, <1>4, <1>5
<1>7. TypeOK'
  BY <1>1, <1>2, <1>6 DEF IInv, TypeOK
<1>8. FilesInv'
  BY <1>1, <1>2, <1>5, <1>6 DEF IInv, FilesInv, TypeOK
<1>9. TempInv'
  BY <1>1, <1>2, <1>6 DEF IInv, TempInv, TypeOK, Writing, Output
<1>10. StageInv'
  <2>1. seen \in Nat /\ edits \in Nat
    BY DEF IInv, TypeOK
  <2> QED
    BY <1>1, <2>1 DEF IInv, StageInv
<1>11. PlaceInv'
  BY <1>1, <1>3, <1>5, <1>6 DEF IInv, PlaceInv
<1> QED
  BY <1>7, <1>8, <1>9, <1>10, <1>11 DEF IInv

LEMMA EditRenameIInv == ASSUME IInv, EditRename PROVE IInv'
<1>1. edits < MaxEdits /\ edits' = edits + 1
      /\ UNCHANGED <<pc, expired, found, source, before, temp, memory, result, seen>>
  BY DEF EditRename
<1>2. /\ text \in [Inodes -> Texts \union {Absent}] /\ target \in Inodes
      /\ temp # target /\ edits' \in 0..MaxEdits
  BY <1>1, WritebackAssumption DEF IInv, TypeOK, FilesInv
<1>3. PICK old \in Texts : old = text[target]
  BY <1>2 DEF IInv, FilesInv
<1>4. PICK new : new = Edited
  OBVIOUS
<1>5. /\ new \in Texts /\ new # Absent /\ new.edits = edits'
      /\ new.whole = old.whole /\ new.filled = old.filled
  BY <1>1, <1>2, <1>3, <1>4, EditedText
<1>6. PICK k \in Inodes : /\ text[k] = Absent /\ target' = k
                          /\ text' = [text EXCEPT ![k] = new, ![target] = Absent]
  BY <1>4 DEF EditRename
<1>7. k # target /\ k # temp
  BY <1>6 DEF IInv, FilesInv, TypeOK, Inodes, None
<1>8. /\ text' \in [Inodes -> Texts \union {Absent}]
      /\ \A i \in Inodes : text'[i] = IF i = k THEN new ELSE IF i = target THEN Absent ELSE text[i]
  BY <1>2, <1>5, <1>6, <1>7
<1>9. TypeOK'
  BY <1>1, <1>2, <1>6, <1>8 DEF IInv, TypeOK
<1>10. FilesInv'
  <2>1. temp' = temp /\ target' = k
    BY <1>1, <1>6
  <2>2. temp # None => temp \in Inodes /\ text'[temp] = text[temp]
    BY <1>2, <1>7, <1>8 DEF IInv, TypeOK
  <2> QED
    BY <1>5, <1>7, <1>8, <2>1, <2>2 DEF IInv, FilesInv
<1>11. TempInv'
  <2>1. temp # None => temp \in Inodes /\ text'[temp] = text[temp]
    BY <1>2, <1>7, <1>8 DEF IInv, TypeOK
  <2> QED
    BY <1>1, <2>1 DEF IInv, TempInv, Writing, Output
<1>12. StageInv'
  <2>1. seen \in Nat /\ edits \in Nat
    BY DEF IInv, TypeOK
  <2> QED
    BY <1>1, <2>1 DEF IInv, StageInv
<1>13. PlaceInv'
  <2>1. text'[target'] = new
    BY <1>6, <1>8
  <2> QED
    BY <1>1, <1>3, <1>5, <2>1 DEF IInv, PlaceInv
<1> QED
  BY <1>9, <1>10, <1>11, <1>12, <1>13 DEF IInv

LEMMA RestIInv == ASSUME IInv, Expire \/ Crash \/ UNCHANGED vars PROVE IInv'
<1> USE DEF IInv, FilesInv, TempInv, PlaceInv, StageInv, Writing, file
<1>1. CASE Expire
  BY <1>1 DEF Expire, TypeOK, Output
<1>2. CASE Crash
  BY <1>2 DEF Crash, TypeOK, Output
<1>3. CASE UNCHANGED vars
  BY <1>3 DEF vars, TypeOK, Output
<1> QED
  BY <1>1, <1>2, <1>3

LEMMA NextIInv == IInv /\ [Next]_vars => IInv'
<1> SUFFICES ASSUME IInv, [Next]_vars PROVE IInv'
  OBVIOUS
<1>1. CASE Writeback
  <2>1. CASE Refuse
    BY <2>1, FailIInv DEF Refuse
  <2> QED
    BY <1>1, <2>1, LooksIInv, CreateIInv, WriteIInv, RenameIInv DEF Writeback
<1> QED
  BY <1>1, DiscoveryIInv, EditInPlaceIInv, EditRenameIInv, RestIInv DEF Next

LEMMA Invariance == Spec => []IInv
  BY InitIInv, NextIInv, PTL DEF Spec

-----------------------------------------------------------------------------
(* The theorems.                                                           *)

\* The types of the writeback and of the files around it.
THEOREM TypeCorrect == Spec => []TypeOK
<1>1. IInv => TypeOK
  BY DEF IInv
<1> QED
  BY <1>1, Invariance, PTL

\* Wherever the process dies, the configuration can be loaded, with all that
\* was discovered or nothing of it.
THEOREM AlwaysLoadable == Spec => []FileWhole
<1>1. IInv => FileWhole
  BY DEF IInv, FilesInv, PlaceInv, FileWhole
<1> QED
  BY <1>1, Invariance, PTL

\* An error up to the rename leaves nothing behind, in the file, beside it or in
\* memory.
THEOREM NoTrace == Spec => []FailureIsClean
<1>1. IInv => FailureIsClean
  <2> SUFFICES ASSUME IInv PROVE FailureIsClean
    OBVIOUS
  <2>1. result = "Failed" => pc = "done" /\ temp = None
    BY DEF IInv, TypeOK, StageInv, TempInv, Writing
  <2>2. \A i \in Inodes : i # None
    BY DEF Inodes, None
  <2> QED
    BY <2>1, <2>2 DEF IInv, FilesInv, PlaceInv, FailureIsClean
<1> QED
  BY <1>1, Invariance, PTL

\* The last look at the file finds every edit that came before it.
THEOREM EarlierEditsSurvive == Spec => EarlyEditsKept
<1>1. IInv /\ pc = "rename" => text[target].edits = 0 \/ edits > seen
  <2> SUFFICES ASSUME IInv, pc = "rename" PROVE text[target].edits = 0 \/ edits > seen
    OBVIOUS
  <2>1. seen = 0 /\ text[target].edits = edits /\ edits \in Nat
    BY DEF IInv, StageInv, PlaceInv, TypeOK
  <2> QED
    BY <2>1
<1> QED
  BY <1>1, Invariance, PTL DEF EarlyEditsKept
==============================================================================
