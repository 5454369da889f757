--------------------------- MODULE ConfigWriteback ---------------------------
(***************************************************************************)
(* discoverEmptyPdoEntries and saveDiscoveredPdoConfig: the entries of     *)
(* PDOs the YAML left empty are read from the slaves and written back to   *)
(* it, by way of a temporary file that is renamed over it, while the file  *)
(* can be edited by others and this process can die.                       *)
(*                                                                         *)
(* A file is what it holds: the edits others made, the PDOs that are       *)
(* filled in, and whether it is complete.  An edit is one step; editors    *)
(* that save in place and editors that rename a new file are both there.   *)
(***************************************************************************)
EXTENDS Integers, FiniteSets

CONSTANTS
    NPdos,      \* PDOs the configuration leaves empty
    MaxEdits    \* bound: edits by others

ASSUME WritebackAssumption == NPdos \in Nat /\ MaxEdits \in Nat

\* The file at the path, the temporary one, and one an editor renames; numbers
\* of files that are gone are used again.
Inodes == 0..2
None == -1
Texts == [edits : 0..MaxEdits, filled : 0..NPdos, whole : BOOLEAN]
Absent == [edits |-> -1, filled |-> 0, whole |-> FALSE]

VARIABLES
    pc,
    expired,     \* the PREOP budget is used up
    found,       \* PDOs read from the slaves so far (resolved)
    target,      \* the file at the path
    text,        \* what the files hold
    source,      \* source_yaml, the text that was parsed
    before,      \* the file stat() found first
    temp,        \* the temporary file, or None
    memory,      \* PDOs filled in the configuration in memory
    result,
    edits,       \* history: edits made
    seen         \* history: edits made when the last look at the file began

file == <<target, text, edits>>
vars == <<pc, expired, found, source, before, temp, memory, result, seen, file>>

Loaded == [edits |-> 0, filled |-> 0, whole |-> TRUE]

Init ==
    /\ pc = "discover" /\ expired \in BOOLEAN /\ found = 0
    /\ target = 0 /\ text = [i \in Inodes |-> IF i = 0 THEN Loaded ELSE Absent]
    /\ source = Loaded /\ before = None /\ temp = None
    /\ memory = 0 /\ result = "Pending"
    /\ edits = 0 /\ seen = 0

-----------------------------------------------------------------------------
(* Discovery.                                                              *)

\* ~TemporaryFile: what was not renamed is unlinked.
Discard ==
    /\ text' = IF temp = None THEN text ELSE [text EXCEPT ![temp] = Absent]
    /\ temp' = None

\* An exception ends it, wherever it is thrown.
Fail ==
    /\ result' = "Failed" /\ pc' = "done"
    /\ Discard
    /\ UNCHANGED <<expired, found, source, before, memory, seen, target, edits>>

\* The count, the entries and the count again of one PDO: all uploaded between
\* guards for PREOP and the budget, or the startup fails.
ReadPdo ==
    /\ pc = "discover" /\ found < NPdos /\ ~expired
    /\ found' = found + 1
    /\ UNCHANGED <<pc, expired, source, before, temp, memory, result, seen, file>>

ReadFails == pc = "discover" /\ found < NPdos /\ Fail

\* Mutant of AllFound: what was read so far is saved at once.
AllFoundEach == found > 0

AllFound == found = NPdos

\* Nothing was empty, or everything is known: on to the file, in budget.
Discovered ==
    /\ pc = "discover" /\ AllFound
    /\ \/ /\ NPdos = 0
          /\ result' = "Ok" /\ pc' = "done"
          /\ UNCHANGED <<text, temp>>
       \/ /\ NPdos > 0 /\ ~expired
          /\ pc' = "compare"
          /\ UNCHANGED <<result, text, temp>>
       \/ /\ NPdos > 0 /\ expired
          /\ result' = "Failed" /\ pc' = "done" /\ Discard
    /\ UNCHANGED <<expired, found, source, before, memory, seen, target, edits>>

-----------------------------------------------------------------------------
(* Writeback.                                                              *)

Step(from, to) == pc = from /\ pc' = to

\* The text on disk is still the one that was parsed.
Compare ==
    /\ Step("compare", "stat")
    /\ text[target] = source
    /\ UNCHANGED <<expired, found, source, before, temp, memory, result, seen, file>>

Stat ==
    /\ Step("stat", "create")
    /\ before' = target
    /\ UNCHANGED <<expired, found, source, temp, memory, result, seen, file>>

\* Mutant of Where: the file itself is opened for writing.
WhereTarget == target

\* mkstemp beside the target.
Where == CHOOSE i \in Inodes : text[i] = Absent

Create ==
    /\ Step("create", "write")
    /\ temp' = Where
    /\ text' = [text EXCEPT ![Where] = [source EXCEPT !.whole = FALSE]]
    /\ UNCHANGED <<expired, found, source, before, memory, result, seen, target, edits>>

Output == [source EXCEPT !.filled = found]

\* write, fsync and the validation by loadPdoConfig.
Write ==
    /\ Step("write", "restat")
    /\ text' = [text EXCEPT ![temp] = Output]
    /\ UNCHANGED <<expired, found, source, before, temp, memory, result, seen,
                   target, edits>>

\* stat() again: still the same file?
Restat ==
    /\ Step("restat", "reread")
    /\ target = before
    /\ seen' = edits
    /\ UNCHANGED <<expired, found, source, before, temp, memory, result, file>>

\* Mutant of Unchanged: the file is only looked at before the writeback.
UnchangedTrusted == TRUE

Unchanged == text[target] = source

\* And the same text?
Reread ==
    /\ Step("reread", "rename")
    /\ Unchanged
    /\ UNCHANGED <<expired, found, source, before, temp, memory, result, seen, file>>

\* The new text replaces the old in one step; only now does the configuration
\* in memory follow.
Rename ==
    /\ Step("rename", "done")
    /\ target' = temp
    /\ text' = [text EXCEPT ![target] = Absent]
    /\ temp' = None
    /\ source' = Output /\ memory' = found /\ result' = "Ok"
    /\ UNCHANGED <<expired, found, before, seen, edits>>

\* Mutant of Refuse: an error leaves the temporary file behind.
RefuseLitters ==
    /\ pc \in {"compare", "stat", "create", "write", "restat", "reread", "rename"}
    /\ result' = "Failed" /\ pc' = "done"
    /\ UNCHANGED <<expired, found, source, before, temp, memory, seen, file>>

\* Mutant of Refuse: the writeback is tried again until it works.
RefuseRetries ==
    /\ pc \in {"compare", "stat", "create", "write", "restat", "reread", "rename"}
    /\ pc' = "compare"
    /\ Discard
    /\ UNCHANGED <<expired, found, source, before, memory, result, seen, target, edits>>

\* A system call fails, the result does not validate, or the file has changed.
Refuse ==
    /\ pc \in {"compare", "stat", "create", "write", "restat", "reread", "rename"}
    /\ Fail

-----------------------------------------------------------------------------
(* Clock, other writers, and death.                                        *)

Expire ==
    /\ pc = "discover" /\ ~expired /\ expired' = TRUE
    /\ UNCHANGED <<pc, found, source, before, temp, memory, result, seen, file>>

Edited == [text[target] EXCEPT !.edits = edits + 1]

EditInPlace ==
    /\ edits < MaxEdits /\ edits' = edits + 1
    /\ text' = [text EXCEPT ![target] = Edited]
    /\ UNCHANGED <<pc, expired, found, source, before, temp, memory, result, seen, target>>

EditRename ==
    /\ edits < MaxEdits /\ edits' = edits + 1
    /\ \E i \in Inodes :
         /\ text[i] = Absent
         /\ text' = [text EXCEPT ![i] = Edited, ![target] = Absent]
         /\ target' = i
    /\ UNCHANGED <<pc, expired, found, source, before, temp, memory, result, seen>>

\* The process is killed: nothing is cleaned up.
Crash ==
    /\ pc \notin {"done", "dead"} /\ pc' = "dead"
    /\ UNCHANGED <<expired, found, source, before, temp, memory, result, seen, file>>

Discovery == ReadPdo \/ ReadFails \/ Discovered
Writeback == Compare \/ Stat \/ Create \/ Write \/ Restat \/ Reread \/ Rename \/ Refuse

Next == Discovery \/ Writeback \/ Expire \/ EditInPlace \/ EditRename \/ Crash

Spec == Init /\ [][Next]_vars /\ WF_vars(Discovery \/ Writeback)

-----------------------------------------------------------------------------
(* Properties.                                                             *)

TypeOK ==
    /\ pc \in {"discover", "compare", "stat", "create", "write", "restat", "reread",
               "rename", "done", "dead"}
    /\ expired \in BOOLEAN /\ found \in 0..NPdos /\ memory \in 0..NPdos
    /\ text \in [Inodes -> Texts \union {Absent}] /\ source \in Texts
    /\ target \in Inodes
    /\ before \in Inodes \union {None} /\ temp \in Inodes \union {None}
    /\ result \in {"Pending", "Ok", "Failed"}
    /\ edits \in 0..MaxEdits /\ seen \in 0..MaxEdits

\* Whoever opens the configuration, also after a crash, finds a complete one,
\* with all discovered PDOs or with none.
FileWhole ==
    /\ text[target] # Absent
    /\ text[target].whole /\ text[target].filled \in {0, NPdos}

\* Discovery or writeback that fails leaves the file to others: no discovered
\* entry in it, no temporary file beside it; memory holds what the file was
\* given, no more.  What fails after the rename is another matter.
FailureIsClean ==
    /\ result = "Failed" =>
         /\ text[target].filled = 0
         /\ \A i \in Inodes : i # target => text[i] = Absent
    /\ memory = (IF result = "Ok" THEN NPdos ELSE 0)

\* An edit that was there when the last look at the file began is not lost.
EarlyEditsKept ==
    [][pc = "rename" /\ result' = "Ok" => text[target].edits = 0 \/ edits > seen]_vars

\* As pdo_config.hpp has it: the file is replaced if the snapshot still matches.
ReplacesSnapshot ==
    [][pc = "rename" /\ result' = "Ok" => text[target] = source]_vars

\* The writeback comes to an end.
WritebackEnds == <>(pc \in {"done", "dead"})
=============================================================================
