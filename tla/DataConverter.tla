---------------------------- MODULE DataConverter ----------------------------
(***************************************************************************)
(* src/fix_dashboard_data.py: main (lines 193-213) runs                    *)
(* convert_data_format (11-109), which reads web_dashboard/data.json,      *)
(* writes its content to data.json.backup and replaces data.json by the    *)
(* dashboard format wrapping it, then create_sample_unsafe_data (112-191), *)
(* which writes sample_data.json.  Each open(..., "w") truncates before   *)
(* json.dump writes, so a crash between the two leaves an empty file.      *)
(* The operator may run the script again, and the external producer (a    *)
(* cargo example) may write data.json at any moment.                      *)
(*                                                                         *)
(* A JSON document is abstracted to the producer generation whose          *)
(* memory_hierarchy it carries, how many times the converter has wrapped   *)
(* it (each run nests the whole input under "original_data", line 92),     *)
(* and whether it is complete.                                            *)
(***************************************************************************)
EXTENDS Naturals

CONSTANTS
    MaxGen,    \* bound on the producer's rewrites of data.json
    MaxRuns,   \* bound on runs of the script
    Absent     \* a file that does not exist

\* A document: generation gen of the producer's data, wrapped depth times
\* by the converter, complete or cut short.
Doc == [gen: 1..MaxGen, depth: Nat, ok: BOOLEAN]

\* What open(..., "w") leaves before json.dump has written.
Truncated(d) == [d EXCEPT !.ok = FALSE]

\* dashboard_data (lines 50-93): the input wrapped once more.  Its
\* memory_stats counts allocations only when the input still has the
\* producer's memory_hierarchy at top level (lines 32-47), i.e. depth 0.
Wrap(d) == [gen |-> d.gen, depth |-> d.depth + 1, ok |-> TRUE]

ASSUME ConverterAssumption ==
    /\ MaxGen \in Nat \ {0}
    /\ MaxRuns \in Nat \ {0}
    /\ Absent \notin Doc

VARIABLES
    pc,       \* next statement of the script
    runs,     \* runs so far
    dataFile, \* web_dashboard/data.json
    backup,   \* web_dashboard/data.json.backup
    sample,   \* web_dashboard/sample_data.json: "absent" | "empty" | "written"
    loaded,   \* original_data, as json.load returned it (line 21)
    lastGen   \* the last generation the producer wrote

vars == <<pc, runs, dataFile, backup, sample, loaded, lastGen>>

Labels == {"exists", "load", "bakopen", "bakdump", "dataopen", "datadump",
           "sampleopen", "sampledump", "exited"}

TypeOK ==
    /\ pc \in Labels
    /\ runs \in 1..MaxRuns
    /\ dataFile \in Doc \cup {Absent} /\ backup \in Doc \cup {Absent}
    /\ sample \in {"absent", "empty", "written"}
    /\ loaded \in Doc \cup {Absent}
    /\ lastGen \in 1..MaxGen

\* The producer has written generation 1, or nothing yet; no earlier run.
Init ==
    /\ pc = "exists" /\ runs = 1
    /\ dataFile \in {Absent, [gen |-> 1, depth |-> 0, ok |-> TRUE]}
    /\ backup = Absent /\ sample = "absent" /\ loaded = Absent /\ lastGen = 1

\* The script dies here: an exception or the operator's Ctrl+C.
Stop == pc' = "exited"

\* Line 16: no data.json, convert returns False and main returns (205-207).
Exists ==
    /\ pc = "exists"
    /\ pc' = IF dataFile = Absent THEN "exited" ELSE "load"
    /\ UNCHANGED <<runs, dataFile, backup, sample, loaded, lastGen>>

\* Seeded fault for mutation checking: data.json rewritten with no backup.
Load_nobackup ==
    /\ pc = "load"
    /\ IF dataFile # Absent /\ dataFile.ok
       THEN loaded' = dataFile /\ pc' = "dataopen"
       ELSE Stop /\ UNCHANGED loaded
    /\ UNCHANGED <<runs, dataFile, backup, sample, lastGen>>

\* Lines 20-21: json.load fails on a cut-short or vanished file (uncaught).
Load ==
    /\ pc = "load"
    /\ IF dataFile # Absent /\ dataFile.ok
       THEN loaded' = dataFile /\ pc' = "bakopen"
       ELSE Stop /\ UNCHANGED loaded
    /\ UNCHANGED <<runs, dataFile, backup, sample, lastGen>>

\* Lines 96-98: the backup receives the document just read.
BakOpen ==
    /\ pc = "bakopen"
    /\ backup' = Truncated(loaded) /\ pc' = "bakdump"
    /\ UNCHANGED <<runs, dataFile, sample, loaded, lastGen>>

BakDump ==
    /\ pc = "bakdump"
    /\ backup' = loaded /\ pc' = "dataopen"
    /\ UNCHANGED <<runs, dataFile, sample, loaded, lastGen>>

\* Lines 102-103: data.json is overwritten in place by the wrapped input.
DataOpen ==
    /\ pc = "dataopen"
    /\ dataFile' = Truncated(Wrap(loaded)) /\ pc' = "datadump"
    /\ UNCHANGED <<runs, backup, sample, loaded, lastGen>>

DataDump ==
    /\ pc = "datadump"
    /\ dataFile' = Wrap(loaded) /\ pc' = "sampleopen"
    /\ UNCHANGED <<runs, backup, sample, loaded, lastGen>>

\* Lines 186-188: sample_data.json, written whatever it held before.
SampleOpen ==
    /\ pc = "sampleopen"
    /\ sample' = "empty" /\ pc' = "sampledump"
    /\ UNCHANGED <<runs, dataFile, backup, loaded, lastGen>>

SampleDump ==
    /\ pc = "sampledump"
    /\ sample' = "written" /\ pc' = "exited"
    /\ UNCHANGED <<runs, dataFile, backup, loaded, lastGen>>

\* An exception or Ctrl+C at any statement ends the run.
Crash ==
    /\ pc # "exited"
    /\ Stop
    /\ UNCHANGED <<runs, dataFile, backup, sample, loaded, lastGen>>

\* The operator runs the script again.
Rerun ==
    /\ pc = "exited" /\ runs < MaxRuns
    /\ pc' = "exists" /\ runs' = runs + 1 /\ loaded' = Absent
    /\ UNCHANGED <<dataFile, backup, sample, lastGen>>

\* The external producer writes a new generation of data.json.
Produce ==
    /\ lastGen < MaxGen
    /\ lastGen' = lastGen + 1
    /\ dataFile' = [gen |-> lastGen + 1, depth |-> 0, ok |-> TRUE]
    /\ UNCHANGED <<pc, runs, backup, sample, loaded>>

Step ==
    \/ Exists \/ Load \/ BakOpen \/ BakDump \/ DataOpen \/ DataDump
    \/ SampleOpen \/ SampleDump

Next == Step \/ Crash \/ Rerun \/ Produce

Spec == Init /\ [][Next]_vars

-----------------------------------------------------------------------------
Complete(f) == f # Absent /\ f.ok

\* CutShortCovered: whenever data.json is cut short -- the script died
\* between the open and the json.dump of lines 102-103 -- the backup of
\* lines 96-98 is complete and carries the same producer data.
CutShortCovered ==
    dataFile # Absent /\ ~dataFile.ok =>
        Complete(backup) /\ backup.gen = dataFile.gen

\* BackupHoldsOriginal (the comment of line 95, "back up the original
\* file"): data.json.backup holds the producer's document itself, not a
\* converted one.
BackupHoldsOriginal == Complete(backup) => backup.depth = 0
=============================================================================
