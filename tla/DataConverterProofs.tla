------------------------- MODULE DataConverterProofs -------------------------
(***************************************************************************)
(* Proofs about DataConverter: the type invariant, and that a cut-short   *)
(* data.json always has a complete backup of the same data.               *)
(***************************************************************************)
EXTENDS DataConverter, TLAPS

\* The statements after json.load (line 21) work on a complete document.
AfterLoad == {"bakopen", "bakdump", "dataopen", "datadump", "sampleopen", "sampledump"}

LoadedOk == pc \in AfterLoad => loaded \in Doc /\ loaded.ok

\* While the backup is written, data.json is still complete: the run got
\* here by loading it, and only the producer, which writes whole files,
\* touches it meanwhile.
BackupPhase == pc \in {"bakopen", "bakdump"} => Complete(dataFile)

\* While data.json is rewritten, the backup holds what was loaded.
DataPhase == pc \in {"dataopen", "datadump"} => backup = loaded

IInv == TypeOK /\ CutShortCovered /\ LoadedOk /\ BackupPhase /\ DataPhase

USE ConverterAssumption

\* Truncating a document keeps its shape and its data.
LEMMA TruncatedDoc ==
    ASSUME NEW d \in Doc
    PROVE  Truncated(d) \in Doc /\ Truncated(d).gen = d.gen /\ ~Truncated(d).ok
BY DEF Truncated, Doc

LEMMA IInvInit == Init => IInv
<1> SUFFICES ASSUME Init PROVE IInv
    OBVIOUS
<1>1. dataFile \in Doc \cup {Absent}
      <2>1. [gen |-> 1, depth |-> 0, ok |-> TRUE] \in Doc
            BY DEF Doc
      <2>2. QED BY <2>1 DEF Init
<1>2. TypeOK
      BY <1>1 DEF Init, TypeOK, Labels, Doc
<1>3. CutShortCovered
      BY DEF Init, CutShortCovered
<1>4. QED
      BY <1>2, <1>3 DEF Init, IInv, LoadedOk, BackupPhase, DataPhase, AfterLoad

LEMMA IInvStep == IInv /\ [Next]_vars => IInv'
<1> SUFFICES ASSUME IInv, [Next]_vars PROVE IInv'
    OBVIOUS
<1> USE DEF IInv, TypeOK, Labels, CutShortCovered, LoadedOk, BackupPhase,
            DataPhase, AfterLoad, Complete
<1>1. CASE Exists
      BY <1>1 DEF Exists
<1>2. CASE Load
      BY <1>2 DEF Load, Stop
<1>3. CASE BakOpen
      <2>1. loaded \in Doc /\ Truncated(loaded) \in Doc
            BY <1>3, TruncatedDoc DEF BakOpen
      <2>2. Complete(dataFile) /\ UNCHANGED <<dataFile, loaded>>
            BY <1>3 DEF BakOpen
      <2>3. QED BY <1>3, <2>1, <2>2 DEF BakOpen
<1>4. CASE BakDump
      BY <1>4 DEF BakDump
<1>5. CASE DataOpen
      <2>1. loaded \in Doc /\ loaded.ok /\ backup = loaded
            BY <1>5 DEF DataOpen
      <2>2. Truncated(Wrap(loaded)) \in Doc /\ Truncated(Wrap(loaded)).gen = loaded.gen
            <3>1. Wrap(loaded) \in Doc /\ Wrap(loaded).gen = loaded.gen
                  BY <2>1 DEF Wrap, Doc
            <3>2. QED BY <3>1, TruncatedDoc
      <2>3. backup # Absent
            BY <2>1 DEF Doc
      <2>4. QED BY <1>5, <2>1, <2>2, <2>3 DEF DataOpen
<1>6. CASE DataDump
      BY <1>6 DEF DataDump, Wrap, Doc
<1>7. CASE SampleOpen
      BY <1>7 DEF SampleOpen
<1>8. CASE SampleDump
      BY <1>8 DEF SampleDump
<1>9. CASE Crash
      <2>1. pc' = "exited" /\ UNCHANGED <<runs, dataFile, backup, sample, loaded, lastGen>>
            BY <1>9 DEF Crash, Stop
      <2>2. QED BY <2>1
<1>10. CASE Rerun
      BY <1>10 DEF Rerun
<1>11. CASE Produce
      <2> DEFINE d == [gen |-> lastGen + 1, depth |-> 0, ok |-> TRUE]
      <2>1. d \in Doc /\ lastGen + 1 \in 1..MaxGen
            BY <1>11 DEF Produce, Doc
      <2>2. d # Absent /\ d.ok
            BY <2>1 DEF Doc
      <2>3. dataFile' = d /\ lastGen' = lastGen + 1
            /\ UNCHANGED <<pc, runs, backup, sample, loaded>>
            BY <1>11 DEF Produce
      <2>4. QED BY <2>1, <2>2, <2>3
<1>12. CASE UNCHANGED vars
      BY <1>12 DEF vars
<1>13. QED
      BY <1>1, <1>2, <1>3, <1>4, <1>5, <1>6, <1>7, <1>8, <1>9, <1>10, <1>11, <1>12
      DEF Next, Step

\* CutShortCovered (fix_dashboard_data.py lines 96-103): for every bound on
\* runs and producer rewrites, a data.json cut short by a crash between the
\* open and the dump has a complete backup of the same data beside it.
THEOREM CutShortAlwaysCovered == Spec => []CutShortCovered
<1>1. Spec => []IInv
      BY IInvInit, IInvStep, PTL DEF Spec
<1>2. IInv => CutShortCovered
      BY DEF IInv
<1>3. QED BY <1>1, <1>2, PTL

\* TypeOK of the converter model holds for every bound.
THEOREM ConverterTypeCorrect == Spec => []TypeOK
<1>1. Spec => []IInv
      BY IInvInit, IInvStep, PTL DEF Spec
<1>2. QED BY <1>1, PTL DEF IInv
=============================================================================
