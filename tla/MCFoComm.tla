------------------------------ MODULE MCFoComm ------------------------------
(* Instances of FoComm for TLC.                                            *)
EXTENDS FoComm, TLC

CONSTANTS t1, t2, f1, f2

\* Each task opens a file of its own.
OwnFiles == [f \in File |-> IF f = f1 THEN t1 ELSE t2]
OwnSharers == [f \in File |-> {OwnFiles[f]}]

\* t1 opens every file; alone, or sharing them with t2 (fork, threads).
FirstOpens == [f \in File |-> t1]
FirstAlone == [f \in File |-> {t1}]
BothShare == [f \in File |-> {t1, t2}]

\* Workers and fo_req objects are interchangeable.
WorkerReqSymmetry == Permutations(Worker) \cup Permutations(Req)
=============================================================================
