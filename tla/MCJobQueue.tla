----------------------------- MODULE MCJobQueue -----------------------------
(* Small instances of JobQueue for TLC.                                    *)
EXTENDS JobQueue, TLC

CONSTANTS j1, j2, w1, w2, w3

OneJob == {j1}
TwoJobs == {j1, j2}
TwoWorkers == {w1, w2}
ThreeWorkers == {w1, w2, w3}

HandleAll == [w \in Workers |-> Jobs]

(* The second worker asks for one type of job only.                        *)
HandleOne == [w \in Workers |-> IF w = w2 THEN {j2} ELSE Jobs]

WorkerSymmetry == Permutations(Workers)
=============================================================================
