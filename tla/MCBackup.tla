------------------------------ MODULE MCBackup ------------------------------
EXTENDS Backup, TLC

CONSTANTS r1, r2, o1, o2

\* One operation of each run.
OpOfEachRun == (o1 :> r1) @@ (o2 :> r2)
=============================================================================
