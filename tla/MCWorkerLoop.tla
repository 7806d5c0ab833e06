---------------------------- MODULE MCWorkerLoop ----------------------------
(* One yyds account and one of Aliyun's, as sequences.                      *)
EXTENDS WorkerLoop

CONSTANTS y1, b1
MCYyds == <<y1>>
MCAliyun == <<b1>>
=============================================================================
