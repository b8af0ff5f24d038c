---------------------------- MODULE MCNodePublish ----------------------------
(* Small instances of NodePublish for TLC.                                 *)
EXTENDS NodePublish, TLC

CONSTANTS t1, t2, c1, c2, c3
=============================================================================
