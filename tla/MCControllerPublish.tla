------------------------- MODULE MCControllerPublish -------------------------
(* Small instances of ControllerPublish for TLC.                           *)
EXTENDS ControllerPublish

CONSTANTS pfs, vfs, n1, c1, c2
=============================================================================
