---------------------------- MODULE MCPluginStart ----------------------------
(* Small instances of PluginStart for TLC.                                 *)
EXTENDS PluginStart, TLC

CONSTANTS n1, n2, s1, s2, s3
=============================================================================
