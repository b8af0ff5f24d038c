------------------------- MODULE MCVolumeController -------------------------
(* Small instances of VolumeController for TLC.                            *)
EXTENDS VolumeInvariant, TLC

CONSTANTS v1, v2, c1, c2, c3, d1, d2

\* Quotas are listed in units of 2 bytes: 4 is a multiple, 3 is not.
Aligned   == v1 :> {4}
Unaligned == v1 :> {3}
\* Two requests for v1 may disagree on its size; v2 has its own.
Pair      == v1 :> {2, 4} @@ v2 :> {2}

\* One size each.
OnePerVolume == v1 :> {4} @@ v2 :> {2}

InterchangeableProcesses == Permutations(Calls) \cup Permutations(Drivers)
=============================================================================
