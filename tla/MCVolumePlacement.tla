-------------------------- MODULE MCVolumePlacement --------------------------
(* A small instance of VolumePlacement for TLC.                            *)
EXTENDS VolumePlacement, TLC

CONSTANTS v1, v2

\* The primary cluster P owns "fs1"; it mounts as "rfs" a filesystem of R
\* that R calls "fs1" as well.
TwoClusters == "P" :> {"fs1"} @@ "R" :> {"fs1"}
NamesAtP    == "fs1" :> <<"P", "fs1">> @@ "rfs" :> <<"R", "fs1">>
Blocks512   == <<"P", "fs1">> :> 512 @@ <<"R", "fs1">> :> 512

Option(fs, type, dir, cluster, uid, gid, inodes, parent) ==
  [fs |-> fs, type |-> type, dir |-> dir, cluster |-> cluster, uid |-> uid,
   gid |-> gid, inodes |-> inodes, parent |-> parent]

Defaults == Option("fs1", "", "", "", "", "", 0, "")

Everything == {
  Defaults,
  Option("rfs", "dependent", "", "R", "", "g", 0, "par"),
  Option("rfs", "", "", "", "", "", 0, ""),                 \* no owner given
  Option("rfs", "", "base", "", "", "g", 0, "")}            \* lightweight

Limited == Option("fs1", "independent", "", "", "u", "", 5, "")

\* v2 is there to be given the fileset id of v1 again.
Offered == v1 :> Everything @@ v2 :> {Limited}

\* Two KiB, or no size.
Sizes2 == v1 :> 2048 @@ v2 :> 0
=============================================================================
