-------------------------- MODULE VolumeInvariant --------------------------
(***************************************************************************)
(* The inductive invariant of VolumeController: why BoundIsComplete holds.  *)
(*                                                                         *)
(* A creation finds the pieces of the volume that are there and adds those *)
(* that are not, so at every step of it the pieces it has passed are there *)
(* (Progress) -- unless something deletes them meanwhile, which nothing    *)
(* does while the claim stands (PhaseInv).  The claim leaves "creating"    *)
(* only by the answer of a creation the provisioner still waits for        *)
(* (WaitInv), and a quota found set was set by such a creation (QuotaInv).  *)
(***************************************************************************)
EXTENDS VolumeController

\* The steps of the two handlers.
CreateSteps == InMap \cup {"InProcess", "Mark"}
DeleteSteps == DeleteJobs \cup {"Lookup"}

Active(c) == req[c] # NoReq
InFlight(c) == job[c] # NoJob

\* A handler's step fits its request, and the job it waits for is the one it
\* submitted; a slot without a handler keeps only a running orphan.
SlotInv ==
  \A c \in Calls :
    /\ pc[c] = "idle" <=> ~Active(c)
    /\ Active(c) => \/ req[c].op = "create" /\ pc[c] \in CreateSteps
                       /\ req[c].size \in Sizes[req[c].vol]
                    \/ req[c].op = "delete" /\ pc[c] \in DeleteSteps
    /\ Active(c) /\ InFlight(c) =>
         job[c].kind = pc[c] /\ job[c].vol = req[c].vol
    /\ ~Active(c) /\ InFlight(c) => job[c].st = "running"
    /\ pc[c] \in {"ListFilesetQuota", "SetFilesetQuota"} => req[c].size # 0
    /\ InFlight(c) /\ job[c].kind = "SetFilesetQuota" =>
         job[c].size \in Sizes[job[c].vol]

\* The call the provisioner waits for is live and fits the claim.
WaitInv ==
  \A v \in Volumes, c \in Calls :
    waiting[v] = c =>
      /\ Active(c)
      /\ req[c].vol = v
      /\ \/ req[c].op = "create" /\ claim[v] = "creating"
         \/ req[c].op = "delete" /\ claim[v] = "deleting"

\* Nothing deletes a volume before its claim is deleted.
PhaseInv ==
  \A c \in Calls :
    /\ Active(c) /\ req[c].op = "delete" => ~Kept(req[c].vol)
    /\ InFlight(c) /\ job[c].kind \in DeleteJobs => ~Kept(job[c].vol)

\* The only quotas ever set are those of the volume's own requests.
QuotaInv == \A v \in Volumes : quota[v] = 0 \/ QuotaSet(v)

\* The steps at which a creation may still have to link the fileset, set the
\* quota, make the directory.
BeforeLink == {"idle", "InProcess", "Mark", "ListFileset", "CreateFileset",
               "RelistFileset", "LinkFileset"}
BeforeQuota == BeforeLink \cup
               {"ListLinked", "ListFilesetQuota", "SetFilesetQuota"}
BeforeDir == BeforeQuota \cup {"CheckDir", "MakeDirectory"}

\* What a creation has behind it is there, unless the claim is being deleted.
Progress(c) ==
  Active(c) /\ Kept(req[c].vol) =>
    LET v == req[c].vol
        done == InFlight(c) /\ JobSucceeded(c)
    IN
    /\ pc[c] \notin BeforeLink \/ (done /\ pc[c] = "LinkFileset") => HasLink(v)
    /\ pc[c] \notin BeforeQuota \/ (done /\ pc[c] = "SetFilesetQuota")
         => HasQuota(v)
    /\ pc[c] \notin BeforeDir \/ (done /\ pc[c] = "MakeDirectory") => dir[v]
    /\ done /\ pc[c] = "CreateSymLink" => slink[v]

ProgressInv == \A c \in Calls : Progress(c)

\* Each part is preserved by every step that starts where all of them hold.
IndInv ==
  /\ TypeOK
  /\ SlotInv
  /\ WaitInv
  /\ PhaseInv
  /\ QuotaInv
  /\ ProgressInv
  /\ BoundIsComplete

----------------------------------------------------------------------------
(* Why GoneIsClean holds when no creation outlives its claim: a deletion    *)
(* removes the fileset or the directory before the symlink, and each of    *)
(* them is there to be found as long as something below it is.             *)

\* All of a volume but its symlink is gone.
Removed(v) == fset[v] = "absent" /\ ~dir[v]

\* Only the volumes whose class asks for it have a fileset, and what a
\* deletion finds a volume by is there as long as its directory is.
PlacedInv ==
  \A v \in Volumes :
    /\ v \notin FilesetVols => fset[v] = "absent"
    /\ v \in FilesetVols /\ dir[v] => fset[v] = "linked"
    /\ v \notin FilesetVols /\ dir[v] /\ ~Kept(v) => slink[v]

\* A handler or a job does not mistake the kind of its volume.
FilesetSteps == {"ListFileset", "CreateFileset", "DeleteFileset"}

Suits(step, v) ==
  /\ step \in FilesetSteps => v \in FilesetVols
  /\ step = "DeleteDirectory" => v \notin FilesetVols

KindInv ==
  \A c \in Calls : /\ Active(c) => Suits(pc[c], req[c].vol)
                   /\ InFlight(c) => Suits(job[c].kind, job[c].vol)

\* No creation, nor a job of one, is left once the claim is deleted.
ReleasedInv == \A v \in Volumes : ~Kept(v) => ~Creating(v)

\* The symlink goes last, and what a job reports as deleted is.
Cleared(c) ==
  /\ pc[c] = "DeleteSymLnk" => Removed(req[c].vol)
  /\ InFlight(c) =>
       LET v == job[c].vol IN
       /\ job[c].kind = "DeleteSymLnk" => Removed(v)
       /\ job[c].kind \in DeleteJobs /\ JobSucceeded(c) =>
            Removed(v) /\ (job[c].kind = "DeleteSymLnk" => ~slink[v])

ClearedInv == \A c \in Calls : Cleared(c)

\* Inductive together with IndInv, if claims are not deleted while a creation
\* is under way (LateCreates).
DeletionInv ==
  /\ PlacedInv
  /\ KindInv
  /\ ReleasedInv
  /\ ClearedInv
  /\ GoneIsClean

----------------------------------------------------------------------------
(* A size that is not a multiple of KB: once its quota is set, only the     *)
(* creation that set it can still succeed.                                 *)

\* The steps of a creation that has yet to compare the quota.
BeforeCompare == BeforeQuota \ {"SetFilesetQuota"}

\* A quota is set, and every creation under way has yet to compare it.
Stuck(v) ==
  /\ claim[v] = "creating"
  /\ quota[v] # 0
  /\ \A c \in Calls :
       Active(c) /\ req[c].vol = v => pc[c] \in BeforeCompare
=============================================================================
