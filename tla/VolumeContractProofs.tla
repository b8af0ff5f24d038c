------------------------ MODULE VolumeContractProofs ------------------------
(* VolumeController implements VolumeContract, for every value of its      *)
(* constants, if no creation is under way when a claim is deleted.         *)
EXTENDS VolumeControllerProofs

----------------------------------------------------------------------------
(* From the deletion of its claim on, a volume only shrinks.               *)

\* No creation's job runs on a volume that is not kept.
LEMMA CreatesKept ==
  ASSUME TypeOK, ReleasedInv, NEW c \in Calls, NEW kind \in CreateJobs,
         Runs(c, kind)
  PROVE  Kept(job[c].vol)
  BY JobsTyped DEF ReleasedInv, Creating, Runs, Jobs

\* What a step may do to the pieces of a volume that is not kept.
Shrinks ==
  \A v \in Volumes :
    ~Kept(v) => /\ \/ fset'[v] = fset[v] /\ quota'[v] = quota[v]
                   \/ fset'[v] = "absent"
                /\ dir'[v] => dir[v]
                /\ slink'[v] => slink[v]

\* Every step is one that a volume being deleted may take.
LEMMA ShrinksStep ==
  ASSUME TypeOK, ReleasedInv, [Next]_vars
  PROVE  Shrinks
<1> USE DEF TypeOK, Shrinks
<1>1. CASE UNCHANGED storageVars
  BY <1>1 DEF storageVars
<1>2. ASSUME NEW c \in Calls, Server(c) PROVE Shrinks
  <2>1. CASE RunCreateFileset(c)
    BY <2>1, CreatesKept DEF RunCreateFileset, CreateJobs
  <2>2. CASE RunLinkFileset(c)
    BY <2>2, CreatesKept DEF RunLinkFileset, CreateJobs
  <2>3. CASE RunSetFilesetQuota(c)
    BY <2>3, CreatesKept DEF RunSetFilesetQuota, CreateJobs
  <2>4. CASE RunMakeDirectory(c)
    BY <2>4, CreatesKept DEF RunMakeDirectory, CreateJobs
  <2>5. CASE RunCreateSymLink(c)
    BY <2>5, CreatesKept DEF RunCreateSymLink, CreateJobs
  <2>6. CASE RunDeleteFileset(c)
    BY <2>6 DEF RunDeleteFileset
  <2>7. CASE RunDeleteDirectory(c)
    BY <2>7 DEF RunDeleteDirectory
  <2>8. CASE RunDeleteSymLnk(c)
    BY <2>8 DEF RunDeleteSymLnk
  <2> QED
    BY <1>2, <2>1, <2>2, <2>3, <2>4, <2>5, <2>6, <2>7, <2>8 DEF Server
<1> QED
  BY <1>1, <1>2, StorageChange

\* Only its owner releases a volume.
LEMMA OnlyRelease ==
  ASSUME TypeOK, SlotInv, WaitInv, [Next]_vars, NEW v \in Volumes,
         Kept(v), ~Kept(v)'
  PROVE  Release(v)
<1>1. ASSUME NEW u \in Volumes, Release(u) PROVE u = v
  BY <1>1 DEF Release, Kept, TypeOK
<1>2. ASSUME NEW c \in Calls, NEW code, pc[c] # "idle", Return(c, code)
      PROVE  FALSE
  BY <1>2, Served, ReturnClaim DEF Kept
<1> QED
  BY <1>1, <1>2, ClaimChange DEF Kept

\* No step starts, or leaves behind, a creation of a volume that is not kept.
LEMMA ReleasedStep ==
  ASSUME ~LateCreates, TypeOK, TypeOK', SlotInv, WaitInv, ReleasedInv,
         [Next]_vars
  PROVE  ReleasedInv'
<1> SUFFICES ASSUME NEW v \in Volumes, ~Kept(v)', Creating(v)' PROVE FALSE
  BY DEF ReleasedInv
<1>1. CASE Kept(v)
  BY <1>1, OnlyRelease DEF Release, Creating, handlerVars
<1>2. CASE ~Kept(v)
  <2>1. ~Creating(v)
    BY <1>2 DEF ReleasedInv
  <2>2. PICK c \in Calls :
          \/ req'[c] # NoReq /\ req'[c].op = "create" /\ req'[c].vol = v
          \/ job'[c] # NoJob /\ job'[c].kind \in CreateJobs /\ job'[c].vol = v
    BY DEF Creating
  <2>3. SlotMoves(c) /\ JobMoves(c)
    BY SlotChange
  <2>4. CASE req'[c] # NoReq /\ req'[c].op = "create" /\ req'[c].vol = v
    BY <1>2, <2>1, <2>3, <2>4
    DEF SlotMoves, Stays, Leaves, Starts, Goes, Creating, Kept
  <2>5. CASE job'[c] # NoJob /\ job'[c].kind \in CreateJobs /\ job'[c].vol = v
    <3>1. pc[c] \in CreateJobs /\ Active(c) => req[c].op = "create"
      BY DEF SlotInv, CreateJobs, DeleteSteps, DeleteJobs
    <3> QED
      BY <2>1, <2>3, <2>5, <3>1 DEF JobMoves, Creating, Active, InFlight
  <2> QED
    BY <2>2, <2>4, <2>5
<1> QED
  BY <1>1, <1>2

\* Handlers and jobs keep suiting their volumes.
LEMMA KindStep ==
  ASSUME TypeOK, SlotInv, KindInv, [Next]_vars
  PROVE  KindInv'
<1> SUFFICES ASSUME NEW c \in Calls
             PROVE  /\ Active(c)' => Suits(pc'[c], req'[c].vol)
                    /\ InFlight(c)' => Suits(job'[c].kind, job'[c].vol)
  BY DEF KindInv, Suits
<1>1. SlotMoves(c) /\ JobMoves(c)
  BY SlotChange
<1>2. Active(c)' => Suits(pc'[c], req'[c].vol)
  BY <1>1
  DEF SlotMoves, Stays, Leaves, Starts, Goes, Active, KindInv, Suits, FilesetSteps
<1>3. InFlight(c)' => Suits(job'[c].kind, job'[c].vol)
  BY <1>1 DEF JobMoves, InFlight, KindInv, Suits
<1> QED
  BY <1>2, <1>3

\* The pieces of a volume keep their places.
LEMMA PlacedStep ==
  ASSUME TypeOK, SlotInv, WaitInv, KindInv, BoundIsComplete, ClearedInv,
         ReleasedInv, PlacedInv, [Next]_vars
  PROVE  PlacedInv'
<1>1. ASSUME NEW v \in Volumes
      PROVE  /\ Kept(v) /\ ~Kept(v)' => slink[v]
             /\ Kept(v)' => Kept(v)
  BY OnlyRelease, KeptShrinks DEF Release, BoundIsComplete, Complete
<1> USE DEF TypeOK, PlacedInv
<1>2. CASE UNCHANGED storageVars
  BY <1>1, <1>2 DEF storageVars
<1>3. ASSUME NEW c \in Calls, Server(c) PROVE PlacedInv'
  <2>1. /\ UNCHANGED claim
        /\ InFlight(c) /\ job[c].vol \in Volumes
        /\ Suits(job[c].kind, job[c].vol)
    BY <1>3, JobsTyped
    DEF Server, RunCreateFileset, RunLinkFileset, RunSetFilesetQuota,
        RunMakeDirectory, RunCreateSymLink, RunDeleteFileset,
        RunDeleteDirectory, RunDeleteSymLnk, Runs, clientVars, InFlight, Jobs,
        KindInv
  <2> USE <2>1 DEF Kept
  <2>2. CASE RunCreateFileset(c)
    BY <2>2 DEF RunCreateFileset, Runs, Suits, FilesetSteps
  <2>3. CASE RunLinkFileset(c)
    BY <2>3 DEF RunLinkFileset
  <2>4. CASE RunSetFilesetQuota(c)
    BY <2>4 DEF RunSetFilesetQuota
  <2>5. CASE RunMakeDirectory(c)
    <3>1. Kept(job[c].vol)
      BY <2>5, CreatesKept DEF RunMakeDirectory, CreateJobs
    <3> QED
      BY <2>5, <3>1 DEF RunMakeDirectory
  <2>6. CASE RunCreateSymLink(c)
    BY <2>6 DEF RunCreateSymLink
  <2>7. CASE RunDeleteFileset(c)
    BY <2>7 DEF RunDeleteFileset
  <2>8. CASE RunDeleteDirectory(c)
    BY <2>8 DEF RunDeleteDirectory
  <2>9. CASE RunDeleteSymLnk(c)
    <3>1. Removed(job[c].vol)
      BY <2>9 DEF RunDeleteSymLnk, Runs, ClearedInv, Cleared
    <3> QED
      BY <2>9, <3>1 DEF RunDeleteSymLnk, Removed
  <2> QED
    BY <1>3, <2>2, <2>3, <2>4, <2>5, <2>6, <2>7, <2>8, <2>9 DEF Server
<1> QED
  BY <1>2, <1>3, StorageChange

\* A job that reports a deletion has deleted.
LEMMA ServerClears ==
  ASSUME TypeOK, PhaseInv, KindInv, PlacedInv, ClearedInv,
         NEW c \in Calls, Server(c), job[c].kind \in DeleteJobs,
         InFlight(c)', JobSucceeded(c)', NEW v, v = job[c].vol
  PROVE  Removed(v)' /\ (job[c].kind = "DeleteSymLnk" => ~slink'[v])
<1>1. /\ InFlight(c) /\ v \in Volumes /\ ~Kept(v)
      /\ Suits(job[c].kind, v)
      /\ job[c].kind = "DeleteSymLnk" => Removed(v)
  <2>1. job[c] # NoJob
    BY DEF Server, RunCreateFileset, RunLinkFileset, RunSetFilesetQuota,
        RunMakeDirectory, RunCreateSymLink, RunDeleteFileset,
        RunDeleteDirectory, RunDeleteSymLnk, Runs
  <2> QED
    BY <2>1, JobsTyped DEF InFlight, Jobs, PhaseInv, KindInv, ClearedInv, Cleared
<1> USE DEF TypeOK
<1>2. ASSUME NEW st \in {"completed", "already", "failed"}, Ends(c, st)
      PROVE  /\ st # "failed"
             /\ st = "already" => job[c].kind = "DeleteSymLnk"
  BY <1>1, <1>2, JobsTyped
  DEF Ends, InFlight, JobSucceeded, Tolerated, DeleteJobs, Jobs
<1>3. CASE RunDeleteFileset(c)
  BY <1>1, <1>2, <1>3 DEF RunDeleteFileset, Runs, Removed
<1>4. CASE RunDeleteDirectory(c)
  <2>1. v \notin FilesetVols /\ fset[v] = "absent" /\ (dir[v] => slink[v])
    BY <1>1, <1>4 DEF RunDeleteDirectory, Runs, Suits, PlacedInv
  <2> QED
    BY <1>1, <1>2, <1>4, <2>1 DEF RunDeleteDirectory, Runs, Removed
<1>5. CASE RunDeleteSymLnk(c)
  BY <1>1, <1>5 DEF RunDeleteSymLnk, Runs, Removed
<1> QED
  BY <1>3, <1>4, <1>5
  DEF Server, RunCreateFileset, RunLinkFileset, RunSetFilesetQuota,
      RunMakeDirectory, RunCreateSymLink, Runs, DeleteJobs

\* What deletions have cleared stays cleared.
LEMMA ClearedStep ==
  ASSUME TypeOK, SlotInv, PhaseInv, KindInv, PlacedInv, ClearedInv,
         Shrinks, [Next]_vars
  PROVE  ClearedInv'
<1>1. ASSUME NEW v \in Volumes, ~Kept(v)
      PROVE  /\ Removed(v) => Removed(v)'
             /\ ~slink[v] => ~slink'[v]
  BY <1>1 DEF Shrinks, Removed
<1>2. ASSUME NEW c \in Calls, pc[c] \in DeleteJobs
      PROVE  Active(c) /\ req[c].vol \in Volumes /\ ~Kept(req[c].vol)
  BY <1>2
  DEF TypeOK, SlotInv, PhaseInv, Active, Requests, DeleteJobs, CreateSteps,
      InMap, CreateReads, CreateJobs
<1>3. ASSUME NEW c \in Calls, InFlight(c), job[c].kind \in DeleteJobs
      PROVE  job[c].vol \in Volumes /\ ~Kept(job[c].vol)
  BY <1>3, JobsTyped DEF PhaseInv, InFlight, Jobs
<1> SUFFICES ASSUME NEW c \in Calls PROVE Cleared(c)'
  BY DEF ClearedInv
<1>4. SlotMoves(c) /\ JobMoves(c)
  BY SlotChange
<1>5. Cleared(c)
  BY DEF ClearedInv
<1>6. ASSUME pc'[c] = "DeleteSymLnk" PROVE Removed(req[c].vol)'
  <2>1. CASE Stays(c)
    BY <1>1, <1>2, <1>5, <1>6, <2>1 DEF Stays, Cleared, DeleteJobs
  <2>2. CASE Goes(c)
    <3>1. /\ req'[c] = req[c] /\ Active(c) /\ UNCHANGED storageVars
          /\ \/ pc[c] = "DeleteFileset" /\ fset[req[c].vol] = "absent"
             \/ /\ pc[c] \in {"DeleteFileset", "DeleteDirectory"}
                /\ InFlight(c) /\ JobSucceeded(c)
      BY <1>6, <2>2 DEF Goes
    <3>2. req[c].vol \in Volumes
      BY <3>1 DEF TypeOK, Active, Requests
    <3>3. CASE pc[c] = "DeleteFileset" /\ fset[req[c].vol] = "absent"
      BY <3>1, <3>2, <3>3
      DEF Removed, storageVars, KindInv, Suits, FilesetSteps, PlacedInv
    <3>4. CASE /\ pc[c] \in {"DeleteFileset", "DeleteDirectory"}
               /\ InFlight(c) /\ JobSucceeded(c)
      <4>1. job[c].kind = pc[c] /\ job[c].vol = req[c].vol
        BY <3>1, <3>4 DEF SlotInv
      <4> QED
        BY <1>5, <3>1, <3>4, <4>1 DEF Cleared, DeleteJobs, Removed, storageVars
    <3> QED
      BY <3>1, <3>3, <3>4
  <2> QED
    BY <1>4, <1>6, <2>1, <2>2 DEF SlotMoves, Leaves, Starts
<1>7. ASSUME InFlight(c)', job'[c].kind = "DeleteSymLnk"
      PROVE  Removed(job[c].vol)'
  <2>1. CASE InFlight(c) /\ job'[c].kind = job[c].kind /\ job'[c].vol = job[c].vol
    BY <1>1, <1>3, <1>5, <1>7, <2>1 DEF Cleared, DeleteJobs
  <2>2. CASE job'[c].kind = pc[c] /\ job'[c].vol = req[c].vol
    BY <1>1, <1>2, <1>5, <1>7, <2>2 DEF Cleared, DeleteJobs
  <2> QED
    BY <1>4, <1>7, <2>1, <2>2 DEF JobMoves, InFlight
<1>8. ASSUME InFlight(c)', job'[c].kind \in DeleteJobs, JobSucceeded(c)'
      PROVE  /\ Removed(job[c].vol)'
             /\ job'[c].kind = "DeleteSymLnk" => ~slink'[job'[c].vol]
  <2>1. job'[c].st \notin {"running", "failed"}
    BY <1>8 DEF JobSucceeded
  <2>2. CASE job'[c] = job[c]
    <3>1. InFlight(c) /\ JobSucceeded(c)
      BY <1>8, <2>2 DEF InFlight, JobSucceeded
    <3> QED
      BY <1>1, <1>3, <1>5, <1>8, <2>2, <3>1 DEF Cleared
  <2>3. CASE /\ Server(c)
             /\ job'[c].kind = job[c].kind /\ job'[c].vol = job[c].vol
    BY <1>8, <2>3, ServerClears
  <2> QED
    BY <1>4, <1>8, <2>1, <2>2, <2>3 DEF JobMoves, InFlight
<1> QED
  BY <1>6, <1>7, <1>8 DEF Cleared

----------------------------------------------------------------------------
(* Claims.                                                                 *)

\* A claim goes one step on, and the storage is as it was.
ClaimMoves ==
  /\ UNCHANGED storageVars
  /\ \E v \in Volumes, to \in {"bound", "deleting", "gone"} :
       /\ claim' = [claim EXCEPT ![v] = to]
       /\ \/ claim[v] = "creating" /\ to = "bound"
          \/ claim[v] = "bound" /\ to = "deleting"
          \/ claim[v] = "deleting" /\ to = "gone"

\* Every step leaves the claims alone or moves one of them on.
LEMMA ClaimStep ==
  ASSUME TypeOK, SlotInv, WaitInv, [Next]_vars
  PROVE  UNCHANGED claim \/ ClaimMoves
<1>1. UNCHANGED claim \/ UNCHANGED storageVars
  <2>1. ASSUME NEW c \in Calls, Server(c) PROVE UNCHANGED claim
    BY <2>1
    DEF Server, RunCreateFileset, RunLinkFileset, RunSetFilesetQuota,
        RunMakeDirectory, RunCreateSymLink, RunDeleteFileset,
        RunDeleteDirectory, RunDeleteSymLnk, Runs, clientVars
  <2> QED
    BY <2>1, StorageChange
<1>2. ASSUME NEW v \in Volumes, Release(v), UNCHANGED storageVars
      PROVE  ClaimMoves
  BY <1>2 DEF Release, ClaimMoves
<1>3. ASSUME NEW c \in Calls, NEW code, pc[c] # "idle", Return(c, code),
             UNCHANGED storageVars
      PROVE  UNCHANGED claim \/ ClaimMoves
  <2>1. req[c].vol \in Volumes
    BY <1>3, Served DEF Requests
  <2>2. CASE waiting[req[c].vol] = c /\ code = "OK"
    <3>1. \/ req[c].op = "create" /\ claim[req[c].vol] = "creating"
          \/ req[c].op = "delete" /\ claim[req[c].vol] = "deleting"
      BY <2>1, <2>2 DEF WaitInv
    <3> QED
      BY <1>3, <2>1, <2>2, <3>1 DEF Return, Answer, ClaimMoves
  <2>3. CASE ~(waiting[req[c].vol] = c /\ code = "OK")
    BY <1>3, <2>3 DEF Return, Answer
  <2> QED
    BY <2>2, <2>3
<1> QED
  BY <1>1, <1>2, <1>3, ClaimChange

\* DeleteVolume answers OK only when nothing of the volume is left.
LEMMA GoneStep ==
  ASSUME TypeOK, SlotInv, WaitInv, ClearedInv, GoneIsClean, Shrinks,
         [Next]_vars
  PROVE  GoneIsClean'
<1> SUFFICES ASSUME NEW v \in Volumes, claim'[v] = "gone" PROVE ~Leftovers(v)'
  BY DEF GoneIsClean, Leftovers
<1>1. CASE claim[v] = "gone"
  BY <1>1 DEF GoneIsClean, Leftovers, Shrinks, Kept
<1>2. CASE claim[v] # "gone"
  <2>1. UNCHANGED storageVars
    BY <1>2, ClaimStep DEF ClaimMoves
  <2>2. PICK c \in Calls : \E code :
           /\ pc[c] # "idle" /\ Return(c, code)
           /\ code = "OK" => CheckSymLink(c) \/ JobOk(c)
    BY <1>2, ClaimChange DEF Release, TypeOK
  <2>3. PICK code :
          /\ pc[c] # "idle" /\ Return(c, code)
          /\ code = "OK" => CheckSymLink(c) \/ JobOk(c)
    BY <2>2
  <2>4. code = "OK" /\ v = req[c].vol /\ req[c].op = "delete"
    BY <1>2, <2>3, Served, ReturnClaim
  <2>5. ~CheckSymLink(c)
    BY <2>3, <2>4
    DEF CheckSymLink, SlotInv, Active, CreateSteps, InMap, CreateReads,
        DeleteSteps, DeleteJobs
  <2>6. /\ JobOk(c) /\ InFlight(c) /\ JobSucceeded(c)
        /\ pc[c] \in {"CreateSymLink", "DeleteSymLnk"}
    BY <1>2, <2>3, <2>4, <2>5 DEF JobOk, JobEnded, InFlight, Proceed, clientVars
  <2>7. /\ pc[c] = "DeleteSymLnk"
        /\ job[c].kind = pc[c] /\ job[c].vol = v
    BY <2>3, <2>4, <2>6
    DEF SlotInv, Active, DeleteSteps, DeleteJobs
  <2>8. Removed(v) /\ ~slink[v]
    BY <2>6, <2>7 DEF ClearedInv, Cleared, DeleteJobs
  <2> QED
    BY <2>1, <2>8 DEF Removed, Leftovers, storageVars
<1> QED
  BY <1>1, <1>2

----------------------------------------------------------------------------
(* The invariant of deletions.                                             *)

\* It holds at the start ...
LEMMA InitDeletion == Init => DeletionInv
  BY DEF Init, DeletionInv, PlacedInv, KindInv, ReleasedInv, Creating,
         ClearedInv, Cleared, Active, InFlight, GoneIsClean, Leftovers

\* ... and every step preserves it, together with IndInv.
LEMMA StepDeletion ==
  ASSUME ~LateCreates, IndInv, DeletionInv, [Next]_vars
  PROVE  DeletionInv' /\ Shrinks
<1> USE DEF IndInv, DeletionInv
<1>1. TypeOK'
  BY TypeStep
<1>2. Shrinks
  BY ShrinksStep
<1>3. PlacedInv' /\ KindInv' /\ ReleasedInv'
  BY <1>1, PlacedStep, KindStep, ReleasedStep
<1>4. ClearedInv' /\ GoneIsClean'
  BY <1>2, ClearedStep, GoneStep
<1> QED
  BY <1>2, <1>3, <1>4

\* The strengthening behind GoneIsClean is an invariant of every instance in
\* which claims are not deleted while a creation is under way.
THEOREM DeletionInvariance ==
  ASSUME ~LateCreates
  PROVE  Spec => []DeletionInv
<1>1. Init => DeletionInv
  BY InitDeletion
<1>2. IndInv /\ DeletionInv /\ [Next]_vars => DeletionInv'
  BY StepDeletion
<1> QED
  BY <1>1, <1>2, Invariance, PTL DEF Spec

\* DeleteVolume answers OK only when nothing is left, and nothing comes back.
THEOREM GoneClean ==
  ASSUME ~LateCreates
  PROVE  Spec => []GoneIsClean
<1>1. DeletionInv => GoneIsClean
  BY DEF DeletionInv
<1> QED
  BY <1>1, DeletionInvariance, PTL

----------------------------------------------------------------------------
(* The refinement.                                                         *)

\* A job works on the storage of one volume.
LEMMA OneVolume ==
  ASSUME TypeOK, NEW c \in Calls, Server(c)
  PROVE  /\ UNCHANGED claim
         /\ job[c].vol \in Volumes
         /\ \A v \in Volumes \ {job[c].vol} :
              /\ fset'[v] = fset[v] /\ quota'[v] = quota[v]
              /\ dir'[v] = dir[v] /\ slink'[v] = slink[v]
  BY JobsTyped
  DEF TypeOK, Jobs, Server, RunCreateFileset, RunLinkFileset,
      RunSetFilesetQuota, RunMakeDirectory, RunCreateSymLink, RunDeleteFileset,
      RunDeleteDirectory, RunDeleteSymLnk, Runs, clientVars

\* Of a volume that is kept, a job leaves everything that is there.
LEMMA KeptLeftovers ==
  ASSUME TypeOK, PhaseInv, NEW c \in Calls, Server(c),
         NEW v, v = job[c].vol, Kept(v), Leftovers(v)
  PROVE  Leftovers(v)'
<1> USE DEF TypeOK, Leftovers
<1>1. v \in Volumes
  BY OneVolume
<1>2. CASE RunCreateFileset(c)
  BY <1>1, <1>2 DEF RunCreateFileset
<1>3. CASE RunLinkFileset(c)
  BY <1>1, <1>3 DEF RunLinkFileset
<1>4. CASE RunSetFilesetQuota(c)
  BY <1>4 DEF RunSetFilesetQuota
<1>5. CASE RunMakeDirectory(c)
  BY <1>1, <1>5 DEF RunMakeDirectory
<1>6. CASE RunCreateSymLink(c)
  BY <1>1, <1>6 DEF RunCreateSymLink
<1>7. ~RunDeleteFileset(c) /\ ~RunDeleteDirectory(c) /\ ~RunDeleteSymLnk(c)
  BY RunsOn
  DEF RunDeleteFileset, RunDeleteDirectory, RunDeleteSymLnk, DeleteJobs
<1> QED
  BY <1>2, <1>3, <1>4, <1>5, <1>6, <1>7 DEF Server

\* The extent of a volume follows from its pieces.
LEMMA SameExtent ==
  ASSUME NEW v, fset'[v] = fset[v], quota'[v] = quota[v], dir'[v] = dir[v],
         slink'[v] = slink[v]
  PROVE  Extent(v)' = Extent(v)
  BY DEF Extent, Complete, HasLink, HasQuota, QuotaSet, Leftovers

\* A kept volume grows ...
LEMMA ExtentGrows ==
  ASSUME Grows, NEW v \in Volumes, Kept(v)',
         Leftovers(v) => Leftovers(v)'
  PROVE  Extent(v)' = Extent(v) \/ Extent(v) \in Contract!Below[Extent(v)']
<1>1. Complete(v) => Complete(v)'
  BY DEF Grows, Complete
<1> QED
  BY <1>1 DEF Extent, Contract!Below

\* ... and one that is not kept shrinks.
LEMMA ExtentShrinks ==
  ASSUME TypeOK, Shrinks, NEW v \in Volumes, ~Kept(v),
         v \notin FilesetVols => fset[v] = "absent"
  PROVE  Extent(v)' = Extent(v) \/ Extent(v)' \in Contract!Below[Extent(v)]
<1>1. /\ \/ fset'[v] = fset[v] /\ quota'[v] = quota[v]
         \/ fset'[v] = "absent"
      /\ dir'[v] => dir[v]
      /\ slink'[v] => slink[v]
  BY DEF Shrinks
<1>2. Complete(v)' => Complete(v)
  BY <1>1 DEF Complete, HasLink, HasQuota, QuotaSet
<1>3. Leftovers(v)' => Leftovers(v)
  BY <1>1 DEF Leftovers
<1>4. Complete(v) => Leftovers(v)
  BY DEF Complete, Leftovers
<1> QED
  BY <1>2, <1>3, <1>4 DEF Extent, Contract!Below

\* A job builds, destroys, or does nothing to speak of.
LEMMA ServerRefines ==
  ASSUME IndInv, DeletionInv, DeletionInv', IndInv', Grows, Shrinks,
         NEW c \in Calls, Server(c)
  PROVE  [Contract!Next]_(Contract!vars)
<1> USE DEF IndInv, DeletionInv
<1>1. PICK u \in Volumes : u = job[c].vol
  BY OneVolume
<1>2. /\ claim' = claim
      /\ \A w \in Volumes \ {u} : Extent(w)' = Extent(w)
  BY <1>1, OneVolume, SameExtent
<1>3. CASE Extent(u)' = Extent(u)
  BY <1>2, <1>3 DEF Stored, Contract!vars
<1>4. ASSUME Extent(u)' # Extent(u)
      PROVE  Stored' = [Stored EXCEPT ![u] = Extent(u)']
  BY <1>2 DEF Stored
<1>5. CASE Extent(u)' # Extent(u) /\ Kept(u)
  <2>1. Extent(u) \in Contract!Below[Extent(u)']
    BY <1>1, <1>2, <1>5, KeptLeftovers, ExtentGrows DEF Kept
  <2>2. claim[u] = "creating"
    BY <1>2, <1>5 DEF Kept, BoundIsComplete, Extent
  <2>3. Extent(u)' \in Contract!Extents /\ Stored[u] = Extent(u)
    BY DEF Extent, Contract!Extents, Stored
  <2>4. Contract!Build(u)
    BY <1>2, <1>4, <1>5, <2>1, <2>2, <2>3 DEF Contract!Build
  <2> QED
    BY <2>4 DEF Contract!Next
<1>6. CASE Extent(u)' # Extent(u) /\ ~Kept(u)
  <2>1. Extent(u)' \in Contract!Below[Extent(u)]
    BY <1>6, ExtentShrinks DEF PlacedInv
  <2>2. claim[u] = "deleting"
    <3>1. Extent(u) # "nothing"
      BY <2>1 DEF Extent, Contract!Below
    <3> QED
      BY <1>6, <3>1 DEF TypeOK, Kept, GoneIsClean, Extent, Leftovers, Complete
  <2>3. Stored[u] = Extent(u)
    BY DEF Stored
  <2>4. Contract!Destroy(u)
    BY <1>2, <1>4, <1>6, <2>1, <2>2, <2>3 DEF Contract!Destroy
  <2> QED
    BY <2>4 DEF Contract!Next
<1> QED
  BY <1>3, <1>5, <1>6

\* A claim that moves on is bound, released or forgotten.
LEMMA ClaimRefines ==
  ASSUME IndInv, DeletionInv, IndInv', DeletionInv', ClaimMoves
  PROVE  [Contract!Next]_(Contract!vars)
<1> USE DEF IndInv, DeletionInv
<1>1. PICK v \in Volumes, to \in {"bound", "deleting", "gone"} :
        /\ claim' = [claim EXCEPT ![v] = to]
        /\ \/ claim[v] = "creating" /\ to = "bound"
           \/ claim[v] = "bound" /\ to = "deleting"
           \/ claim[v] = "deleting" /\ to = "gone"
  BY DEF ClaimMoves
<1>2. /\ \A w \in Volumes : Extent(w)' = Extent(w)
      /\ Stored' = Stored
      /\ claim'[v] = to
      /\ Stored[v] = Extent(v)
  BY <1>1, SameExtent DEF ClaimMoves, storageVars, Stored, TypeOK
<1>3. CASE claim[v] = "creating" /\ to = "bound"
  <2>1. Extent(v) = "all"
    BY <1>2, <1>3 DEF BoundIsComplete, Extent
  <2> QED
    BY <1>1, <1>2, <1>3, <2>1 DEF Contract!Next, Contract!Bind, Contract!Enter
<1>4. CASE claim[v] = "bound" /\ to = "deleting"
  BY <1>1, <1>2, <1>4 DEF Contract!Next, Contract!Release, Contract!Enter
<1>5. CASE claim[v] = "deleting" /\ to = "gone"
  <2>1. Extent(v) = "nothing"
    BY <1>2, <1>5 DEF GoneIsClean, Extent, Leftovers, Complete
  <2> QED
    BY <1>1, <1>2, <1>5, <2>1 DEF Contract!Next, Contract!Forget, Contract!Enter
<1> QED
  BY <1>1, <1>3, <1>4, <1>5

\* The initial states map to the contract's.
LEMMA InitRefines == Init => Contract!Init
<1> SUFFICES ASSUME Init PROVE Contract!Init
  OBVIOUS
<1>1. claim \in [Volumes -> {"creating", "gone"}]
  BY DEF Init
<1>2. Stored = [v \in Volumes |-> "nothing"]
  BY DEF Init, Stored, Extent, Complete, Leftovers
<1> QED
  BY <1>1, <1>2 DEF Contract!Init

\* Every step maps to a step of the contract or to none.
LEMMA StepRefines ==
  ASSUME ~LateCreates, IndInv, DeletionInv, [Next]_vars
  PROVE  [Contract!Next]_(Contract!vars)
<1>1. IndInv' /\ Grows /\ DeletionInv' /\ Shrinks
  BY StepInv, StepDeletion
<1>2. CASE ClaimMoves
  BY <1>1, <1>2, ClaimRefines
<1>3. ASSUME NEW c \in Calls, Server(c) PROVE [Contract!Next]_(Contract!vars)
  BY <1>1, <1>3, ServerRefines
<1>4. CASE UNCHANGED claim /\ UNCHANGED storageVars
  <2>1. \A v \in Volumes : Extent(v)' = Extent(v)
    BY <1>4, SameExtent DEF storageVars
  <2> QED
    BY <1>4, <2>1 DEF Contract!vars, Stored
<1> QED
  BY <1>2, <1>3, <1>4, ClaimStep, StorageChange DEF IndInv

\* The handlers, the GUI and the provisioner implement the contract: for any
\* volumes, requests, concurrent calls, drivers and faults, a volume is
\* reported created only when it is complete, stays so until its deletion is
\* requested, then only shrinks, and is reported deleted when nothing is left.
THEOREM Implementation ==
  ASSUME ~LateCreates
  PROVE  Spec => ContractKept
<1>1. Init => Contract!Init
  BY InitRefines
<1>2. IndInv /\ DeletionInv /\ [Next]_vars => [Contract!Next]_(Contract!vars)
  BY StepRefines
<1> QED
  BY <1>1, <1>2, Invariance, DeletionInvariance, PTL
  DEF Spec, ContractKept, Contract!Spec
=============================================================================
