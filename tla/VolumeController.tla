-------------------------- MODULE VolumeController --------------------------
(***************************************************************************)
(* The CreateVolume and DeleteVolume handlers of the controller service    *)
(* (driver/csiplugin/controllerserver.go), the asynchronous REST jobs of   *)
(* the Spectrum Scale GUI they submit (connectors/rest_v2.go), and the     *)
(* external provisioner that calls and re-calls them.                      *)
(*                                                                         *)
(* gRPC runs every call in a goroutine of its own and no handler looks at  *)
(* its context: a handler whose caller gave up keeps running.  A job the   *)
(* GUI accepted keeps running as well when its handler errs or its driver  *)
(* dies.  The only thing that keeps two creations of one volume apart is   *)
(* reqmap, an in-memory map of one driver process.                         *)
(*                                                                         *)
(* Abstractions.  GETs that only read configuration (filesystem details,   *)
(* mount state, primary fileset) are folded into the next step that reads  *)
(* or writes volume state; each of them can fail.  A handler's answer      *)
(* reaches its caller in the step that returns it: an answer lost on the   *)
(* way is a Timeout just before that step.                                 *)
(***************************************************************************)
EXTENDS Naturals

CONSTANTS
  Volumes,      \* volume names; the provisioner derives them from claim UIDs
  Claimed,      \* the sets of volumes that may be asked for in a behaviour
  FilesetVols,  \* those whose storage class asks for a fileset of their own
  Calls,        \* slots for concurrent RPCs
  Drivers,      \* driver processes, one per node (DaemonSet)
  Sizes,        \* for each volume, the sizes in bytes its requests may carry
  KB,           \* granularity in bytes of the quotas the GUI lists
  FaultKinds,   \* the faults a behaviour may contain
  MaxFaults,    \* bound on their number
  AbsentDirOk,  \* does deleting a directory that is not there succeed?
  LateCreates,  \* may a claim be deleted while a creation is still under way?
  NoEntry, NoCall, NoReq, NoJob

ASSUME VolumesAssumption == FilesetVols \subseteq Volumes
ASSUME ClaimedAssumption == Claimed \subseteq SUBSET Volumes
ASSUME SizesAssumption ==
  Sizes \in [Volumes -> SUBSET Nat] /\ \A v \in Volumes : Sizes[v] # {}
ASSUME KBAssumption == KB \in Nat \ {0}
ASSUME FaultsAssumption == MaxFaults \in Nat
ASSUME FlagsAssumption == AbsentDirOk \in BOOLEAN /\ LateCreates \in BOOLEAN
VARIABLES
  pc,      \* the step each handler is at; "idle" when the slot is free
  req,     \* the request each handler serves
  job,     \* the GUI job of the handler's latest REST call
  reqmap,  \* per driver: volume name -> size being created
  fset,    \* the volume's fileset in the filesystem
  quota,   \* its quota as the GUI lists it, in bytes; 0 is "not set"
  dir,     \* does the volume's directory exist?
  slink,   \* does the volume's symlink under the primary fileset exist?
  claim,   \* what the provisioner knows of the volume
  waiting, \* the call it is waiting for, per volume
  prov,    \* the driver it is connected to
  faults   \* faults so far

handlerVars == <<pc, req, job, reqmap>>
storageVars == <<fset, quota, dir, slink>>
clientVars  == <<claim, waiting, prov>>
vars == <<handlerVars, storageVars, clientVars, faults>>

----------------------------------------------------------------------------
(* Steps, named after the connector call a handler makes at them.          *)

CreateReads == {"ListFileset", "RelistFileset", "ListLinked",
                "ListFilesetQuota", "CheckDir", "CheckSymLink"}
CreateJobs  == {"CreateFileset", "LinkFileset", "SetFilesetQuota",
                "MakeDirectory", "CreateSymLink"}
DeleteJobs  == {"DeleteFileset", "DeleteDirectory", "DeleteSymLnk"}
JobKinds    == CreateJobs \cup DeleteJobs
Reads       == CreateReads \cup {"InProcess", "Lookup"}
InMap       == CreateReads \cup CreateJobs  \* after line 497, before return
Steps       == {"idle", "Mark"} \cup Reads \cup JobKinds

Requests == [op : {"create", "delete"}, vol : Volumes, size : Nat,
             drv : Drivers]
Jobs     == [kind : JobKinds, vol : Volumes, size : Nat,
             st : {"running", "completed", "already", "failed"}]

ASSUME SentinelsAssumption ==
  /\ NoEntry \notin Nat
  /\ NoCall \notin Calls
  /\ NoReq \notin Requests
  /\ NoJob \notin Jobs

\* Mutant of Listed: the unit after the last full one.
ListedOneMore(s) == KB * (s \div KB + 1)

\* ListFilesetQuota prints the block limit as "<n>K": a quota that is not a
\* multiple of KB is listed rounded (up, as the filesystem allocates blocks).
Listed(s) == KB * ((s + KB - 1) \div KB)

\* A failed job whose message says the work was already done counts as
\* success for these calls (EFSSP1102C, EFSSG0762C, EFSSG2006C).
Tolerated == {"CreateFileset", "MakeDirectory", "CreateSymLink", "DeleteSymLnk"}

\* Mutant of JobSucceeded: the outcome of the job is not looked at.
AnyEndSucceeds(c) == job[c].st # "running"

\* Mutant of JobSucceeded: "already deleted" is an error.
NothingTolerated(c) == job[c].st = "completed"

JobSucceeded(c) ==
  \/ job[c].st = "completed"
  \/ job[c].st = "already" /\ job[c].kind \in Tolerated

Goto(c, step) == pc' = [pc EXCEPT ![c] = step]

\* The caller hears the answer only if it still waits for this call.
Answer(c, code) ==
  LET v == req[c].vol IN
  IF waiting[v] = c
  THEN /\ waiting' = [waiting EXCEPT ![v] = NoCall]
       /\ claim' = IF code = "OK"
                   THEN [claim EXCEPT ![v] = IF req[c].op = "create"
                                             THEN "bound" ELSE "gone"]
                   ELSE claim
  ELSE UNCHANGED <<claim, waiting>>

\* Mutant of Unmark: deleted at the end of CreateVolume, not deferred.
UnmarkAtEnd(c) ==
  reqmap' = IF pc[c] \in {"CheckSymLink", "CreateSymLink"}
            THEN [reqmap EXCEPT ![req[c].drv][req[c].vol] = NoEntry]
            ELSE reqmap

\* defer delete(cs.Driver.reqmap, scaleVol.VolName)
Unmark(c) ==
  reqmap' = IF pc[c] \in InMap
            THEN [reqmap EXCEPT ![req[c].drv][req[c].vol] = NoEntry]
            ELSE reqmap

Return(c, code) ==
  /\ Goto(c, "idle")
  /\ req' = [req EXCEPT ![c] = NoReq]
  /\ Unmark(c)
  /\ Answer(c, code)
  /\ UNCHANGED prov

\* A handler moves on without returning.
Proceed(c, step) ==
  /\ Goto(c, step)
  /\ UNCHANGED <<req, reqmap, clientVars>>

Fault(kind) ==
  /\ kind \in FaultKinds
  /\ faults < MaxFaults
  /\ faults' = faults + 1

----------------------------------------------------------------------------
Init ==
  /\ pc = [c \in Calls |-> "idle"]
  /\ req = [c \in Calls |-> NoReq]
  /\ job = [c \in Calls |-> NoJob]
  /\ reqmap = [d \in Drivers |-> [v \in Volumes |-> NoEntry]]
  /\ fset = [v \in Volumes |-> "absent"]
  /\ quota = [v \in Volumes |-> 0]
  /\ dir = [v \in Volumes |-> FALSE]
  /\ slink = [v \in Volumes |-> FALSE]
  /\ \E asked \in Claimed :
       claim = [v \in Volumes |-> IF v \in asked THEN "creating" ELSE "gone"]
  /\ waiting = [v \in Volumes |-> NoCall]
  /\ prov \in Drivers
  /\ faults = 0

----------------------------------------------------------------------------
(* The provisioner: one outstanding call per volume, repeated until it     *)
(* succeeds.                                                               *)

FreeSlot(c) == pc[c] = "idle" /\ job[c] = NoJob

Issue(v, c, op, size, step) ==
  /\ waiting[v] = NoCall
  /\ FreeSlot(c)
  /\ waiting' = [waiting EXCEPT ![v] = c]
  /\ req' = [req EXCEPT ![c] =
               [op |-> op, vol |-> v, size |-> size, drv |-> prov]]
  /\ Goto(c, step)
  /\ UNCHANGED <<job, reqmap, storageVars, claim, prov, faults>>

IssueCreate(v, c) ==
  /\ claim[v] = "creating"
  /\ \E s \in Sizes[v] : Issue(v, c, "create", s, "InProcess")

IssueDelete(v, c) ==
  /\ claim[v] = "deleting"
  /\ Issue(v, c, "delete", 0, "Lookup")

\* The provisioner's --timeout; the handler does not notice.
Timeout(v) ==
  /\ waiting[v] # NoCall
  /\ Fault("timeout")
  /\ waiting' = [waiting EXCEPT ![v] = NoCall]
  /\ UNCHANGED <<handlerVars, storageVars, claim, prov>>

Creating(v) ==
  \E c \in Calls :
    \/ req[c] # NoReq /\ req[c].op = "create" /\ req[c].vol = v
    \/ job[c] # NoJob /\ job[c].kind \in CreateJobs /\ job[c].vol = v

\* The user deletes the claim and the provisioner starts deleting.
Release(v) ==
  /\ claim[v] = "bound"
  /\ LateCreates \/ ~Creating(v)
  /\ claim' = [claim EXCEPT ![v] = "deleting"]
  /\ UNCHANGED <<handlerVars, storageVars, waiting, prov, faults>>

\* The provisioner's pod is rescheduled and talks to another node's driver.
Failover(d) ==
  /\ d # prov
  /\ Fault("failover")
  /\ prov' = d
  /\ waiting' = [v \in Volumes |-> NoCall]
  /\ UNCHANGED <<handlerVars, storageVars, claim>>

----------------------------------------------------------------------------
(* CreateVolume.                                                           *)

\* IfSameVolReqInProcess found an entry: Aborted for the same size, Internal
\* for another one.  The entry stays.
RefuseInProcess(c) ==
  LET cap == reqmap[req[c].drv][req[c].vol] IN
  /\ pc[c] = "InProcess"
  /\ cap # NoEntry
  /\ Return(c, IF cap = req[c].size THEN "Aborted" ELSE "Internal")
  /\ UNCHANGED <<job, storageVars, faults>>

PassInProcess(c) ==
  /\ pc[c] = "InProcess"
  /\ reqmap[req[c].drv][req[c].vol] = NoEntry
  /\ Proceed(c, "Mark")
  /\ UNCHANGED <<job, storageVars, faults>>

\* Mutant of Mark: the map holds who asked instead of the size asked for.
MarkStoresCaller(c) ==
  /\ pc[c] = "Mark"
  /\ reqmap' = [reqmap EXCEPT ![req[c].drv][req[c].vol] = c]
  /\ Goto(c, IF req[c].vol \in FilesetVols THEN "ListFileset" ELSE "CheckDir")
  /\ UNCHANGED <<req, job, storageVars, clientVars, faults>>

\* The map is written in a step of its own: nothing locks it.
Mark(c) ==
  /\ pc[c] = "Mark"
  /\ reqmap' = [reqmap EXCEPT ![req[c].drv][req[c].vol] = req[c].size]
  /\ Goto(c, IF req[c].vol \in FilesetVols THEN "ListFileset" ELSE "CheckDir")
  /\ UNCHANGED <<req, job, storageVars, clientVars, faults>>

\* Mutant of AfterLink: the quota is forgotten.
AfterLinkNoQuota(c) == "CheckDir"

AfterLink(c) == IF req[c].size # 0 THEN "ListFilesetQuota" ELSE "CheckDir"

AfterList(c) == IF fset[req[c].vol] = "unlinked" THEN "LinkFileset"
                                                 ELSE AfterLink(c)

ListFileset(c) ==
  /\ pc[c] = "ListFileset"
  /\ Proceed(c, IF fset[req[c].vol] = "absent" THEN "CreateFileset"
                                               ELSE AfterList(c))
  /\ UNCHANGED <<job, storageVars, faults>>

RelistFileset(c) ==
  /\ pc[c] = "RelistFileset"
  /\ IF fset[req[c].vol] = "absent" THEN Return(c, "Internal")
                                    ELSE Proceed(c, AfterList(c))
  /\ UNCHANGED <<job, storageVars, faults>>

ListLinked(c) ==
  /\ pc[c] = "ListLinked"
  /\ IF fset[req[c].vol] = "absent" THEN Return(c, "Internal")
                                    ELSE Proceed(c, AfterLink(c))
  /\ UNCHANGED <<job, storageVars, faults>>

ListFilesetQuota(c) ==
  LET listed == quota[req[c].vol] IN
  /\ pc[c] = "ListFilesetQuota"
  /\ \/ listed = 0 /\ Proceed(c, "SetFilesetQuota")
     \/ listed # 0 /\ listed = req[c].size /\ Proceed(c, "CheckDir")
     \/ listed # 0 /\ listed # req[c].size /\ Return(c, "Internal")
  /\ UNCHANGED <<job, storageVars, faults>>

CheckDir(c) ==
  /\ pc[c] = "CheckDir"
  /\ Proceed(c, IF dir[req[c].vol] THEN "CheckSymLink" ELSE "MakeDirectory")
  /\ UNCHANGED <<job, storageVars, faults>>

CheckSymLink(c) ==
  /\ pc[c] = "CheckSymLink"
  /\ IF slink[req[c].vol] THEN Return(c, "OK") ELSE Proceed(c, "CreateSymLink")
  /\ UNCHANGED <<job, storageVars, faults>>

----------------------------------------------------------------------------
(* DeleteVolume.  It neither reads nor writes reqmap.                      *)

Lookup(c) ==
  /\ pc[c] = "Lookup"
  /\ Proceed(c, IF req[c].vol \in FilesetVols THEN "DeleteFileset"
                                              ELSE "DeleteDirectory")
  /\ UNCHANGED <<job, storageVars, faults>>

\* Mutant of FilesetAlreadyDeleted: DeleteVolume is content and returns.
FilesetGoneReturns(c) ==
  /\ pc[c] = "DeleteFileset"
  /\ job[c] = NoJob
  /\ fset[req[c].vol] = "absent"
  /\ Return(c, "OK")
  /\ UNCHANGED <<job, storageVars, faults>>

\* Mutant of FilesetAlreadyDeleted: a fileset that is gone is an error.
FilesetGoneFails(c) ==
  /\ pc[c] = "DeleteFileset"
  /\ job[c] = NoJob
  /\ fset[req[c].vol] = "absent"
  /\ Return(c, "Internal")
  /\ UNCHANGED <<job, storageVars, faults>>

\* The GUI refuses with "Invalid value in 'fsetName'": taken as deleted.
FilesetAlreadyDeleted(c) ==
  /\ pc[c] = "DeleteFileset"
  /\ job[c] = NoJob
  /\ fset[req[c].vol] = "absent"
  /\ Proceed(c, "DeleteSymLnk")
  /\ UNCHANGED <<job, storageVars, faults>>

----------------------------------------------------------------------------
(* Asynchronous REST calls: the request is accepted and gets a job, the    *)
(* GUI runs the job, the handler polls it until it has ended.              *)

Accepted(c) ==
  /\ pc[c] \in JobKinds
  /\ job[c] = NoJob
  /\ pc[c] = "DeleteFileset" => fset[req[c].vol] # "absent"
  /\ job' = [job EXCEPT ![c] = [kind |-> pc[c], vol |-> req[c].vol,
                                size |-> req[c].size, st |-> "running"]]

\* The GUI answers with 201 or 202, after which the job is polled.  That it
\* does so is assumed: after another status that is accepted the code takes
\* the request for done (rest_v2.go:75-86).
Submit(c) ==
  /\ Accepted(c)
  /\ UNCHANGED <<pc, req, reqmap, storageVars, clientVars, faults>>

AfterJob == [CreateFileset   |-> "RelistFileset",
             LinkFileset     |-> "ListLinked",
             SetFilesetQuota |-> "CheckDir",
             MakeDirectory   |-> "CheckSymLink",
             DeleteFileset   |-> "DeleteSymLnk",
             DeleteDirectory |-> "DeleteSymLnk"]

\* The poll sees a job that has ended.
JobEnded(c) ==
  /\ pc[c] # "idle"
  /\ job[c] # NoJob
  /\ job[c].st # "running"
  /\ job' = [job EXCEPT ![c] = NoJob]
  /\ UNCHANGED <<storageVars, faults>>

JobOk(c) ==
  /\ JobEnded(c)
  /\ JobSucceeded(c)
  /\ IF pc[c] \in {"CreateSymLink", "DeleteSymLnk"}
     THEN Return(c, "OK")
     ELSE Proceed(c, AfterJob[pc[c]])

\* Mutant of JobError: a failed creation deletes the fileset again.
JobErrorCleansUp(c) ==
  LET v == req[c].vol IN
  /\ pc[c] # "idle"
  /\ job[c] # NoJob
  /\ job[c].st # "running"
  /\ ~JobSucceeded(c)
  /\ job' = [job EXCEPT ![c] = NoJob]
  /\ IF pc[c] \in CreateJobs /\ v \in FilesetVols
     THEN /\ fset' = [fset EXCEPT ![v] = "absent"]
          /\ quota' = [quota EXCEPT ![v] = 0]
          /\ dir' = [dir EXCEPT ![v] = FALSE]
     ELSE UNCHANGED <<fset, quota, dir>>
  /\ Return(c, "Internal")
  /\ UNCHANGED <<slink, faults>>

JobError(c) ==
  /\ JobEnded(c)
  /\ ~JobSucceeded(c)
  /\ Return(c, "Internal")

----------------------------------------------------------------------------
(* The GUI runs a job.  Nobody reads the status of an orphan's job.        *)

Ends(c, st) ==
  job' = [job EXCEPT ![c] = IF pc[c] = "idle" THEN NoJob
                                              ELSE [@ EXCEPT !.st = st]]

Runs(c, kind) ==
  /\ job[c] # NoJob
  /\ job[c].kind = kind
  /\ job[c].st = "running"
  /\ UNCHANGED <<pc, req, reqmap, clientVars, faults>>

\* A new fileset may come linked at its default path or unlinked.
RunCreateFileset(c) ==
  LET v == job[c].vol IN
  /\ Runs(c, "CreateFileset")
  /\ \/ /\ fset[v] = "absent"
        /\ \E s \in {"unlinked", "linked"} : fset' = [fset EXCEPT ![v] = s]
        /\ Ends(c, "completed")
     \/ /\ fset[v] # "absent"
        /\ UNCHANGED fset
        /\ Ends(c, "already")
  /\ UNCHANGED <<quota, dir, slink>>

RunLinkFileset(c) ==
  LET v == job[c].vol IN
  /\ Runs(c, "LinkFileset")
  /\ IF fset[v] = "unlinked"
     THEN fset' = [fset EXCEPT ![v] = "linked"] /\ Ends(c, "completed")
     ELSE UNCHANGED fset /\ Ends(c, "failed")
  /\ UNCHANGED <<quota, dir, slink>>

RunSetFilesetQuota(c) ==
  LET v == job[c].vol IN
  /\ Runs(c, "SetFilesetQuota")
  /\ IF fset[v] # "absent"
     THEN quota' = [quota EXCEPT ![v] = Listed(job[c].size)]
          /\ Ends(c, "completed")
     ELSE UNCHANGED quota /\ Ends(c, "failed")
  /\ UNCHANGED <<fset, dir, slink>>

\* The directory of a fileset volume lies below the fileset's junction.
RunMakeDirectory(c) ==
  LET v == job[c].vol IN
  /\ Runs(c, "MakeDirectory")
  /\ IF v \in FilesetVols => fset[v] = "linked"
     THEN dir' = [dir EXCEPT ![v] = TRUE]
          /\ Ends(c, IF dir[v] THEN "already" ELSE "completed")
     ELSE UNCHANGED dir /\ Ends(c, "failed")
  /\ UNCHANGED <<fset, quota, slink>>

RunCreateSymLink(c) ==
  LET v == job[c].vol IN
  /\ Runs(c, "CreateSymLink")
  /\ slink' = [slink EXCEPT ![v] = TRUE]
  /\ Ends(c, IF slink[v] THEN "already" ELSE "completed")
  /\ UNCHANGED <<fset, quota, dir>>

\* Quota and directory go with the fileset.
RunDeleteFileset(c) ==
  LET v == job[c].vol IN
  /\ Runs(c, "DeleteFileset")
  /\ IF fset[v] # "absent"
     THEN /\ fset' = [fset EXCEPT ![v] = "absent"]
          /\ quota' = [quota EXCEPT ![v] = 0]
          /\ dir' = [dir EXCEPT ![v] = FALSE]
          /\ Ends(c, "completed")
     ELSE UNCHANGED <<fset, quota, dir>> /\ Ends(c, "failed")
  /\ UNCHANGED slink

\* A lightweight volume's directory is addressed through its symlink.
RunDeleteDirectory(c) ==
  LET v == job[c].vol IN
  /\ Runs(c, "DeleteDirectory")
  /\ IF slink[v] /\ dir[v]
     THEN dir' = [dir EXCEPT ![v] = FALSE] /\ Ends(c, "completed")
     ELSE UNCHANGED dir
          /\ Ends(c, IF AbsentDirOk THEN "completed" ELSE "failed")
  /\ UNCHANGED <<fset, quota, slink>>

RunDeleteSymLnk(c) ==
  LET v == job[c].vol IN
  /\ Runs(c, "DeleteSymLnk")
  /\ slink' = [slink EXCEPT ![v] = FALSE]
  /\ Ends(c, IF slink[v] THEN "completed" ELSE "already")
  /\ UNCHANGED <<fset, quota, dir>>

----------------------------------------------------------------------------
(* Failures.                                                               *)

\* A GET fails, or one of the checks before it does.
ReadFails(c) ==
  /\ pc[c] \in Reads
  /\ Fault("read")
  /\ Return(c, "Internal")
  /\ UNCHANGED <<job, storageVars>>

\* The GUI does not accept a request.
SubmitRefused(c) ==
  /\ pc[c] \in JobKinds
  /\ job[c] = NoJob
  /\ Fault("refused")
  /\ Return(c, "Internal")
  /\ UNCHANGED <<job, storageVars>>

\* It accepts it, and the response is lost.
SubmitLost(c) ==
  /\ Accepted(c)
  /\ Fault("lost")
  /\ Return(c, "Internal")
  /\ UNCHANGED storageVars

\* A poll fails: the handler returns, whatever the job does.
PollFails(c) ==
  /\ pc[c] # "idle"
  /\ job[c] # NoJob
  /\ Fault("poll")
  /\ Return(c, "Internal")
  /\ job' = IF job[c].st = "running" THEN job
                                     ELSE [job EXCEPT ![c] = NoJob]
  /\ UNCHANGED storageVars

JobFails(c) ==
  /\ job[c] # NoJob
  /\ job[c].st = "running"
  /\ Fault("jobfail")
  /\ Ends(c, "failed")
  /\ UNCHANGED <<pc, req, reqmap, storageVars, clientVars>>

\* A driver process dies with its handlers and its map; the jobs live on.
Crash(d) ==
  LET dead(c) == req[c] # NoReq /\ req[c].drv = d IN
  /\ Fault("crash")
  /\ pc' = [c \in Calls |-> IF dead(c) THEN "idle" ELSE pc[c]]
  /\ req' = [c \in Calls |-> IF dead(c) THEN NoReq ELSE req[c]]
  /\ job' = [c \in Calls |->
               IF dead(c) /\ job[c] # NoJob /\ job[c].st # "running"
               THEN NoJob ELSE job[c]]
  /\ reqmap' = [reqmap EXCEPT ![d] = [v \in Volumes |-> NoEntry]]
  /\ waiting' = [v \in Volumes |->
                   IF \E c \in Calls : waiting[v] = c /\ dead(c)
                   THEN NoCall ELSE waiting[v]]
  /\ UNCHANGED <<storageVars, claim, prov>>

----------------------------------------------------------------------------
Handler(c) ==
  \/ RefuseInProcess(c) \/ PassInProcess(c) \/ Mark(c)
  \/ ListFileset(c) \/ RelistFileset(c) \/ ListLinked(c)
  \/ ListFilesetQuota(c) \/ CheckDir(c) \/ CheckSymLink(c)
  \/ Lookup(c) \/ FilesetAlreadyDeleted(c)
  \/ Submit(c) \/ JobOk(c) \/ JobError(c)

Server(c) ==
  \/ RunCreateFileset(c) \/ RunLinkFileset(c) \/ RunSetFilesetQuota(c)
  \/ RunMakeDirectory(c) \/ RunCreateSymLink(c)
  \/ RunDeleteFileset(c) \/ RunDeleteDirectory(c) \/ RunDeleteSymLnk(c)

Failure(c) ==
  \/ ReadFails(c) \/ SubmitRefused(c) \/ SubmitLost(c)
  \/ PollFails(c) \/ JobFails(c)

Provisioner(v) ==
  \/ \E c \in Calls : IssueCreate(v, c) \/ IssueDelete(v, c)
  \/ Timeout(v)
  \/ Release(v)

\* Every claim has been deleted and nothing is under way any more.
Terminated ==
  /\ \A v \in Volumes : claim[v] = "gone"
  /\ \A c \in Calls : FreeSlot(c)
  /\ UNCHANGED vars

Next ==
  \/ Terminated
  \/ \E c \in Calls : Handler(c) \/ Server(c) \/ Failure(c)
  \/ \E v \in Volumes : Provisioner(v)
  \/ \E d \in Drivers : Crash(d) \/ Failover(d)

Spec == Init /\ [][Next]_vars

\* Goroutines are scheduled, the GUI runs its jobs and the provisioner
\* retries.  Faults and the user's Release are not fair.
Fairness ==
  /\ \A c \in Calls : WF_vars(Handler(c)) /\ WF_vars(Server(c))
  /\ \A v \in Volumes :
       WF_vars(\E c \in Calls : IssueCreate(v, c) \/ IssueDelete(v, c))

FairSpec == Spec /\ Fairness

----------------------------------------------------------------------------
(* Properties.                                                             *)

TypeOK ==
  /\ pc \in [Calls -> Steps]
  /\ req \in [Calls -> Requests \cup {NoReq}]
  /\ job \in [Calls -> Jobs \cup {NoJob}]
  /\ reqmap \in [Drivers -> [Volumes -> Nat \cup {NoEntry}]]
  /\ fset \in [Volumes -> {"absent", "unlinked", "linked"}]
  /\ quota \in [Volumes -> Nat]
  /\ dir \in [Volumes -> BOOLEAN]
  /\ slink \in [Volumes -> BOOLEAN]
  /\ claim \in [Volumes -> {"creating", "bound", "deleting", "gone"}]
  /\ waiting \in [Volumes -> Calls \cup {NoCall}]
  /\ prov \in Drivers
  /\ faults \in 0..MaxFaults

\* Every reqmap entry belongs to a creation still running in that driver.
\* An entry that outlived it would make IfSameVolReqInProcess answer Aborted
\* to every retry until the driver restarts (controllerserver.go:485-498).
NoStaleEntry ==
  \A d \in Drivers, v \in Volumes :
    reqmap[d][v] # NoEntry =>
      \E c \in Calls : /\ pc[c] \in InMap
                       /\ req[c].vol = v
                       /\ req[c].drv = d

\* The pieces of a volume the node plugin needs to publish it.
QuotaSet(v) == quota[v] \in {Listed(s) : s \in Sizes[v]}
HasLink(v) == v \in FilesetVols => fset[v] = "linked"
HasQuota(v) == v \in FilesetVols => 0 \in Sizes[v] \/ QuotaSet(v)

Complete(v) == HasLink(v) /\ HasQuota(v) /\ dir[v] /\ slink[v]

\* A volume reported as created has its fileset linked, its quota set, its
\* directory and its symlink, and keeps them until it is deleted: whatever
\* other attempts at creating it, orphaned jobs, crashes and "return without
\* cleanup" (controllerserver.go:278, 285, 141, 197) left behind.
BoundIsComplete == \A v \in Volumes : claim[v] = "bound" => Complete(v)

\* No step loses a piece of a volume before its deletion is requested, and no
\* late answer brings a released volume back: "no cleanup, next retry might be
\* able" (controllerserver.go:141, 197) is safe because failed attempts take
\* nothing away from the attempts beside and after them.
Kept(v) == claim[v] \in {"creating", "bound"}

Grows ==
  \A v \in Volumes :
    Kept(v)' => /\ Kept(v)
                /\ HasLink(v) => HasLink(v)'
                /\ HasQuota(v) => HasQuota(v)'
                /\ dir[v] => dir'[v]
                /\ slink[v] => slink'[v]

NothingLost == [][Grows]_vars

\* DeleteVolume answered OK: nothing of the volume is left, and no handler or
\* job can bring it back (controllerserver.go:651-674).
Leftovers(v) == fset[v] # "absent" \/ dir[v] \/ slink[v]

GoneIsClean == \A v \in Volumes : claim[v] = "gone" => ~Leftovers(v)

\* A creation never mistakes the fileset an earlier attempt at the same volume
\* made for somebody else's (controllerserver.go:188-191).
OwnFilesetRecognised ==
  \A c \in Calls :
    pc[c] = "ListFilesetQuota" => quota[req[c].vol] \in {0, req[c].size}

\* One creation per volume at a time: what reqmap is there for
\* (controllerserver.go:485-498).
AtMostOneCreation ==
  \A c1, c2 \in Calls :
    c1 # c2 /\ pc[c1] \in InMap /\ pc[c2] \in InMap => req[c1].vol # req[c2].vol

\* Retries converge: a claim is eventually bound, a released one eventually
\* gone, whatever bounded faults happen on the way.
CreationConverges == \A v \in Volumes : (claim[v] = "creating") ~> (claim[v] = "bound")
DeletionConverges == \A v \in Volumes : (claim[v] = "deleting") ~> (claim[v] = "gone")

\* The handlers, the GUI and the provisioner together implement the contract
\* of VolumeContract, as long as no creation is under way when a claim is
\* deleted (LateCreates).
Extent(v) == IF Complete(v) THEN "all"
             ELSE IF Leftovers(v) THEN "some" ELSE "nothing"

Stored == [v \in Volumes |-> Extent(v)]

Contract == INSTANCE VolumeContract WITH life <- claim, stored <- Stored

ContractKept == Contract!Spec
=============================================================================
