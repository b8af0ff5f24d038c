----------------------------- MODULE PluginStart -----------------------------
(***************************************************************************)
(* Start-up of the driver (driver/csiplugin/gpfs.go, PluginInitialize and  *)
(* what it calls): before it serves, every driver makes sure that the      *)
(* primary fileset exists, is linked, and holds the directory for the      *)
(* volumes' symlinks.                                                      *)
(*                                                                         *)
(* The driver is a DaemonSet: its processes start on all nodes at once,    *)
(* and all of them create and link the same fileset through REST jobs of   *)
(* the GUI.  A driver that meets an error exits and is started again; a    *)
(* job the GUI accepted runs on without it.                                *)
(*                                                                         *)
(* Abstractions.  The configuration is valid (PluginInitialize exits on    *)
(* any other before it changes anything), and the GETs before ListFileset, *)
(* which only read configuration, are part of Start.  Paths are names of   *)
(* places; a path on the owning cluster and the same path on the primary   *)
(* cluster (gpfs.go:296-298) are one place.                                *)
(***************************************************************************)
EXTENDS Naturals

CONSTANTS
  Drivers,     \* driver processes, one per node
  Slots,       \* bounds the jobs the GUI holds at a time
  Remote,      \* does another cluster own the primary filesystem?
  Elsewhere,   \* places other than the default one for a link
  ValidLinks,  \* places that agree with SCALE_HOSTPATH
  FaultKinds,  \* the faults a behaviour may contain
  MaxFaults,   \* bound on their number
  NoJob, NoSlot, NoLink

Links      == {"default"} \cup Elsewhere
FsetStates == {"absent", "unlinked"} \cup Links
JobKinds   == {"CreateFileset", "LinkFileset", "MakeDirectory"}
Jobs == [kind : JobKinds, at : Links,
         st : {"running", "linking", "completed", "already", "failed"}]

ASSUME RemoteAssumption == Remote \in BOOLEAN
ASSUME FaultsAssumption == MaxFaults \in Nat
ASSUME SentinelsAssumption ==
  /\ Elsewhere \cap {"default", "absent", "unlinked"} = {}
  /\ NoJob \notin Jobs
  /\ NoSlot \notin Slots
  /\ NoLink \notin Links

VARIABLES
  pc,       \* the step each driver is at; "down", "up"
  link,     \* where it takes the primary fileset to be linked
  mine,     \* the slot of the job it polls
  job,      \* the GUI's jobs
  fset,     \* the primary fileset: absent, unlinked, or the place of its link
  volumes,  \* does it contain the directory .volumes?
  seen,     \* what the primary cluster's GUI knows of the fileset
  refresh,  \* was that GUI told to refresh what it knows?
  faults    \* faults so far

driverVars  == <<pc, link, mine>>
storageVars == <<fset, volumes>>
guiVars     == <<seen, refresh>>
vars == <<driverVars, job, storageVars, guiVars, faults>>

Steps == {"down", "ListFileset", "ListOnPrimary", "RefreshTask",
          "ValidateHostpath", "up"} \cup JobKinds

Init ==
  /\ pc = [n \in Drivers |-> "down"]
  /\ link = [n \in Drivers |-> NoLink]
  /\ mine = [n \in Drivers |-> NoSlot]
  /\ job = [s \in Slots |-> NoJob]
  /\ fset \in FsetStates
  /\ volumes \in IF fset = "absent" THEN {FALSE} ELSE BOOLEAN
  /\ seen = fset
  /\ refresh = FALSE
  /\ faults = 0

Fault(kind) ==
  /\ kind \in FaultKinds
  /\ faults < MaxFaults
  /\ faults' = faults + 1

----------------------------------------------------------------------------
(* A driver.                                                               *)

Goto(n, step) ==
  /\ pc' = [pc EXCEPT ![n] = step]
  /\ UNCHANGED mine

\* glog.Fatalf: the process ends, what it knew is lost.
Exit(n) ==
  /\ pc' = [pc EXCEPT ![n] = "down"]
  /\ link' = [link EXCEPT ![n] = NoLink]
  /\ mine' = [mine EXCEPT ![n] = NoSlot]

Start(n) ==
  /\ pc[n] = "down"
  /\ Goto(n, "ListFileset")
  /\ UNCHANGED <<link, job, storageVars, guiVars, faults>>

\* What follows CreatePrimaryFileset.
AfterFileset == IF Remote THEN "ListOnPrimary" ELSE "ValidateHostpath"

\* Mutant of ListFileset: the path that was listed is kept.
ListFilesetKeepsPath(n) ==
  /\ pc[n] = "ListFileset"
  /\ Goto(n, IF fset = "absent" THEN "CreateFileset"
             ELSE IF fset = "unlinked" THEN "LinkFileset" ELSE AfterFileset)
  /\ link' = [link EXCEPT ![n] = fset]
  /\ UNCHANGED <<job, storageVars, guiVars, faults>>

\* A created or linked fileset is taken to be at newlinkpath, one that is
\* linked already to be where it is.
ListFileset(n) ==
  /\ pc[n] = "ListFileset"
  /\ \/ /\ fset = "absent"
        /\ Goto(n, "CreateFileset")
        /\ link' = [link EXCEPT ![n] = "default"]
     \/ /\ fset = "unlinked"
        /\ Goto(n, "LinkFileset")
        /\ link' = [link EXCEPT ![n] = "default"]
     \/ /\ fset \in Links
        /\ Goto(n, AfterFileset)
        /\ link' = [link EXCEPT ![n] = fset]
  /\ UNCHANGED <<job, storageVars, guiVars, faults>>

\* Any error, not only "not found", makes the driver create the fileset.
ListFilesetFails(n) ==
  /\ pc[n] = "ListFileset"
  /\ Fault("read")
  /\ Goto(n, "CreateFileset")
  /\ link' = [link EXCEPT ![n] = "default"]
  /\ UNCHANGED <<job, storageVars, guiVars>>

\* Mutant of ListOnPrimary: the refresh is left to the GUI.
ListOnPrimaryOnly(n) ==
  /\ pc[n] = "ListOnPrimary"
  /\ Goto(n, "ValidateHostpath")
  /\ UNCHANGED <<link, job, storageVars, guiVars, faults>>

ListOnPrimary(n) ==
  /\ pc[n] = "ListOnPrimary"
  /\ Goto(n, IF seen = "absent" THEN "RefreshTask" ELSE "ValidateHostpath")
  /\ UNCHANGED <<link, job, storageVars, guiVars, faults>>

ListOnPrimaryFails(n) ==
  /\ pc[n] = "ListOnPrimary"
  /\ Fault("read")
  /\ Goto(n, "RefreshTask")
  /\ UNCHANGED <<link, job, storageVars, guiVars>>

\* The task is enqueued; nobody waits for it.
RefreshTask(n) ==
  /\ pc[n] = "RefreshTask"
  /\ Goto(n, "ValidateHostpath")
  /\ refresh' = TRUE
  /\ UNCHANGED <<link, job, storageVars, seen, faults>>

ValidateHostpath(n) ==
  /\ pc[n] = "ValidateHostpath"
  /\ IF link[n] \in ValidLinks
     THEN Goto(n, "MakeDirectory") /\ UNCHANGED link
     ELSE Exit(n)
  /\ UNCHANGED <<job, storageVars, guiVars, faults>>

----------------------------------------------------------------------------
(* REST calls that change something: submit a job, poll it to its end.     *)

Accepted(n, s) ==
  /\ pc[n] \in JobKinds
  /\ mine[n] = NoSlot
  /\ job[s] = NoJob
  /\ job' = [job EXCEPT ![s] = [kind |-> pc[n], at |-> link[n],
                                st |-> "running"]]

Submit(n) ==
  \E s \in Slots :
    /\ Accepted(n, s)
    /\ mine' = [mine EXCEPT ![n] = s]
    /\ UNCHANGED <<pc, link, storageVars, guiVars, faults>>

\* Mutant of JobSucceeded: the outcome of the job is not looked at.
AnyEndSucceeds(j) == j.st \notin {"running", "linking"}

\* Mutant of JobSucceeded: a directory that is there already is an error.
NothingTolerated(j) == j.st = "completed"

\* EFSSP1102C and EFSSG0762C say that the work was already done.
JobSucceeded(j) ==
  \/ j.st = "completed"
  \/ j.st = "already" /\ j.kind \in {"CreateFileset", "MakeDirectory"}

\* The driver reads the end of its job.
JobEnded(n) ==
  /\ mine[n] # NoSlot
  /\ job[mine[n]].st \notin {"running", "linking"}
  /\ job' = [job EXCEPT ![mine[n]] = NoJob]
  /\ UNCHANGED <<storageVars, guiVars, faults>>

JobOk(n) ==
  /\ JobEnded(n)
  /\ JobSucceeded(job[mine[n]])
  /\ pc' = [pc EXCEPT ![n] =
              IF @ = "MakeDirectory" THEN "up" ELSE AfterFileset]
  /\ mine' = [mine EXCEPT ![n] = NoSlot]
  /\ UNCHANGED link

JobError(n) ==
  /\ JobEnded(n)
  /\ ~JobSucceeded(job[mine[n]])
  /\ Exit(n)

----------------------------------------------------------------------------
(* The GUI runs a job.  The end of a job that nobody polls is not kept.    *)

Runs(s, kind, st) ==
  /\ job[s] # NoJob
  /\ job[s].kind = kind
  /\ job[s].st = st
  /\ UNCHANGED <<driverVars, guiVars, faults>>

Polled(s) == \E n \in Drivers : mine[n] = s

Ends(s, st) ==
  job' = [job EXCEPT ![s] = IF Polled(s) THEN [@ EXCEPT !.st = st] ELSE NoJob]

\* The fileset is made first; the same job may then link it.
RunCreateFileset(s) ==
  /\ Runs(s, "CreateFileset", "running")
  /\ \/ /\ fset = "absent"
        /\ fset' = "unlinked"
        /\ \/ job' = [job EXCEPT ![s].st = "linking"]
           \/ Ends(s, "completed")
     \/ /\ fset # "absent"
        /\ UNCHANGED fset
        /\ Ends(s, "already")
  /\ UNCHANGED volumes

\* A fileset can be linked once.
LinkAt(s, place) ==
  \/ /\ fset = "unlinked"
     /\ fset' = place
     /\ Ends(s, "completed")
  \/ /\ fset # "unlinked"
     /\ UNCHANGED fset
     /\ Ends(s, "failed")

RunLinkAfterCreate(s) ==
  /\ Runs(s, "CreateFileset", "linking")
  /\ LinkAt(s, "default")
  /\ UNCHANGED volumes

RunLinkFileset(s) ==
  /\ Runs(s, "LinkFileset", "running")
  /\ LinkAt(s, job[s].at)
  /\ UNCHANGED volumes

\* Without the fileset's link the parent directory does not exist.
RunMakeDirectory(s) ==
  /\ Runs(s, "MakeDirectory", "running")
  /\ IF fset = job[s].at
     THEN /\ volumes' = TRUE
          /\ Ends(s, IF volumes THEN "already" ELSE "completed")
     ELSE UNCHANGED volumes /\ Ends(s, "failed")
  /\ UNCHANGED fset

\* The refresh task, enqueued or one of the GUI's own.
RunRefresh ==
  /\ refresh \/ seen # fset
  /\ seen' = fset
  /\ refresh' = FALSE
  /\ UNCHANGED <<driverVars, job, storageVars, faults>>

----------------------------------------------------------------------------
(* Failures.                                                               *)

\* The GUI refuses a request.
Refused(n) ==
  /\ pc[n] \in JobKinds \cup {"RefreshTask"}
  /\ mine[n] = NoSlot
  /\ Fault("refused")
  /\ Exit(n)
  /\ UNCHANGED <<job, storageVars, guiVars>>

\* The GUI accepts a request and the response is lost.
SubmitLost(n) ==
  /\ Fault("lost")
  /\ \E s \in Slots : Accepted(n, s)
  /\ Exit(n)
  /\ UNCHANGED <<storageVars, guiVars>>

\* What happens to the job of a driver that stops polling.
Orphaned(n) ==
  job' = IF mine[n] # NoSlot /\ job[mine[n]].st \notin {"running", "linking"}
         THEN [job EXCEPT ![mine[n]] = NoJob]
         ELSE job

\* A poll fails, or the process is killed.
Crash(n) ==
  /\ pc[n] # "down"
  /\ Fault("crash")
  /\ Exit(n)
  /\ Orphaned(n)
  /\ UNCHANGED <<storageVars, guiVars>>

\* A job fails halfway or before it began.
JobFails(s) ==
  /\ job[s] # NoJob
  /\ job[s].st \in {"running", "linking"}
  /\ Fault("jobfail")
  /\ Ends(s, "failed")
  /\ UNCHANGED <<driverVars, storageVars, guiVars>>

----------------------------------------------------------------------------

Driver(n) ==
  \/ Start(n) \/ ListFileset(n) \/ ListOnPrimary(n) \/ RefreshTask(n)
  \/ ValidateHostpath(n) \/ Submit(n) \/ JobOk(n) \/ JobError(n)

DriverFails(n) ==
  \/ ListFilesetFails(n) \/ ListOnPrimaryFails(n)
  \/ Refused(n) \/ SubmitLost(n) \/ Crash(n)

Gui(s) ==
  \/ RunCreateFileset(s) \/ RunLinkAfterCreate(s)
  \/ RunLinkFileset(s) \/ RunMakeDirectory(s)

Started ==
  /\ \A n \in Drivers : pc[n] = "up"
  /\ UNCHANGED vars

Next ==
  \/ \E n \in Drivers : Driver(n) \/ DriverFails(n)
  \/ \E s \in Slots : Gui(s) \/ JobFails(s)
  \/ RunRefresh
  \/ Started

Spec == Init /\ [][Next]_vars

\* Drivers run and are started again; the GUI gets to every job.
Fairness ==
  /\ \A n \in Drivers : WF_vars(Driver(n))
  /\ \A s \in Slots : WF_vars(Gui(s))

FairSpec == Spec /\ Fairness

----------------------------------------------------------------------------
(* Properties.                                                             *)

\* Every variable has its type.
TypeOK ==
  /\ pc \in [Drivers -> Steps]
  /\ link \in [Drivers -> Links \cup {NoLink}]
  /\ mine \in [Drivers -> Slots \cup {NoSlot}]
  /\ job \in [Slots -> Jobs \cup {NoJob}]
  /\ fset \in FsetStates
  /\ volumes \in BOOLEAN
  /\ seen \in FsetStates
  /\ refresh \in BOOLEAN
  /\ faults \in 0..MaxFaults

\* A driver that serves knows where the primary fileset is linked, and the
\* directory for the symlinks is there (gpfs.go:307-315), whichever driver
\* made and linked the fileset and whatever failed on the way.
UpIsReady ==
  \A n \in Drivers : pc[n] = "up" => fset = link[n] /\ volumes

\* When another cluster owns the filesystem, the primary cluster's GUI knows
\* the fileset of a driver that serves, or is about to (gpfs.go:283-294).
UpIsVisible ==
  Remote => \A n \in Drivers : pc[n] = "up" => seen # "absent" \/ refresh

\* Drivers and jobs agree, and no two drivers poll one job.
JobInv ==
  /\ \A n \in Drivers : mine[n] # NoSlot =>
       /\ pc[n] \in JobKinds
       /\ job[mine[n]] # NoJob
       /\ job[mine[n]].kind = pc[n]
       /\ job[mine[n]].at = link[n]
  /\ \A m, n \in Drivers : mine[m] = mine[n] /\ mine[n] # NoSlot => m = n

\* Steps of PluginInitialize after CreatePrimaryFileset.
Later == {"ListOnPrimary", "RefreshTask", "ValidateHostpath", "MakeDirectory", "up"}

\* What a driver on its way, or its job that succeeded, has established.
ReachedInv ==
  \A n \in Drivers :
    /\ pc[n] \notin {"down", "ListFileset"} => link[n] \in Links
    /\ pc[n] \in Later \cup {"LinkFileset"} => fset # "absent"
    /\ mine[n] # NoSlot /\ JobSucceeded(job[mine[n]]) =>
         /\ fset # "absent"
         /\ pc[n] = "MakeDirectory" => fset = link[n] /\ volumes
    /\ Remote /\ pc[n] \in {"ValidateHostpath", "MakeDirectory", "up"} =>
         seen # "absent" \/ refresh

\* The inductive invariant: a driver that found or made the fileset keeps
\* what it found, whatever the other drivers do (gpfs.go:277-315).
StartInv ==
  /\ TypeOK
  /\ JobInv
  /\ ReachedInv
  /\ UpIsReady

\* Every driver comes up and stays up once nothing fails any more, unless
\* the fileset is linked at a place that SCALE_HOSTPATH excludes.  Drivers
\* that fail because of what another one did are started again.
AllStart ==
  \A n \in Drivers :
    <>[](fset \in Links \ ValidLinks) \/ <>[](pc[n] = "up")
=============================================================================
