-------------------------- MODULE PluginStartProofs --------------------------
(***************************************************************************)
(* Proofs about PluginStart, for any number of drivers, jobs, places and   *)
(* faults.                                                                 *)
(***************************************************************************)
EXTENDS PluginStart, TLAPS

\* No driver has started: the invariant holds of the first states.
LEMMA InitInv == Init => StartInv
  <1> SUFFICES ASSUME Init PROVE StartInv
    OBVIOUS
  <1>1. TypeOK
    <2>1. volumes \in BOOLEAN /\ seen \in FsetStates
      BY DEF Init
    <2>2. faults \in 0..MaxFaults
      BY FaultsAssumption DEF Init
    <2> QED BY <2>1, <2>2 DEF Init, TypeOK, Steps
  <1>2. JobInv /\ UpIsReady
    BY DEF Init, JobInv, UpIsReady
  <1>3. ReachedInv
    BY DEF Init, ReachedInv, Later
  <1> QED BY <1>1, <1>2, <1>3 DEF StartInv

\* A driver that exits has nothing to keep.
LEMMA ExitInv ==
  ASSUME StartInv, NEW n \in Drivers, Exit(n),
         UNCHANGED <<storageVars, guiVars>>,
         faults' \in 0..MaxFaults,
         job' \in [Slots -> Jobs \cup {NoJob}],
         \A m \in Drivers \ {n} : mine[m] # NoSlot => job'[mine[m]] = job[mine[m]]
  PROVE  StartInv'
  BY SentinelsAssumption
  DEF StartInv, TypeOK, JobInv, ReachedInv, UpIsReady, Exit, JobSucceeded,
      storageVars, guiVars, Steps, JobKinds, Later

\* Steps of a driver that start or end no job.
LEMMA ReadInv ==
  ASSUME StartInv, NEW n \in Drivers,
         \/ Start(n) \/ ListFileset(n) \/ ListFilesetFails(n)
         \/ ListOnPrimary(n) \/ ListOnPrimaryFails(n) \/ RefreshTask(n)
  PROVE  StartInv'
  <1> USE FaultsAssumption, SentinelsAssumption, RemoteAssumption
      DEF StartInv, TypeOK, JobInv, ReachedInv, UpIsReady, JobSucceeded,
          Goto, storageVars, guiVars, Steps, JobKinds, Later, Links,
          FsetStates, AfterFileset, Fault
  <1>1. CASE Start(n)
    BY <1>1 DEF Start
  <1>2. CASE ListFileset(n)
    BY <1>2 DEF ListFileset
  <1>3. CASE ListFilesetFails(n)
    BY <1>3 DEF ListFilesetFails
  <1>4. CASE ListOnPrimary(n)
    BY <1>4 DEF ListOnPrimary
  <1>5. CASE ListOnPrimaryFails(n)
    BY <1>5 DEF ListOnPrimaryFails
  <1>6. CASE RefreshTask(n)
    BY <1>6 DEF RefreshTask
  <1> QED BY <1>1, <1>2, <1>3, <1>4, <1>5, <1>6

\* The hostpath check sends a driver on, or ends it.
LEMMA ValidateHostpathInv ==
  ASSUME StartInv, NEW n \in Drivers, ValidateHostpath(n)
  PROVE  StartInv'
  <1>1. CASE link[n] \in ValidLinks
    BY <1>1, SentinelsAssumption
    DEF ValidateHostpath, StartInv, TypeOK, JobInv, ReachedInv, UpIsReady,
        JobSucceeded, Goto, storageVars, guiVars, Steps, JobKinds, Later
  <1>2. CASE link[n] \notin ValidLinks
    BY <1>2, ExitInv DEF ValidateHostpath, StartInv, TypeOK
  <1> QED BY <1>1, <1>2

\* A job is put into a free slot, which nobody polls.
LEMMA AcceptedInv ==
  ASSUME StartInv, NEW n \in Drivers, NEW s \in Slots, Accepted(n, s)
  PROVE  /\ job' \in [Slots -> Jobs \cup {NoJob}]
         /\ \A m \in Drivers : mine[m] # NoSlot =>
              mine[m] # s /\ job'[mine[m]] = job[mine[m]]
  BY DEF Accepted, StartInv, TypeOK, JobInv, ReachedInv, Jobs, JobKinds

\* A driver submits a job and polls it from now on.
LEMMA SubmitInv ==
  ASSUME StartInv, NEW n \in Drivers, Submit(n)
  PROVE  StartInv'
  <1>1. PICK s \in Slots : /\ Accepted(n, s)
                           /\ mine' = [mine EXCEPT ![n] = s]
                           /\ UNCHANGED <<pc, link, storageVars, guiVars, faults>>
    BY DEF Submit
  <1>2. /\ job' \in [Slots -> Jobs \cup {NoJob}]
        /\ \A m \in Drivers : mine[m] # NoSlot =>
             mine[m] # s /\ job'[mine[m]] = job[mine[m]]
    BY <1>1, AcceptedInv
  <1>3. job'[s] = [kind |-> pc[n], at |-> link[n], st |-> "running"]
        /\ job'[s] # NoJob /\ ~JobSucceeded(job'[s]) /\ pc[n] \in JobKinds
    BY <1>1, SentinelsAssumption
    DEF Accepted, StartInv, TypeOK, ReachedInv, Jobs, JobKinds, JobSucceeded
  <1> QED
    BY <1>1, <1>2, <1>3, SentinelsAssumption
    DEF StartInv, TypeOK, JobInv, ReachedInv, UpIsReady, JobSucceeded,
        storageVars, guiVars, Steps, JobKinds, Later

\* A driver whose job ended frees the slot; no other driver polls it.
LEMMA JobEndedInv ==
  ASSUME StartInv, NEW n \in Drivers, JobEnded(n)
  PROVE  /\ job' \in [Slots -> Jobs \cup {NoJob}]
         /\ \A m \in Drivers \ {n} : mine[m] # NoSlot =>
              job'[mine[m]] = job[mine[m]]
         /\ UNCHANGED <<storageVars, guiVars, faults>>
  BY DEF JobEnded, StartInv, TypeOK, JobInv

\* The directory is there at the end of the last job, the fileset at the end
\* of the others.
LEMMA JobOkInv ==
  ASSUME StartInv, NEW n \in Drivers, JobOk(n)
  PROVE  StartInv'
  <1>1. /\ job' \in [Slots -> Jobs \cup {NoJob}]
        /\ \A m \in Drivers \ {n} : mine[m] # NoSlot =>
             job'[mine[m]] = job[mine[m]]
        /\ UNCHANGED <<storageVars, guiVars, faults>>
    BY JobEndedInv DEF JobOk
  <1>2. pc[n] \in JobKinds /\ mine[n] # NoSlot
    BY DEF JobOk, JobEnded, StartInv, JobInv
  <1> QED
    BY <1>1, <1>2, SentinelsAssumption, RemoteAssumption
    DEF JobOk, AfterFileset, StartInv, TypeOK, JobInv, ReachedInv, UpIsReady,
        JobSucceeded, storageVars, guiVars, Steps, JobKinds, Later

\* What a driver makes of its requests and jobs.
LEMMA DriverInv ==
  ASSUME StartInv, NEW n \in Drivers, Driver(n) \/ DriverFails(n)
  PROVE  StartInv'
  <1>1. CASE JobError(n)
    BY <1>1, JobEndedInv, ExitInv DEF JobError, StartInv, TypeOK
  <1>2. CASE Refused(n)
    BY <1>2, ExitInv, FaultsAssumption DEF Refused, Fault, StartInv, TypeOK
  <1>3. CASE SubmitLost(n)
    <2>1. PICK s \in Slots : Accepted(n, s)
      BY <1>3 DEF SubmitLost
    <2> QED
      BY <1>3, <2>1, AcceptedInv, ExitInv, FaultsAssumption
      DEF SubmitLost, Fault, StartInv, TypeOK
  <1>4. CASE Crash(n)
    <2>1. /\ job' \in [Slots -> Jobs \cup {NoJob}]
          /\ \A m \in Drivers \ {n} : mine[m] # NoSlot =>
               job'[mine[m]] = job[mine[m]]
      BY <1>4 DEF Crash, Orphaned, StartInv, TypeOK, JobInv
    <2> QED
      BY <1>4, <2>1, ExitInv, FaultsAssumption
      DEF Crash, Fault, StartInv, TypeOK
  <1> QED
    BY <1>1, <1>2, <1>3, <1>4, ReadInv, ValidateHostpathInv, SubmitInv, JobOkInv
    DEF Driver, DriverFails

\* What a job does keeps what drivers reached: a fileset once made is not
\* removed, one linked stays linked where it is, the directory stays.
LEMMA GuiStepInv ==
  ASSUME StartInv, NEW s \in Slots,
         job' \in [Slots -> Jobs \cup {NoJob}],
         \A r \in Slots \ {s} : job'[r] = job[r],
         UNCHANGED <<driverVars, guiVars>>,
         faults' \in 0..MaxFaults,
         fset' \in FsetStates, volumes' \in BOOLEAN,
         fset # "absent" => fset' # "absent",
         fset \in Links => fset' = fset,
         volumes => volumes',
         \A n \in Drivers : mine[n] = s =>
           /\ job'[s] # NoJob
           /\ job'[s].kind = job[s].kind
           /\ job'[s].at = job[s].at
           /\ JobSucceeded(job'[s]) =>
                /\ fset' # "absent"
                /\ job[s].kind = "MakeDirectory" => fset' = job[s].at /\ volumes'
  PROVE  StartInv'
  BY SentinelsAssumption
  DEF StartInv, TypeOK, JobInv, ReachedInv, UpIsReady, driverVars, guiVars,
      Later, JobKinds

\* How a job that runs changes: its end is kept for the driver that polls it.
LEMMA EndsInv ==
  ASSUME StartInv, NEW s \in Slots, job[s] # NoJob,
         NEW st \in {"completed", "already", "failed"}, Ends(s, st)
  PROVE  /\ job' \in [Slots -> Jobs \cup {NoJob}]
         /\ \A r \in Slots \ {s} : job'[r] = job[r]
         /\ \A n \in Drivers : mine[n] = s =>
              /\ job'[s] # NoJob
              /\ job'[s].kind = job[s].kind
              /\ job'[s].at = job[s].at
              /\ job'[s].st = st
  <1>1. job[s] \in Jobs
    BY DEF StartInv, TypeOK
  <1>2. [job[s] EXCEPT !.st = st] \in Jobs
    BY <1>1 DEF Jobs
  <1> QED
    BY <1>1, <1>2, SentinelsAssumption DEF Ends, Polled, StartInv, TypeOK, Jobs

\* The GUI's jobs, and a job's failure.
LEMMA GuiInv ==
  ASSUME StartInv, NEW s \in Slots, Gui(s) \/ JobFails(s)
  PROVE  StartInv'
  <1> USE FaultsAssumption DEF StartInv, TypeOK
  <1>0. /\ job[s] # NoJob /\ job[s] \in Jobs
        /\ UNCHANGED <<driverVars, guiVars>> /\ faults' \in 0..MaxFaults
    BY DEF Gui, JobFails, RunCreateFileset, RunLinkAfterCreate, RunLinkFileset,
           RunMakeDirectory, Runs, Fault
  <1>1. CASE RunCreateFileset(s)
    <2>1. /\ job[s].kind = "CreateFileset" /\ UNCHANGED volumes
          /\ fset' # "absent" /\ fset' \in FsetStates
          /\ fset # "absent" => fset' = fset
      BY <1>1 DEF RunCreateFileset, Runs, FsetStates
    <2>2. CASE job' = [job EXCEPT ![s].st = "linking"]
      <3>1. [job[s] EXCEPT !.st = "linking"] \in Jobs
        BY <1>0 DEF Jobs
      <3>2. /\ job' \in [Slots -> Jobs \cup {NoJob}]
            /\ \A r \in Slots \ {s} : job'[r] = job[r]
            /\ job'[s] = [job[s] EXCEPT !.st = "linking"]
        BY <2>2, <3>1
      <3>3. job'[s] # NoJob /\ job'[s].kind = job[s].kind /\ job'[s].at = job[s].at
        BY <1>0, <3>1, <3>2, SentinelsAssumption DEF Jobs
      <3> QED
        BY <1>0, <2>1, <3>2, <3>3, GuiStepInv, SentinelsAssumption DEF Links
    <2>3. CASE Ends(s, "completed") \/ Ends(s, "already")
      BY <1>0, <2>1, <2>3, EndsInv, GuiStepInv, SentinelsAssumption DEF Links
    <2> QED BY <1>1, <2>2, <2>3 DEF RunCreateFileset
  <1>2. ASSUME NEW place \in Links, LinkAt(s, place), UNCHANGED volumes,
               job[s].kind # "MakeDirectory"
        PROVE  StartInv'
    <2>1. /\ fset' \in FsetStates
          /\ fset # "absent" => fset' # "absent"
          /\ fset \in Links => fset' = fset
      BY <1>2, SentinelsAssumption DEF LinkAt, FsetStates, Links
    <2>2. CASE fset' = place /\ Ends(s, "completed")
      BY <1>0, <1>2, <2>1, <2>2, EndsInv, GuiStepInv, SentinelsAssumption DEF Links
    <2>3. CASE Ends(s, "failed")
      <3>1. \A n \in Drivers : mine[n] = s => ~JobSucceeded(job'[s])
        BY <1>0, <2>3, EndsInv DEF JobSucceeded
      <3> QED
        BY <1>0, <1>2, <2>1, <2>3, <3>1, EndsInv, GuiStepInv
    <2> QED BY <1>2, <2>2, <2>3 DEF LinkAt
  <1>3. CASE RunLinkAfterCreate(s)
    BY <1>2, <1>3 DEF RunLinkAfterCreate, Runs, Links
  <1>4. CASE RunLinkFileset(s)
    BY <1>0, <1>2, <1>4 DEF RunLinkFileset, Runs, Jobs
  <1>5. CASE RunMakeDirectory(s)
    <2>1. CASE fset = job[s].at
      <3>1. volumes' = TRUE /\ UNCHANGED fset /\ fset # "absent"
        BY <1>0, <1>5, <2>1, SentinelsAssumption DEF RunMakeDirectory, Jobs, Links
      <3>2. Ends(s, "already") \/ Ends(s, "completed")
        BY <1>5, <2>1 DEF RunMakeDirectory
      <3> QED BY <1>0, <2>1, <3>1, <3>2, EndsInv, GuiStepInv
    <2>2. CASE fset # job[s].at
      <3>1. UNCHANGED <<fset, volumes>> /\ Ends(s, "failed")
        BY <1>5, <2>2 DEF RunMakeDirectory
      <3>2. \A n \in Drivers : mine[n] = s => ~JobSucceeded(job'[s])
        BY <1>0, <3>1, EndsInv DEF JobSucceeded
      <3> QED BY <1>0, <3>1, <3>2, EndsInv, GuiStepInv
    <2> QED BY <2>1, <2>2
  <1>6. CASE JobFails(s)
    <2>1. UNCHANGED <<fset, volumes>> /\ Ends(s, "failed")
      BY <1>6 DEF JobFails, storageVars
    <2>2. \A n \in Drivers : mine[n] = s => ~JobSucceeded(job'[s])
      BY <1>0, <2>1, EndsInv DEF JobSucceeded
    <2> QED BY <1>0, <2>1, <2>2, EndsInv, GuiStepInv
  <1> QED BY <1>1, <1>3, <1>4, <1>5, <1>6 DEF Gui

\* A refresh shows the fileset as it is, and it is there once a driver has
\* passed CreatePrimaryFileset.
LEMMA RefreshInv == ASSUME StartInv, RunRefresh PROVE StartInv'
  BY DEF RunRefresh, StartInv, TypeOK, JobInv, ReachedInv, UpIsReady, Later,
         driverVars, storageVars, JobSucceeded, FsetStates

\* The invariant is inductive.
LEMMA NextInv == StartInv /\ [Next]_vars => StartInv'
  <1> SUFFICES ASSUME StartInv, [Next]_vars PROVE StartInv'
    OBVIOUS
  <1>1. CASE UNCHANGED vars
    BY <1>1 DEF vars, driverVars, storageVars, guiVars, StartInv, TypeOK,
                JobInv, ReachedInv, UpIsReady, JobSucceeded
  <1> QED BY <1>1, DriverInv, GuiInv, RefreshInv DEF Next, Started

\* StartInv holds in every state: no driver, failed start or orphaned job
\* takes away what another driver has established (gpfs.go:277-315).
THEOREM StartInvariance == Spec => []StartInv
  BY InitInv, NextInv, PTL DEF Spec

\* A driver that serves knows the place of the linked primary fileset and
\* finds the directory for the symlinks there.
THEOREM UpReady == Spec => []UpIsReady
  <1>1. StartInv => UpIsReady
    BY DEF StartInv
  <1> QED BY <1>1, StartInvariance, PTL

\* The primary cluster's GUI knows the fileset of a driver that serves, or
\* is about to refresh what it knows.
THEOREM UpVisible == Spec => []UpIsVisible
  <1>1. StartInv => UpIsVisible
    BY DEF StartInv, ReachedInv, UpIsVisible
  <1> QED BY <1>1, StartInvariance, PTL

\* Drivers, the filesystem and the jobs of the GUIs have their types.
THEOREM TypeCorrect == Spec => []TypeOK
  <1>1. StartInv => TypeOK
    BY DEF StartInv
  <1> QED BY <1>1, StartInvariance, PTL
=============================================================================
