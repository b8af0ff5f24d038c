----------------------- MODULE VolumeControllerProofs -----------------------
(* Theorems of VolumeController for every value of its constants.          *)
EXTENDS VolumeInvariant, Integers, TLAPS

----------------------------------------------------------------------------
(* How the GUI lists a quota.                                              *)

\* A remainder is less than the divisor ...
LEMMA ModuloRange ==
  ASSUME NEW n \in Int, NEW k \in Int, k > 0
  PROVE  n % k \in 0..(k - 1)
<1>1. n % k \in Int
  BY SMT
<1>2. n % k >= 0
  BY SMT
<1>3. n % k < k
  BY SMT
<1> QED
  BY <1>1, <1>2, <1>3

\* ... and what is left over.
LEMMA Division ==
  ASSUME NEW n \in Int, NEW k \in Int, k > 0
  PROVE  n \div k \in Int /\ n % k = n - k * (n \div k)
<1>1. n \div k \in Int
  BY SMT
<1>2. n % k = n - k * (n \div k)
  BY SMT
<1> QED
  BY <1>1, <1>2

\* A quota is listed in whole units of KB, as the next such number: at most
\* one unit more than was asked for, never less.
LEMMA ListedRounds ==
  ASSUME NEW s \in Nat
  PROVE  /\ \E q \in Int : Listed(s) = KB * q
         /\ Listed(s) \in Nat
         /\ s <= Listed(s) /\ Listed(s) < s + KB
<1> DEFINE n == s + KB - 1
           q == n \div KB
<1>1. KB \in Int /\ KB > 0 /\ n \in Int
  BY KBAssumption
<1>2. n % KB \in 0..(KB - 1)
  BY <1>1, ModuloRange
<1>3. q \in Int /\ n % KB = n - KB * q
  BY <1>1, Division
<1>4. Listed(s) = KB * q
  BY DEF Listed
<1> HIDE DEF q
<1> QED
  BY <1>1, <1>2, <1>3, <1>4

\* Multiples of KB are at least KB apart.
LEMMA MultiplesApart ==
  ASSUME NEW p \in Int, NEW q \in Int, KB * p < KB * q + KB
  PROVE  p <= q
<1> SUFFICES ASSUME q + 1 <= p PROVE FALSE
  OBVIOUS
<1>1. KB * (q + 1) <= KB * p
  BY KBAssumption
<1> QED
  BY <1>1, KBAssumption

\* A size is listed as it is exactly if it is a multiple of KB.
LEMMA ListedExact ==
  ASSUME NEW s \in Nat, NEW t \in Nat
  PROVE  /\ Listed(s) = t => t % KB = 0
         /\ s % KB = 0 => Listed(s) = s
<1>0. KB \in Int /\ KB > 0
  BY KBAssumption
<1>1. PICK q \in Int : Listed(s) = KB * q
  BY ListedRounds
<1>2. ASSUME Listed(s) = t PROVE t % KB = 0
  <2>1. PICK p \in Int : t % KB = t - KB * p
    BY <1>0, Division
  <2>2. t % KB \in 0..(KB - 1)
    BY <1>0, ModuloRange
  <2>3. p <= q /\ q <= p
    BY <1>0, <1>1, <1>2, <2>1, <2>2, MultiplesApart
  <2> QED
    BY <1>1, <1>2, <2>1, <2>3
<1>3. ASSUME s % KB = 0 PROVE Listed(s) = s
  <2>1. PICK p \in Int : s % KB = s - KB * p
    BY <1>0, Division
  <2>2. s = KB * p
    <3>1. KB * p \in Int /\ s - KB * p = 0
      BY <1>0, <1>3, <2>1
    <3> QED
      BY <3>1
  <2>3. KB * p < KB * q + KB /\ KB * q < KB * p + KB
    <3>1. /\ Listed(s) \in Nat
          /\ s <= Listed(s) /\ Listed(s) < s + KB
      BY ListedRounds
    <3> QED
      BY <1>0, <1>1, <2>2, <3>1
  <2>4. p = q
    <3>1. p <= q /\ q <= p
      BY <2>3, MultiplesApart
    <3> QED
      BY <3>1
  <2> QED
    BY <1>1, <2>2, <2>4
<1> QED
  BY <1>2, <1>3

----------------------------------------------------------------------------
(* Type correctness.  The shared parts of the actions first.               *)

\* A handler that moves on is at a step of its protocol.
LEMMA ProceedType ==
  ASSUME TypeOK, NEW c \in Calls, NEW step \in Steps, Proceed(c, step)
  PROVE  /\ pc' \in [Calls -> Steps]
         /\ UNCHANGED <<req, reqmap, claim, waiting, prov>>
  BY DEF TypeOK, Proceed, Goto, clientVars

\* What a handler that returns leaves behind.
LEMMA ReturnType ==
  ASSUME TypeOK, NEW c \in Calls, req[c] \in Requests, NEW code, Return(c, code)
  PROVE  /\ pc' \in [Calls -> Steps]
         /\ req' \in [Calls -> Requests \cup {NoReq}]
         /\ reqmap' \in [Drivers -> [Volumes -> Nat \cup {NoEntry}]]
         /\ claim' \in [Volumes -> {"creating", "bound", "deleting", "gone"}]
         /\ waiting' \in [Volumes -> Calls \cup {NoCall}]
         /\ prov' = prov
<1> USE DEF TypeOK, Return, Requests
<1>1. pc' \in [Calls -> Steps]
  BY DEF Goto, Steps
<1>2. req' \in [Calls -> Requests \cup {NoReq}]
  OBVIOUS
<1>3. reqmap' \in [Drivers -> [Volumes -> Nat \cup {NoEntry}]]
  BY DEF Unmark
<1>4. /\ claim' \in [Volumes -> {"creating", "bound", "deleting", "gone"}]
      /\ waiting' \in [Volumes -> Calls \cup {NoCall}]
  BY DEF Answer
<1> QED
  BY <1>1, <1>2, <1>3, <1>4

\* A job that has ended is a job.
LEMMA EndsType ==
  ASSUME TypeOK, NEW c \in Calls, job[c] # NoJob,
         NEW st \in {"running", "completed", "already", "failed"}, Ends(c, st)
  PROVE  job' \in [Calls -> Jobs \cup {NoJob}]
  BY DEF TypeOK, Ends, Jobs

\* An accepted request gets a job.
LEMMA AcceptedType ==
  ASSUME TypeOK, NEW c \in Calls, req[c] \in Requests, Accepted(c)
  PROVE  job' \in [Calls -> Jobs \cup {NoJob}]
  BY DEF TypeOK, Accepted, Jobs, Requests

\* The bound on faults is kept.
LEMMA FaultType ==
  ASSUME TypeOK, NEW kind, Fault(kind)
  PROVE  faults' \in 0..MaxFaults
  BY FaultsAssumption DEF TypeOK, Fault

\* A handler that is at a step serves a request.
LEMMA Served ==
  ASSUME TypeOK, SlotInv, NEW c \in Calls, pc[c] # "idle"
  PROVE  req[c] \in Requests
  BY DEF TypeOK, SlotInv, Active

\* A job in flight is a job.
LEMMA JobsTyped ==
  ASSUME TypeOK, NEW c \in Calls, job[c] # NoJob
  PROVE  job[c] \in Jobs
  BY DEF TypeOK

\* Every step keeps the types.
LEMMA TypeStep ==
  ASSUME TypeOK, SlotInv, [Next]_vars
  PROVE  TypeOK'
<1> USE DEF TypeOK, handlerVars, storageVars, clientVars
<1>1. ASSUME NEW c \in Calls, Handler(c) PROVE TypeOK'
  <2>1. CASE RefuseInProcess(c)
    BY <1>1, <2>1, Served, ProceedType, ReturnType DEF RefuseInProcess,
      Steps, Reads, CreateReads, JobKinds, CreateJobs, DeleteJobs
  <2>2. CASE PassInProcess(c)
    BY <1>1, <2>2, Served, ProceedType, ReturnType DEF PassInProcess,
      Steps, Reads, CreateReads, JobKinds, CreateJobs, DeleteJobs
  <2>3. CASE Mark(c)
    BY <1>1, <2>3, Served, ProceedType, ReturnType DEF Mark, Steps, Reads,
      CreateReads, JobKinds, CreateJobs, DeleteJobs, Goto, Requests
  <2>4. CASE ListFileset(c)
    BY <1>1, <2>4, Served, ProceedType, ReturnType DEF ListFileset, Steps,
      Reads, CreateReads, JobKinds, CreateJobs, DeleteJobs, AfterList,
      AfterLink
  <2>5. CASE RelistFileset(c)
    BY <1>1, <2>5, Served, ProceedType, ReturnType DEF RelistFileset,
      Steps, Reads, CreateReads, JobKinds, CreateJobs, DeleteJobs,
      AfterList, AfterLink
  <2>6. CASE ListLinked(c)
    BY <1>1, <2>6, Served, ProceedType, ReturnType DEF ListLinked, Steps,
      Reads, CreateReads, JobKinds, CreateJobs, DeleteJobs, AfterLink
  <2>7. CASE ListFilesetQuota(c)
    BY <1>1, <2>7, Served, ProceedType, ReturnType DEF ListFilesetQuota,
      Steps, Reads, CreateReads, JobKinds, CreateJobs, DeleteJobs
  <2>8. CASE CheckDir(c)
    BY <1>1, <2>8, Served, ProceedType, ReturnType DEF CheckDir, Steps,
      Reads, CreateReads, JobKinds, CreateJobs, DeleteJobs
  <2>9. CASE CheckSymLink(c)
    BY <1>1, <2>9, Served, ProceedType, ReturnType DEF CheckSymLink, Steps,
      Reads, CreateReads, JobKinds, CreateJobs, DeleteJobs
  <2>10. CASE Lookup(c)
    BY <1>1, <2>10, Served, ProceedType, ReturnType DEF Lookup, Steps,
      Reads, CreateReads, JobKinds, CreateJobs, DeleteJobs
  <2>11. CASE FilesetAlreadyDeleted(c)
    BY <1>1, <2>11, Served, ProceedType, ReturnType DEF
      FilesetAlreadyDeleted, Steps, Reads, CreateReads, JobKinds,
      CreateJobs, DeleteJobs
  <2>12. CASE Submit(c)
    BY <1>1, <2>12, Served, AcceptedType DEF Submit, Steps, Reads,
      CreateReads, JobKinds, CreateJobs, DeleteJobs, Accepted
  <2>13. CASE JobOk(c)
    BY <1>1, <2>13, Served, ProceedType, ReturnType DEF JobOk, JobEnded,
      AfterJob, Steps, Reads, CreateReads, JobKinds, CreateJobs,
      DeleteJobs, Jobs, SlotInv, Active, InFlight
  <2>14. CASE JobError(c)
    BY <1>1, <2>14, Served, ProceedType, ReturnType DEF JobError, JobEnded
  <2> QED
    BY <1>1, <2>1, <2>2, <2>3, <2>4, <2>5, <2>6, <2>7, <2>8, <2>9, <2>10,
      <2>11, <2>12, <2>13, <2>14 DEF Handler
<1>2. ASSUME NEW c \in Calls, Server(c) PROVE TypeOK'
  <2>1. CASE RunCreateFileset(c)
    BY <1>2, <2>1, EndsType, JobsTyped DEF RunCreateFileset, Runs, Jobs
  <2>2. CASE RunLinkFileset(c)
    BY <1>2, <2>2, EndsType, JobsTyped DEF RunLinkFileset, Runs, Jobs
  <2>3. CASE RunSetFilesetQuota(c)
    BY <1>2, <2>3, EndsType, JobsTyped, ListedRounds DEF RunSetFilesetQuota,
      Runs, Jobs
  <2>4. CASE RunMakeDirectory(c)
    BY <1>2, <2>4, EndsType, JobsTyped DEF RunMakeDirectory, Runs, Jobs
  <2>5. CASE RunCreateSymLink(c)
    BY <1>2, <2>5, EndsType, JobsTyped DEF RunCreateSymLink, Runs, Jobs
  <2>6. CASE RunDeleteFileset(c)
    <3>1. job' \in [Calls -> Jobs \cup {NoJob}]
      BY <1>2, <2>6, EndsType DEF RunDeleteFileset, Runs
    <3>2. UNCHANGED <<pc, req, reqmap, slink, clientVars, faults>>
      BY <1>2, <2>6 DEF RunDeleteFileset, Runs
    <3>3. fset' \in [Volumes -> {"absent", "unlinked", "linked"}]
      BY <1>2, <2>6 DEF RunDeleteFileset
    <3>4. quota' \in [Volumes -> Nat]
      BY <1>2, <2>6 DEF RunDeleteFileset
    <3>5. dir' \in [Volumes -> BOOLEAN]
      BY <1>2, <2>6 DEF RunDeleteFileset
    <3> QED
      BY <3>1, <3>2, <3>3, <3>4, <3>5
  <2>7. CASE RunDeleteDirectory(c)
    BY <1>2, <2>7, EndsType, JobsTyped DEF RunDeleteDirectory, Runs, Jobs
  <2>8. CASE RunDeleteSymLnk(c)
    BY <1>2, <2>8, EndsType, JobsTyped DEF RunDeleteSymLnk, Runs, Jobs
  <2> QED
    BY <1>2, <2>1, <2>2, <2>3, <2>4, <2>5, <2>6, <2>7, <2>8 DEF Server
<1>3. ASSUME NEW c \in Calls, Failure(c) PROVE TypeOK'
  <2>1. CASE ReadFails(c)
    BY <1>3, <2>1, Served, ReturnType, FaultType DEF ReadFails, Steps,
      Reads, CreateReads, JobKinds, CreateJobs, DeleteJobs
  <2>2. CASE SubmitRefused(c)
    BY <1>3, <2>2, Served, ReturnType, FaultType DEF SubmitRefused, Steps,
      Reads, CreateReads, JobKinds, CreateJobs, DeleteJobs
  <2>3. CASE SubmitLost(c)
    BY <1>3, <2>3, Served, ReturnType, AcceptedType, FaultType DEF
      SubmitLost, Steps, Reads, CreateReads, JobKinds, CreateJobs,
      DeleteJobs, Accepted
  <2>4. CASE PollFails(c)
    BY <1>3, <2>4, Served, ReturnType, FaultType DEF PollFails, Steps,
      Reads, CreateReads, JobKinds, CreateJobs, DeleteJobs
  <2>5. CASE JobFails(c)
    BY <1>3, <2>5, EndsType, FaultType DEF JobFails, Steps, Reads,
      CreateReads, JobKinds, CreateJobs, DeleteJobs
  <2> QED
    BY <1>3, <2>1, <2>2, <2>3, <2>4, <2>5 DEF Failure
<1>4. ASSUME NEW v \in Volumes, NEW c \in Calls, IssueCreate(v, c)
      PROVE  TypeOK'
  <2>1. PICK s \in Sizes[v] : Issue(v, c, "create", s, "InProcess")
    BY <1>4 DEF IssueCreate
  <2>2. s \in Nat
    BY SizesAssumption
  <2> QED
    BY <2>1, <2>2 DEF Issue, Goto, Requests, Steps, Reads
<1>5. ASSUME NEW v \in Volumes, NEW c \in Calls, IssueDelete(v, c)
      PROVE  TypeOK'
  BY <1>5 DEF IssueDelete, Issue, Goto, Requests, Steps, Reads
<1>6. ASSUME NEW v \in Volumes, Timeout(v) PROVE TypeOK'
  BY <1>6, FaultType DEF Timeout
<1>7. ASSUME NEW v \in Volumes, Release(v) PROVE TypeOK'
  BY <1>7 DEF Release
<1>8. ASSUME NEW d \in Drivers, Crash(d) PROVE TypeOK'
  BY <1>8, FaultType DEF Crash, Steps, Reads, CreateReads, JobKinds,
    CreateJobs, DeleteJobs
<1>9. ASSUME NEW d \in Drivers, Failover(d) PROVE TypeOK'
  BY <1>9, FaultType DEF Failover
<1>10. CASE UNCHANGED vars
  BY <1>10 DEF vars
<1> QED
  BY <1>1, <1>2, <1>3, <1>4, <1>5, <1>6, <1>7, <1>8, <1>9, <1>10 DEF Next,
    Provisioner, Terminated

----------------------------------------------------------------------------
(* Slots.                                                                  *)

\* A handler at a GET has no job, and its step fits its request.
LEMMA AtRead ==
  ASSUME TypeOK, SlotInv, NEW c \in Calls, pc[c] \in Reads \cup {"Mark"}
  PROVE  /\ pc[c] # "idle"
         /\ job[c] = NoJob
         /\ req[c].op \in {"create", "delete"}
         /\ pc[c] \in CreateSteps <=> req[c].op = "create"
  BY DEF TypeOK, SlotInv, Active, InFlight, Reads, CreateReads, Jobs, JobKinds,
         Requests, CreateJobs, DeleteJobs, CreateSteps, InMap, DeleteSteps

\* A handler that moves to a step of its own RPC fits its request.
LEMMA ProceedSlot ==
  ASSUME TypeOK, SlotInv, NEW c \in Calls, NEW step,
         pc[c] # "idle", job[c] = NoJob, UNCHANGED job, Proceed(c, step),
         \/ /\ req[c].op = "create" /\ step \in CreateSteps
            /\ step \in {"ListFilesetQuota", "SetFilesetQuota"} =>
                 req[c].size # 0
         \/ req[c].op = "delete" /\ step \in DeleteSteps
  PROVE  SlotInv'
  BY DEF TypeOK, SlotInv, Active, InFlight, Proceed, Goto, CreateSteps, InMap,
         CreateReads, CreateJobs, DeleteSteps, DeleteJobs

\* A handler that returns frees its slot.
LEMMA ReturnSlot ==
  ASSUME TypeOK, SlotInv, NEW c \in Calls, NEW code,
         pc[c] # "idle", job[c] = NoJob, UNCHANGED job, Return(c, code)
  PROVE  SlotInv'
  BY DEF TypeOK, SlotInv, Active, InFlight, Return, Goto

\* Every step keeps handlers, requests and jobs in agreement.
LEMMA SlotStep ==
  ASSUME TypeOK, TypeOK', SlotInv, [Next]_vars
  PROVE  SlotInv'
<1> USE DEF TypeOK, handlerVars, storageVars, clientVars
<1>1. ASSUME NEW c \in Calls, Handler(c) PROVE SlotInv'
  <2>1. CASE RefuseInProcess(c)
    BY <1>1, <2>1, AtRead, ProceedSlot, ReturnSlot DEF RefuseInProcess,
      Reads, CreateReads, CreateSteps, InMap, CreateJobs, DeleteSteps,
      DeleteJobs
  <2>2. CASE PassInProcess(c)
    BY <1>1, <2>2, AtRead, ProceedSlot, ReturnSlot DEF PassInProcess,
      Reads, CreateReads, CreateSteps, InMap, CreateJobs, DeleteSteps,
      DeleteJobs
  <2>3. CASE Mark(c)
    BY <1>1, <2>3, SentinelsAssumption DEF Mark, SlotInv, Active, InFlight,
      Steps, JobKinds, Requests, Jobs, Goto, Proceed, Return, Reads,
      CreateReads, CreateSteps, InMap, CreateJobs, DeleteSteps, DeleteJobs
  <2>4. CASE ListFileset(c)
    BY <1>1, <2>4, AtRead, ProceedSlot, ReturnSlot DEF ListFileset,
      AfterList, AfterLink, Reads, CreateReads, CreateSteps, InMap,
      CreateJobs, DeleteSteps, DeleteJobs
  <2>5. CASE RelistFileset(c)
    BY <1>1, <2>5, AtRead, ProceedSlot, ReturnSlot DEF RelistFileset,
      AfterList, AfterLink, Reads, CreateReads, CreateSteps, InMap,
      CreateJobs, DeleteSteps, DeleteJobs
  <2>6. CASE ListLinked(c)
    BY <1>1, <2>6, AtRead, ProceedSlot, ReturnSlot DEF ListLinked,
      AfterLink, Reads, CreateReads, CreateSteps, InMap, CreateJobs,
      DeleteSteps, DeleteJobs
  <2>7. CASE ListFilesetQuota(c)
    <3>1. req[c].size # 0
      BY <1>1, <2>7 DEF SlotInv, ListFilesetQuota
    <3> QED
      BY <1>1, <2>7, <3>1, AtRead, ProceedSlot, ReturnSlot
      DEF ListFilesetQuota, Reads,
        CreateReads, CreateSteps, InMap, CreateJobs
  <2>8. CASE CheckDir(c)
    BY <1>1, <2>8, AtRead, ProceedSlot, ReturnSlot DEF CheckDir, Reads,
      CreateReads, CreateSteps, InMap, CreateJobs, DeleteSteps, DeleteJobs
  <2>9. CASE CheckSymLink(c)
    BY <1>1, <2>9, AtRead, ProceedSlot, ReturnSlot DEF CheckSymLink, Reads,
      CreateReads, CreateSteps, InMap, CreateJobs, DeleteSteps, DeleteJobs
  <2>10. CASE Lookup(c)
    BY <1>1, <2>10, AtRead, ProceedSlot, ReturnSlot DEF Lookup, Reads,
      CreateReads, CreateSteps, InMap, CreateJobs, DeleteSteps, DeleteJobs
  <2>11. CASE FilesetAlreadyDeleted(c)
    BY <1>1, <2>11, SentinelsAssumption DEF FilesetAlreadyDeleted, SlotInv,
      Active, InFlight, Steps, JobKinds, Requests, Jobs, Goto, Proceed,
      Return, Reads, CreateReads, CreateSteps, InMap, CreateJobs,
      DeleteSteps, DeleteJobs
  <2>12. CASE Submit(c)
    BY <1>1, <2>12, SentinelsAssumption DEF Submit, Accepted, SlotInv,
      Active, InFlight, Steps, JobKinds, Requests, Jobs, Goto, Proceed,
      Return, Reads, CreateReads, CreateSteps, InMap, CreateJobs,
      DeleteSteps, DeleteJobs
  <2>13. CASE JobOk(c)
    BY <1>1, <2>13, SentinelsAssumption DEF JobOk, JobEnded, JobSucceeded,
      AfterJob, SlotInv, Active, InFlight, Steps, JobKinds, Requests, Jobs,
      Goto, Proceed, Return, Reads, CreateReads, CreateSteps, InMap,
      CreateJobs, DeleteSteps, DeleteJobs
  <2>14. CASE JobError(c)
    BY <1>1, <2>14, SentinelsAssumption DEF JobError, JobEnded,
      JobSucceeded, SlotInv, Active, InFlight, Steps, JobKinds, Requests,
      Jobs, Goto, Proceed, Return, Reads, CreateReads, CreateSteps, InMap,
      CreateJobs, DeleteSteps, DeleteJobs
  <2> QED
    BY <1>1, <2>1, <2>2, <2>3, <2>4, <2>5, <2>6, <2>7, <2>8, <2>9, <2>10,
      <2>11, <2>12, <2>13, <2>14 DEF Handler
<1>2. ASSUME NEW c \in Calls, Server(c) PROVE SlotInv'
  <2>1. CASE RunCreateFileset(c)
    BY <1>2, <2>1, SentinelsAssumption DEF RunCreateFileset, Runs, Ends,
      SlotInv, Active, InFlight, Steps, JobKinds, Requests, Jobs, Goto,
      Proceed, Return, Reads, CreateReads, CreateSteps, InMap, CreateJobs,
      DeleteSteps, DeleteJobs
  <2>2. CASE RunLinkFileset(c)
    BY <1>2, <2>2, SentinelsAssumption DEF RunLinkFileset, Runs, Ends,
      SlotInv, Active, InFlight, Steps, JobKinds, Requests, Jobs, Goto,
      Proceed, Return, Reads, CreateReads, CreateSteps, InMap, CreateJobs,
      DeleteSteps, DeleteJobs
  <2>3. CASE RunSetFilesetQuota(c)
    <3>1. /\ InFlight(c)
         /\ \E st : Ends(c, st)
         /\ UNCHANGED <<pc, req>>
      BY <1>2, <2>3 DEF RunSetFilesetQuota, Runs, InFlight
    <3> QED
      BY <3>1, SentinelsAssumption DEF SlotInv, Active, InFlight, Ends, Jobs
  <2>4. CASE RunMakeDirectory(c)
    BY <1>2, <2>4, SentinelsAssumption DEF RunMakeDirectory, Runs, Ends,
      SlotInv, Active, InFlight, Steps, JobKinds, Requests, Jobs, Goto,
      Proceed, Return, Reads, CreateReads, CreateSteps, InMap, CreateJobs,
      DeleteSteps, DeleteJobs
  <2>5. CASE RunCreateSymLink(c)
    BY <1>2, <2>5, SentinelsAssumption DEF RunCreateSymLink, Runs, Ends,
      SlotInv, Active, InFlight, Steps, JobKinds, Requests, Jobs, Goto,
      Proceed, Return, Reads, CreateReads, CreateSteps, InMap, CreateJobs,
      DeleteSteps, DeleteJobs
  <2>6. CASE RunDeleteFileset(c)
    BY <1>2, <2>6, SentinelsAssumption DEF RunDeleteFileset, Runs, Ends,
      SlotInv, Active, InFlight, Steps, JobKinds, Requests, Jobs, Goto,
      Proceed, Return, Reads, CreateReads, CreateSteps, InMap, CreateJobs,
      DeleteSteps, DeleteJobs
  <2>7. CASE RunDeleteDirectory(c)
    BY <1>2, <2>7, SentinelsAssumption DEF RunDeleteDirectory, Runs, Ends,
      SlotInv, Active, InFlight, Steps, JobKinds, Requests, Jobs, Goto,
      Proceed, Return, Reads, CreateReads, CreateSteps, InMap, CreateJobs,
      DeleteSteps, DeleteJobs
  <2>8. CASE RunDeleteSymLnk(c)
    BY <1>2, <2>8, SentinelsAssumption DEF RunDeleteSymLnk, Runs, Ends,
      SlotInv, Active, InFlight, Steps, JobKinds, Requests, Jobs, Goto,
      Proceed, Return, Reads, CreateReads, CreateSteps, InMap, CreateJobs,
      DeleteSteps, DeleteJobs
  <2> QED
    BY <1>2, <2>1, <2>2, <2>3, <2>4, <2>5, <2>6, <2>7, <2>8 DEF Server
<1>3. ASSUME NEW c \in Calls, Failure(c) PROVE SlotInv'
  <2>1. CASE ReadFails(c)
    BY <1>3, <2>1, AtRead, ProceedSlot, ReturnSlot DEF ReadFails, Reads,
      CreateReads, CreateSteps, InMap, CreateJobs, DeleteSteps, DeleteJobs
  <2>2. CASE SubmitRefused(c)
    BY <1>3, <2>2, SentinelsAssumption DEF SubmitRefused, SlotInv, Active,
      InFlight, Steps, JobKinds, Requests, Jobs, Goto, Proceed, Return,
      Reads, CreateReads, CreateSteps, InMap, CreateJobs, DeleteSteps,
      DeleteJobs
  <2>3. CASE SubmitLost(c)
    BY <1>3, <2>3, SentinelsAssumption DEF SubmitLost, Accepted, SlotInv,
      Active, InFlight, Steps, JobKinds, Requests, Jobs, Goto, Proceed,
      Return, Reads, CreateReads, CreateSteps, InMap, CreateJobs,
      DeleteSteps, DeleteJobs
  <2>4. CASE PollFails(c)
    BY <1>3, <2>4, SentinelsAssumption DEF PollFails, SlotInv, Active,
      InFlight, Steps, JobKinds, Requests, Jobs, Goto, Proceed, Return,
      Reads, CreateReads, CreateSteps, InMap, CreateJobs, DeleteSteps,
      DeleteJobs
  <2>5. CASE JobFails(c)
    BY <1>3, <2>5, SentinelsAssumption DEF JobFails, Ends, SlotInv, Active,
      InFlight, Steps, JobKinds, Requests, Jobs, Goto, Proceed, Return,
      Reads, CreateReads, CreateSteps, InMap, CreateJobs, DeleteSteps,
      DeleteJobs
  <2> QED
    BY <1>3, <2>1, <2>2, <2>3, <2>4, <2>5 DEF Failure
<1>4. ASSUME NEW v \in Volumes, NEW c \in Calls, IssueCreate(v, c)
      PROVE  SlotInv'
  <2>1. PICK s \in Sizes[v] : Issue(v, c, "create", s, "InProcess")
    BY <1>4 DEF IssueCreate
  <2>2. s \in Nat
    BY SizesAssumption
  <2> QED
    BY <2>1, <2>2, SentinelsAssumption DEF Issue, FreeSlot, SlotInv, Active,
      InFlight, Goto, Requests, CreateSteps
<1>5. ASSUME NEW v \in Volumes, NEW c \in Calls, IssueDelete(v, c)
      PROVE  SlotInv'
  BY <1>5, SentinelsAssumption DEF IssueDelete, Issue, FreeSlot, SlotInv,
    Active, InFlight, Steps, JobKinds, Requests, Jobs, Goto, Proceed,
    Return, Reads, CreateReads, CreateSteps, InMap, CreateJobs,
    DeleteSteps, DeleteJobs
<1>6. ASSUME NEW v \in Volumes, Timeout(v) PROVE SlotInv'
  BY <1>6 DEF Timeout, SlotInv, Active, InFlight, Steps, JobKinds,
    Requests, Jobs, Goto, Proceed, Return, Reads, CreateReads, CreateSteps,
    InMap, CreateJobs, DeleteSteps, DeleteJobs
<1>7. ASSUME NEW v \in Volumes, Release(v) PROVE SlotInv'
  BY <1>7 DEF Release, SlotInv, Active, InFlight, Steps, JobKinds,
    Requests, Jobs, Goto, Proceed, Return, Reads, CreateReads, CreateSteps,
    InMap, CreateJobs, DeleteSteps, DeleteJobs
<1>8. ASSUME NEW d \in Drivers, Crash(d) PROVE SlotInv'
  BY <1>8, SentinelsAssumption DEF Crash, SlotInv, Active, InFlight, Steps,
    JobKinds, Requests, Jobs, Goto, Proceed, Return, Reads, CreateReads,
    CreateSteps, InMap, CreateJobs, DeleteSteps, DeleteJobs
<1>9. ASSUME NEW d \in Drivers, Failover(d) PROVE SlotInv'
  BY <1>9 DEF Failover, SlotInv, Active, InFlight, Steps, JobKinds,
    Requests, Jobs, Goto, Proceed, Return, Reads, CreateReads, CreateSteps,
    InMap, CreateJobs, DeleteSteps, DeleteJobs
<1>10. CASE UNCHANGED vars
  BY <1>10 DEF vars, SlotInv, Active, InFlight
<1> QED
  BY <1>1, <1>2, <1>3, <1>4, <1>5, <1>6, <1>7, <1>8, <1>9, <1>10 DEF Next,
    Provisioner, Terminated

----------------------------------------------------------------------------
(* The call waited for.                                                    *)

\* A return changes a claim only if the provisioner waits for this very call.
LEMMA ReturnClaim ==
  ASSUME TypeOK, SlotInv, WaitInv, NEW c \in Calls, req[c] \in Requests,
         NEW code, Return(c, code), NEW v \in Volumes
  PROVE  /\ \/ claim'[v] = claim[v]
            \/ /\ code = "OK" /\ v = req[c].vol
               /\ \/ /\ req[c].op = "create"
                     /\ claim[v] = "creating" /\ claim'[v] = "bound"
                  \/ /\ req[c].op = "delete"
                     /\ claim[v] = "deleting" /\ claim'[v] = "gone"
         /\ waiting'[v] = NoCall \/ (waiting'[v] = waiting[v] /\ waiting[v] # c
                                      /\ claim'[v] = claim[v])
<1>1. waiting[v] = c => v = req[c].vol
  BY DEF WaitInv
<1>2. CASE waiting[req[c].vol] = c
  <2>1. /\ c # NoCall
        /\ req[c].vol \in Volumes
    BY SentinelsAssumption DEF Requests
  <2>2. \/ req[c].op = "create" /\ claim[req[c].vol] = "creating"
        \/ req[c].op = "delete" /\ claim[req[c].vol] = "deleting"
    BY <1>2, <2>1 DEF WaitInv
  <2> QED
    BY <1>1, <1>2, <2>1, <2>2 DEF TypeOK, Return, Answer
<1>3. CASE waiting[req[c].vol] # c
  BY <1>1, <1>3 DEF TypeOK, Return, Answer
<1> QED
  BY <1>2, <1>3

\* Nobody waits for a handler that has returned.
LEMMA ReturnWait ==
  ASSUME TypeOK, SlotInv, WaitInv, NEW c \in Calls, req[c] \in Requests,
         NEW code, Return(c, code)
  PROVE  WaitInv'
<1> SUFFICES ASSUME NEW v \in Volumes, NEW w \in Calls, waiting'[v] = w
             PROVE  /\ req'[w] # NoReq
                    /\ req'[w].vol = v
                    /\ \/ req'[w].op = "create" /\ claim'[v] = "creating"
                       \/ req'[w].op = "delete" /\ claim'[v] = "deleting"
  BY DEF WaitInv, Active
<1>1. waiting[v] = w /\ w # c /\ claim'[v] = claim[v]
  BY ReturnClaim, SentinelsAssumption
<1>2. req'[w] = req[w]
  BY <1>1 DEF TypeOK, Return
<1> QED
  BY <1>1, <1>2 DEF WaitInv, Active

\* Steps that touch neither requests nor claims.
LEMMA QuietWait ==
  ASSUME WaitInv, UNCHANGED <<req, claim, waiting>>
  PROVE  WaitInv'
  BY DEF WaitInv, Active

\* Every step keeps the call waited for live and fitting the claim.
LEMMA WaitStep ==
  ASSUME TypeOK, TypeOK', SlotInv, SlotInv', WaitInv, [Next]_vars
  PROVE  WaitInv'
<1> USE DEF handlerVars, storageVars, clientVars, Proceed
<1>1. ASSUME NEW c \in Calls, Handler(c) PROVE WaitInv'
  <2>1. CASE RefuseInProcess(c)
    BY <1>1, <2>1, Served, ReturnWait, QuietWait DEF RefuseInProcess
  <2>2. CASE PassInProcess(c)
    BY <1>1, <2>2, QuietWait DEF PassInProcess
  <2>3. CASE Mark(c)
    BY <1>1, <2>3, QuietWait DEF Mark
  <2>4. CASE ListFileset(c)
    BY <1>1, <2>4, QuietWait DEF ListFileset
  <2>5. CASE RelistFileset(c)
    BY <1>1, <2>5, Served, ReturnWait, QuietWait DEF RelistFileset
  <2>6. CASE ListLinked(c)
    BY <1>1, <2>6, Served, ReturnWait, QuietWait DEF ListLinked
  <2>7. CASE ListFilesetQuota(c)
    BY <1>1, <2>7, Served, ReturnWait, QuietWait DEF ListFilesetQuota
  <2>8. CASE CheckDir(c)
    BY <1>1, <2>8, QuietWait DEF CheckDir
  <2>9. CASE CheckSymLink(c)
    BY <1>1, <2>9, Served, ReturnWait, QuietWait DEF CheckSymLink
  <2>10. CASE Lookup(c)
    BY <1>1, <2>10, QuietWait DEF Lookup
  <2>11. CASE FilesetAlreadyDeleted(c)
    BY <1>1, <2>11, QuietWait DEF FilesetAlreadyDeleted
  <2>12. CASE Submit(c)
    BY <1>1, <2>12, QuietWait DEF Submit, Accepted
  <2>13. CASE JobOk(c)
    BY <1>1, <2>13, Served, ReturnWait, QuietWait DEF JobOk, JobEnded
  <2>14. CASE JobError(c)
    BY <1>1, <2>14, Served, ReturnWait, QuietWait DEF JobError, JobEnded
  <2> QED
    BY <1>1, <2>1, <2>2, <2>3, <2>4, <2>5, <2>6, <2>7, <2>8, <2>9, <2>10,
      <2>11, <2>12, <2>13, <2>14 DEF Handler
<1>2. ASSUME NEW c \in Calls, Server(c) PROVE WaitInv'
  <2>1. CASE RunCreateFileset(c)
    BY <1>2, <2>1, QuietWait DEF RunCreateFileset, Runs
  <2>2. CASE RunLinkFileset(c)
    BY <1>2, <2>2, QuietWait DEF RunLinkFileset, Runs
  <2>3. CASE RunSetFilesetQuota(c)
    BY <1>2, <2>3, QuietWait DEF RunSetFilesetQuota, Runs
  <2>4. CASE RunMakeDirectory(c)
    BY <1>2, <2>4, QuietWait DEF RunMakeDirectory, Runs
  <2>5. CASE RunCreateSymLink(c)
    BY <1>2, <2>5, QuietWait DEF RunCreateSymLink, Runs
  <2>6. CASE RunDeleteFileset(c)
    BY <1>2, <2>6, QuietWait DEF RunDeleteFileset, Runs
  <2>7. CASE RunDeleteDirectory(c)
    BY <1>2, <2>7, QuietWait DEF RunDeleteDirectory, Runs
  <2>8. CASE RunDeleteSymLnk(c)
    BY <1>2, <2>8, QuietWait DEF RunDeleteSymLnk, Runs
  <2> QED
    BY <1>2, <2>1, <2>2, <2>3, <2>4, <2>5, <2>6, <2>7, <2>8 DEF Server
<1>3. ASSUME NEW c \in Calls, Failure(c) PROVE WaitInv'
  <2>1. CASE ReadFails(c)
    BY <1>3, <2>1, Served, ReturnWait, QuietWait DEF ReadFails, Steps,
      Reads, CreateReads, JobKinds, CreateJobs, DeleteJobs
  <2>2. CASE SubmitRefused(c)
    BY <1>3, <2>2, Served, ReturnWait, QuietWait DEF SubmitRefused, Steps,
      Reads, CreateReads, JobKinds, CreateJobs, DeleteJobs
  <2>3. CASE SubmitLost(c)
    BY <1>3, <2>3, Served, ReturnWait, QuietWait DEF SubmitLost, Steps,
      Reads, CreateReads, JobKinds, CreateJobs, DeleteJobs, Accepted
  <2>4. CASE PollFails(c)
    BY <1>3, <2>4, Served, ReturnWait, QuietWait DEF PollFails
  <2>5. CASE JobFails(c)
    BY <1>3, <2>5, QuietWait DEF JobFails
  <2> QED
    BY <1>3, <2>1, <2>2, <2>3, <2>4, <2>5 DEF Failure
<1>4. ASSUME NEW v \in Volumes, NEW c \in Calls, IssueCreate(v, c)
      PROVE  WaitInv'
  <2>1. PICK s : Issue(v, c, "create", s, "InProcess")
    BY <1>4 DEF IssueCreate
  <2>2. /\ req' = [req EXCEPT ![c] =
           [op |-> "create", vol |-> v, size |-> s, drv |-> prov]]
       /\ waiting' = [waiting EXCEPT ![v] = c]
       /\ claim' = claim
    BY <2>1 DEF Issue
  <2>3. req'[c].op = "create" /\ req'[c].vol = v /\ claim'[v] = "creating"
    BY <1>4, <2>2 DEF IssueCreate, TypeOK
  <2>4. Active(c)'
    BY <2>1, <2>2 DEF Issue, Goto, SlotInv, TypeOK, Active
  <2>5. ASSUME NEW u \in Volumes, u # v
       PROVE  waiting[u] # c
    BY <2>1, <2>5 DEF WaitInv, Issue, FreeSlot, SlotInv
  <2>6. ASSUME NEW u \in Volumes, NEW e \in Calls, waiting'[u] = e, u # v
       PROVE  e # c /\ waiting[u] = e /\ req'[e] = req[e]
    <3>1. waiting[u] = e
      BY <2>2, <2>6 DEF TypeOK
    <3>2. e # c
      BY <3>1, <2>5, <2>6
    <3> QED
      BY <3>1, <3>2, <2>2 DEF TypeOK
  <2>7. ASSUME NEW e \in Calls, waiting'[v] = e PROVE e = c
    BY <2>2, <2>7 DEF TypeOK
  <2> QED
    BY <2>2, <2>3, <2>4, <2>6, <2>7 DEF WaitInv, Active
<1>5. ASSUME NEW v \in Volumes, NEW c \in Calls, IssueDelete(v, c)
      PROVE  WaitInv'
  <2>1. PICK s : Issue(v, c, "delete", s, "Lookup")
    BY <1>5 DEF IssueDelete
  <2>2. /\ req' = [req EXCEPT ![c] =
           [op |-> "delete", vol |-> v, size |-> s, drv |-> prov]]
       /\ waiting' = [waiting EXCEPT ![v] = c]
       /\ claim' = claim
    BY <2>1 DEF Issue
  <2>3. req'[c].op = "delete" /\ req'[c].vol = v /\ claim'[v] = "deleting"
    BY <1>5, <2>2 DEF IssueDelete, TypeOK
  <2>4. Active(c)'
    BY <2>1, <2>2 DEF Issue, Goto, SlotInv, TypeOK, Active
  <2>5. ASSUME NEW u \in Volumes, u # v
       PROVE  waiting[u] # c
    BY <2>1, <2>5 DEF WaitInv, Issue, FreeSlot, SlotInv
  <2>6. ASSUME NEW u \in Volumes, NEW e \in Calls, waiting'[u] = e, u # v
       PROVE  e # c /\ waiting[u] = e /\ req'[e] = req[e]
    <3>1. waiting[u] = e
      BY <2>2, <2>6 DEF TypeOK
    <3>2. e # c
      BY <3>1, <2>5, <2>6
    <3> QED
      BY <3>1, <3>2, <2>2 DEF TypeOK
  <2>7. ASSUME NEW e \in Calls, waiting'[v] = e PROVE e = c
    BY <2>2, <2>7 DEF TypeOK
  <2> QED
    BY <2>2, <2>3, <2>4, <2>6, <2>7 DEF WaitInv, Active
<1>6. ASSUME NEW v \in Volumes, Timeout(v) PROVE WaitInv'
  BY <1>6, SentinelsAssumption DEF Timeout, TypeOK, WaitInv, Active
<1>7. ASSUME NEW v \in Volumes, Release(v) PROVE WaitInv'
  BY <1>7 DEF Release, TypeOK, WaitInv, Active
<1>8. ASSUME NEW d \in Drivers, Crash(d) PROVE WaitInv'
  BY <1>8, SentinelsAssumption DEF Crash, TypeOK, WaitInv, Active
<1>9. ASSUME NEW d \in Drivers, Failover(d) PROVE WaitInv'
  BY <1>9, SentinelsAssumption DEF Failover, WaitInv
<1>10. CASE UNCHANGED vars
  BY <1>10, QuietWait DEF vars
<1> QED
  BY <1>1, <1>2, <1>3, <1>4, <1>5, <1>6, <1>7, <1>8, <1>9, <1>10 DEF Next,
    Provisioner, Terminated

----------------------------------------------------------------------------
(* Deletion waits for the claim; what is kept only grows.                  *)

\* What the steps do to claims: only answers and Release change one.
LEMMA ClaimChange ==
  ASSUME [Next]_vars
  PROVE  \/ UNCHANGED claim
         \/ \E v \in Volumes : Release(v)
         \/ \E c \in Calls : \E code :
              /\ pc[c] # "idle" /\ Return(c, code)
              /\ code = "OK" => CheckSymLink(c) \/ JobOk(c)
<1>1. ASSUME NEW c \in Calls, Handler(c)
      PROVE  \/ UNCHANGED claim
             \/ \E code : /\ pc[c] # "idle" /\ Return(c, code)
                          /\ code = "OK" => CheckSymLink(c) \/ JobOk(c)
  BY <1>1
  DEF Handler, RefuseInProcess, PassInProcess, Mark, ListFileset, RelistFileset,
      ListLinked, ListFilesetQuota, CheckDir, CheckSymLink, Lookup,
      FilesetAlreadyDeleted, Submit, JobOk, JobError, JobEnded, Proceed, clientVars
<1>2. ASSUME NEW c \in Calls, Failure(c)
      PROVE  UNCHANGED claim \/ (pc[c] # "idle" /\ Return(c, "Internal"))
  BY <1>2
  DEF Failure, ReadFails, SubmitRefused, SubmitLost, PollFails, JobFails,
      Accepted, Reads, CreateReads, JobKinds, CreateJobs, DeleteJobs, clientVars
<1>3. ASSUME NEW c \in Calls, Server(c) PROVE UNCHANGED claim
  BY <1>3
  DEF Server, RunCreateFileset, RunLinkFileset, RunSetFilesetQuota,
      RunMakeDirectory, RunCreateSymLink, RunDeleteFileset, RunDeleteDirectory,
      RunDeleteSymLnk, Runs, clientVars
<1>4. ASSUME NEW v \in Volumes, Provisioner(v) PROVE UNCHANGED claim \/ Release(v)
  BY <1>4 DEF Provisioner, IssueCreate, IssueDelete, Issue, Timeout
<1>5. ASSUME NEW d \in Drivers, Crash(d) \/ Failover(d) PROVE UNCHANGED claim
  BY <1>5 DEF Crash, Failover
<1> QED
  BY <1>1, <1>2, <1>3, <1>4, <1>5 DEF Next, Terminated, vars, clientVars

\* A claim that is being deleted does not come back.
LEMMA KeptShrinks ==
  ASSUME TypeOK, SlotInv, WaitInv, [Next]_vars, NEW v \in Volumes, Kept(v)'
  PROVE  Kept(v)
<1>1. CASE UNCHANGED claim
  BY <1>1 DEF Kept
<1>2. ASSUME NEW u \in Volumes, Release(u) PROVE Kept(v)
  BY <1>2 DEF Release, Kept, TypeOK
<1>3. ASSUME NEW c \in Calls, NEW code, pc[c] # "idle", Return(c, code)
      PROVE  Kept(v)
  BY <1>3, Served, ReturnClaim DEF Kept
<1> QED
  BY <1>1, <1>2, <1>3, ClaimChange


\* The end of a job changes its status only, or drops it.
LEMMA EndsKeeps ==
  ASSUME TypeOK, NEW c \in Calls, job[c] # NoJob, NEW st, Ends(c, st)
  PROVE  \A e \in Calls :
           \/ job'[e] = NoJob
           \/ /\ InFlight(e)
              /\ job'[e].kind = job[e].kind /\ job'[e].vol = job[e].vol
  BY DEF TypeOK, Ends, Jobs, InFlight

\* An accepted job is the one its handler asked for.
LEMMA AcceptedFits ==
  ASSUME TypeOK, SlotInv, NEW c \in Calls, Accepted(c)
  PROVE  /\ Active(c)
         /\ \A e \in Calls \ {c} : job'[e] = job[e]
         /\ job'[c].vol = req[c].vol
         /\ job'[c].kind \in DeleteJobs => req[c].op = "delete"
  BY DEF TypeOK, SlotInv, Accepted, Active, JobKinds, CreateSteps, InMap,
         CreateReads, CreateJobs, DeleteJobs

\* A request is dropped or kept; a job is dropped, kept or submitted for the
\* request at hand.
LEMMA PhaseFrame ==
  ASSUME TypeOK, TypeOK', PhaseInv,
         \A v \in Volumes : Kept(v)' => Kept(v),
         \A e \in Calls : req'[e] \in {req[e], NoReq},
         \A e \in Calls :
           \/ job'[e] = NoJob
           \/ /\ InFlight(e)
              /\ job'[e].kind = job[e].kind /\ job'[e].vol = job[e].vol
           \/ /\ Active(e) /\ job'[e].vol = req[e].vol
              /\ job'[e].kind \in DeleteJobs => req[e].op = "delete"
  PROVE  PhaseInv'
  BY DEF TypeOK, Requests, Jobs, PhaseInv, Active, InFlight, Kept

\* No step starts a deletion of a volume that is kept.
LEMMA PhaseStep ==
  ASSUME TypeOK, TypeOK', SlotInv, WaitInv, PhaseInv, [Next]_vars
  PROVE  PhaseInv'
<1> USE DEF handlerVars, storageVars, clientVars, Proceed, InFlight
<1>0. \A v \in Volumes : Kept(v)' => Kept(v)
  BY KeptShrinks
<1>1. ASSUME NEW c \in Calls, Handler(c) PROVE PhaseInv'
  <2>1. CASE RefuseInProcess(c)
    BY <1>1, <2>1, <1>0, PhaseFrame DEF RefuseInProcess, Return, TypeOK
  <2>2. CASE PassInProcess(c)
    BY <1>1, <2>2, <1>0, PhaseFrame DEF PassInProcess
  <2>3. CASE Mark(c)
    BY <1>1, <2>3, <1>0, PhaseFrame DEF Mark
  <2>4. CASE ListFileset(c)
    BY <1>1, <2>4, <1>0, PhaseFrame DEF ListFileset
  <2>5. CASE RelistFileset(c)
    BY <1>1, <2>5, <1>0, PhaseFrame DEF RelistFileset, Return, TypeOK
  <2>6. CASE ListLinked(c)
    BY <1>1, <2>6, <1>0, PhaseFrame DEF ListLinked, Return, TypeOK
  <2>7. CASE ListFilesetQuota(c)
    BY <1>1, <2>7, <1>0, PhaseFrame DEF ListFilesetQuota, Return, TypeOK
  <2>8. CASE CheckDir(c)
    BY <1>1, <2>8, <1>0, PhaseFrame DEF CheckDir
  <2>9. CASE CheckSymLink(c)
    BY <1>1, <2>9, <1>0, PhaseFrame DEF CheckSymLink, Return, TypeOK
  <2>10. CASE Lookup(c)
    BY <1>1, <2>10, <1>0, PhaseFrame DEF Lookup
  <2>11. CASE FilesetAlreadyDeleted(c)
    BY <1>1, <2>11, <1>0, PhaseFrame DEF FilesetAlreadyDeleted
  <2>12. CASE Submit(c)
    BY <1>1, <2>12, <1>0, PhaseFrame, AcceptedFits DEF Submit
  <2>13. CASE JobOk(c)
    BY <1>1, <2>13, <1>0, PhaseFrame DEF JobOk, Return, TypeOK, JobEnded
  <2>14. CASE JobError(c)
    BY <1>1, <2>14, <1>0, PhaseFrame DEF JobError, Return, TypeOK, JobEnded
  <2> QED
    BY <1>1, <2>1, <2>2, <2>3, <2>4, <2>5, <2>6, <2>7, <2>8, <2>9, <2>10,
      <2>11, <2>12, <2>13, <2>14 DEF Handler
<1>2. ASSUME NEW c \in Calls, Server(c) PROVE PhaseInv'
  <2>1. CASE RunCreateFileset(c)
    BY <1>2, <2>1, <1>0, PhaseFrame, EndsKeeps DEF RunCreateFileset, Runs
  <2>2. CASE RunLinkFileset(c)
    BY <1>2, <2>2, <1>0, PhaseFrame, EndsKeeps DEF RunLinkFileset, Runs
  <2>3. CASE RunSetFilesetQuota(c)
    BY <1>2, <2>3, <1>0, PhaseFrame, EndsKeeps DEF RunSetFilesetQuota, Runs
  <2>4. CASE RunMakeDirectory(c)
    BY <1>2, <2>4, <1>0, PhaseFrame, EndsKeeps DEF RunMakeDirectory, Runs
  <2>5. CASE RunCreateSymLink(c)
    BY <1>2, <2>5, <1>0, PhaseFrame, EndsKeeps DEF RunCreateSymLink, Runs
  <2>6. CASE RunDeleteFileset(c)
    BY <1>2, <2>6, <1>0, PhaseFrame, EndsKeeps DEF RunDeleteFileset, Runs
  <2>7. CASE RunDeleteDirectory(c)
    BY <1>2, <2>7, <1>0, PhaseFrame, EndsKeeps DEF RunDeleteDirectory, Runs
  <2>8. CASE RunDeleteSymLnk(c)
    BY <1>2, <2>8, <1>0, PhaseFrame, EndsKeeps DEF RunDeleteSymLnk, Runs
  <2> QED
    BY <1>2, <2>1, <2>2, <2>3, <2>4, <2>5, <2>6, <2>7, <2>8 DEF Server
<1>3. ASSUME NEW c \in Calls, Failure(c) PROVE PhaseInv'
  <2>1. CASE ReadFails(c)
    BY <1>3, <2>1, <1>0, PhaseFrame DEF ReadFails, Return, TypeOK
  <2>2. CASE SubmitRefused(c)
    BY <1>3, <2>2, <1>0, PhaseFrame DEF SubmitRefused, Return, TypeOK
  <2>3. CASE SubmitLost(c)
    BY <1>3, <2>3, <1>0, PhaseFrame, AcceptedFits DEF SubmitLost, Return, TypeOK
  <2>4. CASE PollFails(c)
    BY <1>3, <2>4, <1>0, PhaseFrame DEF PollFails, Return, TypeOK
  <2>5. CASE JobFails(c)
    BY <1>3, <2>5, <1>0, PhaseFrame, EndsKeeps DEF JobFails
  <2> QED
    BY <1>3, <2>1, <2>2, <2>3, <2>4, <2>5 DEF Failure
<1>4. ASSUME NEW v \in Volumes, NEW c \in Calls, IssueCreate(v, c)
      PROVE  PhaseInv'
  BY <1>4 DEF IssueCreate, Issue, FreeSlot, TypeOK, PhaseInv, Active,
    InFlight, Kept
<1>5. ASSUME NEW v \in Volumes, NEW c \in Calls, IssueDelete(v, c)
      PROVE  PhaseInv'
  BY <1>5 DEF IssueDelete, Issue, FreeSlot, TypeOK, PhaseInv, Active,
    InFlight, Kept
<1>6. ASSUME NEW v \in Volumes, Timeout(v) PROVE PhaseInv'
  BY <1>6, <1>0, PhaseFrame DEF Timeout
<1>7. ASSUME NEW v \in Volumes, Release(v) PROVE PhaseInv'
  BY <1>7, <1>0, PhaseFrame DEF Release
<1>8. ASSUME NEW d \in Drivers, Crash(d) PROVE PhaseInv'
  BY <1>8, <1>0, PhaseFrame DEF Crash, TypeOK
<1>9. ASSUME NEW d \in Drivers, Failover(d) PROVE PhaseInv'
  BY <1>9, <1>0, PhaseFrame DEF Failover
<1>10. CASE UNCHANGED vars
  BY <1>10, <1>0, PhaseFrame DEF vars
<1> QED
  BY <1>1, <1>2, <1>3, <1>4, <1>5, <1>6, <1>7, <1>8, <1>9, <1>10 DEF Next,
    Provisioner, Terminated

\* Only the jobs of the GUI change the storage.
LEMMA StorageChange ==
  ASSUME [Next]_vars
  PROVE  UNCHANGED storageVars \/ \E c \in Calls : Server(c)
<1>1. ASSUME NEW c \in Calls, Handler(c) PROVE UNCHANGED storageVars
  BY <1>1
  DEF Handler, RefuseInProcess, PassInProcess, Mark, ListFileset, RelistFileset,
      ListLinked, ListFilesetQuota, CheckDir, CheckSymLink, Lookup,
      FilesetAlreadyDeleted, Submit, JobOk, JobError, JobEnded
<1>2. ASSUME NEW c \in Calls, Failure(c) PROVE UNCHANGED storageVars
  BY <1>2 DEF Failure, ReadFails, SubmitRefused, SubmitLost, PollFails, JobFails
<1>3. ASSUME NEW v \in Volumes, Provisioner(v) PROVE UNCHANGED storageVars
  BY <1>3 DEF Provisioner, IssueCreate, IssueDelete, Issue, Timeout, Release
<1>4. ASSUME NEW d \in Drivers, Crash(d) \/ Failover(d) PROVE UNCHANGED storageVars
  BY <1>4 DEF Crash, Failover
<1> QED
  BY <1>1, <1>2, <1>3, <1>4 DEF Next, Terminated, vars


\* A running job's volume, and that no deletion runs on a kept one.
LEMMA RunsOn ==
  ASSUME TypeOK, PhaseInv, NEW c \in Calls, NEW kind, Runs(c, kind)
  PROVE  /\ job[c].vol \in Volumes
         /\ job[c].size \in Nat
         /\ kind \in DeleteJobs => ~Kept(job[c].vol)
         /\ kind = "SetFilesetQuota" /\ SlotInv =>
              job[c].size \in Sizes[job[c].vol]
  BY DEF TypeOK, PhaseInv, SlotInv, InFlight, Runs, Jobs

\* A quota set for a request of the volume is one of its quotas.
LEMMA ListedNonempty ==
  ASSUME NEW v \in Volumes, NEW s \in Sizes[v], quota'[v] = Listed(s)
  PROVE  QuotaSet(v)'
  BY DEF QuotaSet

\* No step loses a piece of a volume that is kept.
LEMMA GrowsStep ==
  ASSUME TypeOK, SlotInv, WaitInv, PhaseInv, [Next]_vars
  PROVE  Grows
<1> USE DEF TypeOK, storageVars, Grows, HasLink, HasQuota, QuotaSet
<1>1. \A v \in Volumes : Kept(v)' => Kept(v)
  BY KeptShrinks
<1>2. CASE UNCHANGED storageVars
  BY <1>1, <1>2
<1>3. ASSUME NEW c \in Calls, Server(c) PROVE Grows
  <2>1. CASE RunCreateFileset(c)
    BY <1>1, <2>1, RunsOn DEF RunCreateFileset
  <2>2. CASE RunLinkFileset(c)
    BY <1>1, <2>2, RunsOn DEF RunLinkFileset
  <2>3. CASE RunSetFilesetQuota(c)
    BY <1>1, <2>3, RunsOn DEF RunSetFilesetQuota
  <2>4. CASE RunMakeDirectory(c)
    BY <1>1, <2>4, RunsOn DEF RunMakeDirectory
  <2>5. CASE RunCreateSymLink(c)
    BY <1>1, <2>5, RunsOn DEF RunCreateSymLink
  <2>6. CASE RunDeleteFileset(c)
    BY <1>1, <2>6, RunsOn DEF RunDeleteFileset, DeleteJobs
  <2>7. CASE RunDeleteDirectory(c)
    BY <1>1, <2>7, RunsOn DEF RunDeleteDirectory, DeleteJobs
  <2>8. CASE RunDeleteSymLnk(c)
    BY <1>1, <2>8, RunsOn DEF RunDeleteSymLnk, DeleteJobs
  <2> QED
    BY <1>3, <2>1, <2>2, <2>3, <2>4, <2>5, <2>6, <2>7, <2>8 DEF Server
<1> QED
  BY <1>2, <1>3, StorageChange


\* Every step keeps the quotas to those of requests.
LEMMA QuotaStep ==
  ASSUME TypeOK, SlotInv, PhaseInv, QuotaInv, [Next]_vars
  PROVE  QuotaInv'
<1> USE DEF TypeOK, QuotaInv, QuotaSet
<1>1. CASE UNCHANGED quota
  BY <1>1
<1>2. ASSUME NEW c \in Calls, RunSetFilesetQuota(c) PROVE QuotaInv'
  BY <1>2, RunsOn DEF RunSetFilesetQuota
<1>3. ASSUME NEW c \in Calls, RunDeleteFileset(c) PROVE QuotaInv'
  BY <1>3 DEF RunDeleteFileset
<1>4. ASSUME NEW c \in Calls, Server(c)
      PROVE  UNCHANGED quota \/ RunSetFilesetQuota(c) \/ RunDeleteFileset(c)
  BY <1>4
  DEF Server, RunCreateFileset, RunLinkFileset, RunMakeDirectory,
      RunCreateSymLink, RunDeleteDirectory, RunDeleteSymLnk
<1> QED
  BY <1>1, <1>2, <1>3, <1>4, StorageChange DEF storageVars


----------------------------------------------------------------------------
(* Progress of a creation.                                                 *)

\* A slot that does not move keeps its progress.
LEMMA StillProgress ==
  ASSUME TypeOK, ProgressInv, Grows, NEW e \in Calls,
         pc'[e] = pc[e], req'[e] = req[e],
         \/ job'[e] \in {job[e], NoJob}
         \/ job'[e].st \in {"running", "failed"}
  PROVE  Progress(e)'
<1> SUFFICES ASSUME Active(e), Kept(req[e].vol)'
             PROVE  Progress(e)'
  BY DEF Progress, Active
<1>1. req[e].vol \in Volumes
  BY DEF TypeOK, Active, Requests
<1>2. Progress(e)
  BY DEF ProgressInv
<1> QED
  BY <1>1, <1>2 DEF Grows, Progress, Active, InFlight, JobSucceeded

\* A slot without a handler has none.
LEMMA NoProgress ==
  ASSUME NEW e \in Calls, req'[e] = NoReq
  PROVE  Progress(e)'
  BY DEF Progress, Active

\* If the slot that moves makes progress, all do.
LEMMA OthersProgress ==
  ASSUME TypeOK, ProgressInv, Grows, NEW c \in Calls, Progress(c)',
         \A e \in Calls \ {c} :
           pc'[e] = pc[e] /\ req'[e] = req[e] /\ job'[e] = job[e]
  PROVE  ProgressInv'
  BY StillProgress DEF ProgressInv

\* A handler that returns has nothing to show any more.
LEMMA ReturnProgress ==
  ASSUME TypeOK, ProgressInv, Grows, NEW c \in Calls, NEW code, Return(c, code),
         \A e \in Calls \ {c} : job'[e] = job[e]
  PROVE  ProgressInv'
  BY NoProgress, OthersProgress DEF TypeOK, Return, Goto

\* A handler that moves on with nothing in flight: what its next step has
\* behind it must be there.
LEMMA ProceedProgress ==
  ASSUME TypeOK, ProgressInv, Grows, NEW c \in Calls, NEW step,
         Proceed(c, step), req[c] \in Requests, job'[c] = NoJob,
         \A e \in Calls \ {c} : job'[e] = job[e],
         Kept(req[c].vol) =>
           /\ step \notin BeforeLink => HasLink(req[c].vol)
           /\ step \notin BeforeQuota => HasQuota(req[c].vol)
           /\ step \notin BeforeDir => dir[req[c].vol]
  PROVE  ProgressInv'
<1> DEFINE v == req[c].vol
<1>1. v \in Volumes
  BY DEF Requests
<1>2. pc'[c] = step /\ req'[c] = req[c]
  BY DEF TypeOK, Proceed, Goto
<1>3. Progress(c)'
  BY <1>1, <1>2 DEF Progress, Grows, InFlight
<1>4. \A e \in Calls \ {c} : pc'[e] = pc[e] /\ req'[e] = req[e]
  BY DEF TypeOK, Proceed, Goto
<1> QED
  BY <1>3, <1>4, OthersProgress

\* A job that ends for a handler still there: what it did must be there.
LEMMA RunsProgress ==
  ASSUME TypeOK, SlotInv, ProgressInv, Grows, NEW c \in Calls,
         NEW kind \in JobKinds, NEW st, Runs(c, kind), Ends(c, st),
         NEW v, v = job[c].vol,
         Kept(v) /\ (st = "completed" \/ (st = "already" /\ kind \in Tolerated))
           => /\ kind = "LinkFileset" => HasLink(v)'
              /\ kind = "SetFilesetQuota" => HasQuota(v)'
              /\ kind = "MakeDirectory" => dir'[v]
              /\ kind = "CreateSymLink" => slink'[v]
  PROVE  ProgressInv'
<1>1. /\ UNCHANGED <<pc, req, claim>>
      /\ \A e \in Calls \ {c} : job'[e] = job[e]
  BY DEF TypeOK, Runs, Ends, clientVars
<1>2. CASE pc[c] = "idle"
  BY <1>1, <1>2, NoProgress, OthersProgress DEF SlotInv, Active
<1>3. CASE pc[c] # "idle"
  <2>1. Active(c) /\ job[c].kind = kind /\ pc[c] = kind /\ req[c].vol = v
    BY <1>3 DEF SlotInv, InFlight, Runs
  <2>2. v \in Volumes
    BY <2>1 DEF TypeOK, Active, Requests
  <2>3. job'[c].kind = kind /\ job'[c].st = st
    BY <1>3, <2>1 DEF TypeOK, Ends, Runs, Jobs
  <2>4. Progress(c)
    BY DEF ProgressInv
  <2>5. Kept(v)' => Kept(v)
    BY <2>2 DEF Grows
  <2>6. Progress(c)'
    BY <1>1, <2>1, <2>2, <2>3, <2>4, <2>5
    DEF Progress, Active, Grows, JobSucceeded, BeforeLink, BeforeQuota, BeforeDir
  <2> QED
    BY <1>1, <2>6, OthersProgress
<1> QED
  BY <1>2, <1>3

\* What a creation whose claim stands has behind it.
LEMMA ProgressOf ==
  ASSUME TypeOK, SlotInv, ProgressInv, NEW c \in Calls,
         pc[c] # "idle", Kept(req[c].vol)
  PROVE  /\ req[c].vol \in Volumes
         /\ pc[c] \notin BeforeLink => HasLink(req[c].vol)
         /\ pc[c] \notin BeforeQuota => HasQuota(req[c].vol)
         /\ pc[c] \notin BeforeDir => dir[req[c].vol]
         /\ InFlight(c) /\ JobSucceeded(c) =>
              /\ pc[c] = "LinkFileset" => HasLink(req[c].vol)
              /\ pc[c] = "SetFilesetQuota" => HasQuota(req[c].vol)
              /\ pc[c] = "MakeDirectory" => dir[req[c].vol]
              /\ pc[c] = "CreateSymLink" => slink[req[c].vol]
  BY Served DEF SlotInv, ProgressInv, Progress, Requests

\* Every step keeps what creations have behind them.
LEMMA ProgressStep ==
  ASSUME TypeOK, SlotInv, PhaseInv, QuotaInv, ProgressInv, Grows, [Next]_vars
  PROVE  ProgressInv'
<1> USE DEF handlerVars, storageVars, clientVars
<1>1. ASSUME NEW c \in Calls, Handler(c) PROVE ProgressInv'
  <2>1. CASE RefuseInProcess(c)
    BY <1>1, <2>1, ReturnProgress DEF RefuseInProcess, TypeOK
  <2>2. CASE PassInProcess(c)
    BY <1>1, <2>2, Served, AtRead, ProgressOf, ProceedProgress,
      ReturnProgress DEF PassInProcess, BeforeLink, BeforeQuota, BeforeDir,
      Reads, CreateReads
  <2>3. CASE Mark(c)
    BY <1>1, <2>3, OthersProgress DEF Mark, Goto, TypeOK, Progress,
      HasLink, HasQuota, Active, InFlight, Requests, BeforeLink,
      BeforeQuota, BeforeDir
  <2>4. CASE ListFileset(c)
    BY <1>1, <2>4, Served, AtRead, ProgressOf, ProceedProgress,
      ReturnProgress DEF ListFileset, BeforeLink, BeforeQuota, BeforeDir,
      Reads, CreateReads, AfterList, AfterLink, TypeOK, HasLink, HasQuota,
      SlotInv, Active, CreateSteps, DeleteSteps, DeleteJobs
  <2>5. CASE RelistFileset(c)
    BY <1>1, <2>5, Served, AtRead, ProgressOf, ProceedProgress,
      ReturnProgress DEF RelistFileset, BeforeLink, BeforeQuota, BeforeDir,
      Reads, CreateReads, AfterList, AfterLink, TypeOK, HasLink, HasQuota,
      SlotInv, Active, CreateSteps, DeleteSteps, DeleteJobs
  <2>6. CASE ListLinked(c)
    BY <1>1, <2>6, Served, AtRead, ProgressOf, ProceedProgress,
      ReturnProgress DEF ListLinked, BeforeLink, BeforeQuota, BeforeDir,
      Reads, CreateReads, AfterLink, HasQuota, SlotInv, Active,
      CreateSteps, DeleteSteps, DeleteJobs
  <2>7. CASE ListFilesetQuota(c)
    BY <1>1, <2>7, Served, AtRead, ProgressOf, ProceedProgress,
      ReturnProgress DEF ListFilesetQuota, BeforeLink, BeforeQuota,
      BeforeDir, Reads, CreateReads, QuotaInv, HasQuota, QuotaSet
  <2>8. CASE CheckDir(c)
    BY <1>1, <2>8, Served, AtRead, ProgressOf, ProceedProgress,
      ReturnProgress DEF CheckDir, BeforeLink, BeforeQuota, BeforeDir,
      Reads, CreateReads
  <2>9. CASE CheckSymLink(c)
    BY <1>1, <2>9, Served, AtRead, ProgressOf, ProceedProgress,
      ReturnProgress DEF CheckSymLink, BeforeLink, BeforeQuota, BeforeDir,
      Reads, CreateReads
  <2>10. CASE Lookup(c)
    BY <1>1, <2>10, Served, AtRead, ProgressOf, ProceedProgress,
      ReturnProgress DEF Lookup, BeforeLink, BeforeQuota, BeforeDir, Reads,
      CreateReads
  <2>11. CASE FilesetAlreadyDeleted(c)
    BY <1>1, <2>11, Served, AtRead, ProgressOf, ProceedProgress,
      ReturnProgress DEF FilesetAlreadyDeleted, BeforeLink, BeforeQuota,
      BeforeDir, Reads, CreateReads
  <2>12. CASE Submit(c)
    <3>1. pc'[c] = pc[c] /\ req'[c] = req[c] /\ job'[c].st = "running"
      BY <1>1, <2>12 DEF Submit, Accepted, TypeOK
    <3>2. \A e \in Calls \ {c} :
            pc'[e] = pc[e] /\ req'[e] = req[e] /\ job'[e] = job[e]
      BY <1>1, <2>12 DEF Submit, Accepted, TypeOK
    <3> QED
      BY <3>1, <3>2, StillProgress DEF ProgressInv
  <2>13. CASE JobOk(c)
    BY <1>1, <2>13, Served, ProgressOf, ProceedProgress, ReturnProgress DEF
      JobOk, JobEnded, AfterJob, InFlight, BeforeLink, BeforeQuota,
      BeforeDir, SlotInv, TypeOK, CreateSteps, InMap, CreateReads,
      CreateJobs, DeleteSteps, DeleteJobs, Active, JobKinds, Jobs
  <2>14. CASE JobError(c)
    BY <1>1, <2>14, ReturnProgress DEF JobError, TypeOK, JobEnded
  <2> QED
    BY <1>1, <2>1, <2>2, <2>3, <2>4, <2>5, <2>6, <2>7, <2>8, <2>9, <2>10,
      <2>11, <2>12, <2>13, <2>14 DEF Handler
<1>2. ASSUME NEW c \in Calls, Server(c) PROVE ProgressInv'
  <2>1. CASE RunCreateFileset(c)
    BY <1>2, <2>1, RunsOn, RunsProgress DEF RunCreateFileset, JobKinds,
      CreateJobs, DeleteJobs, TypeOK, HasLink, HasQuota, QuotaSet,
      Tolerated
  <2>2. CASE RunLinkFileset(c)
    BY <1>2, <2>2, RunsOn, RunsProgress DEF RunLinkFileset, JobKinds,
      CreateJobs, DeleteJobs, TypeOK, HasLink, HasQuota, QuotaSet,
      Tolerated
  <2>3. CASE RunSetFilesetQuota(c)
    BY <1>2, <2>3, RunsOn, RunsProgress DEF RunSetFilesetQuota, JobKinds,
      CreateJobs, DeleteJobs, TypeOK, HasLink, HasQuota, QuotaSet,
      Tolerated
  <2>4. CASE RunMakeDirectory(c)
    BY <1>2, <2>4, RunsOn, RunsProgress DEF RunMakeDirectory, JobKinds,
      CreateJobs, DeleteJobs, TypeOK, HasLink, HasQuota, QuotaSet,
      Tolerated
  <2>5. CASE RunCreateSymLink(c)
    BY <1>2, <2>5, RunsOn, RunsProgress DEF RunCreateSymLink, JobKinds,
      CreateJobs, DeleteJobs, TypeOK, HasLink, HasQuota, QuotaSet,
      Tolerated
  <2>6. CASE RunDeleteFileset(c)
    BY <1>2, <2>6, RunsOn, RunsProgress DEF RunDeleteFileset, JobKinds,
      CreateJobs, DeleteJobs, TypeOK, HasLink, HasQuota, QuotaSet,
      Tolerated
  <2>7. CASE RunDeleteDirectory(c)
    BY <1>2, <2>7, RunsOn, RunsProgress DEF RunDeleteDirectory, JobKinds,
      CreateJobs, DeleteJobs, TypeOK, HasLink, HasQuota, QuotaSet,
      Tolerated
  <2>8. CASE RunDeleteSymLnk(c)
    BY <1>2, <2>8, RunsOn, RunsProgress DEF RunDeleteSymLnk, JobKinds,
      CreateJobs, DeleteJobs, TypeOK, HasLink, HasQuota, QuotaSet,
      Tolerated
  <2> QED
    BY <1>2, <2>1, <2>2, <2>3, <2>4, <2>5, <2>6, <2>7, <2>8 DEF Server
<1>3. ASSUME NEW c \in Calls, Failure(c) PROVE ProgressInv'
  <2>1. CASE ReadFails(c)
    BY <1>3, <2>1, ReturnProgress DEF ReadFails, TypeOK
  <2>2. CASE SubmitRefused(c)
    BY <1>3, <2>2, ReturnProgress DEF SubmitRefused, TypeOK
  <2>3. CASE SubmitLost(c)
    BY <1>3, <2>3, ReturnProgress DEF SubmitLost, TypeOK, Accepted
  <2>4. CASE PollFails(c)
    BY <1>3, <2>4, ReturnProgress DEF PollFails, TypeOK
  <2>5. CASE JobFails(c)
    <3>1. /\ pc'[c] = pc[c] /\ req'[c] = req[c]
         /\ \/ job'[c] \in {job[c], NoJob}
            \/ job'[c].st \in {"running", "failed"}
      BY <1>3, <2>5 DEF JobFails, Ends, TypeOK, Jobs
    <3>2. \A e \in Calls \ {c} :
            pc'[e] = pc[e] /\ req'[e] = req[e] /\ job'[e] = job[e]
      BY <1>3, <2>5 DEF JobFails, Ends, TypeOK
    <3>3. Progress(c)'
      BY <3>1, StillProgress
    <3> QED
      BY <3>2, <3>3, OthersProgress
  <2> QED
    BY <1>3, <2>1, <2>2, <2>3, <2>4, <2>5 DEF Failure
<1>4. ASSUME NEW v \in Volumes, NEW c \in Calls, IssueCreate(v, c)
      PROVE  ProgressInv'
  BY <1>4, OthersProgress DEF IssueCreate, Issue, Goto, TypeOK, FreeSlot,
    Progress, Active, InFlight, BeforeLink, BeforeQuota, BeforeDir
<1>5. ASSUME NEW v \in Volumes, NEW c \in Calls, IssueDelete(v, c)
      PROVE  ProgressInv'
  BY <1>5, OthersProgress DEF IssueDelete, Issue, Goto, TypeOK, FreeSlot,
    Progress, Active, InFlight, BeforeLink, BeforeQuota, BeforeDir, Kept
<1>6. ASSUME NEW v \in Volumes, Timeout(v) PROVE ProgressInv'
  BY <1>6, StillProgress DEF Timeout, ProgressInv
<1>7. ASSUME NEW v \in Volumes, Release(v) PROVE ProgressInv'
  BY <1>7, StillProgress DEF Release, ProgressInv
<1>8. ASSUME NEW d \in Drivers, Crash(d) PROVE ProgressInv'
  BY <1>8, StillProgress, NoProgress DEF Crash, ProgressInv, TypeOK
<1>9. ASSUME NEW d \in Drivers, Failover(d) PROVE ProgressInv'
  BY <1>9, StillProgress DEF Failover, ProgressInv
<1>10. CASE UNCHANGED vars
  BY <1>10, StillProgress DEF vars, ProgressInv
<1> QED
  BY <1>1, <1>2, <1>3, <1>4, <1>5, <1>6, <1>7, <1>8, <1>9, <1>10 DEF Next,
    Provisioner, Terminated

----------------------------------------------------------------------------
(* Bound volumes are complete.                                             *)

\* A volume that was bound before the step is still complete.
LEMMA BoundFrame ==
  ASSUME BoundIsComplete, Grows,
         \A v \in Volumes : claim'[v] = "bound" => claim[v] = "bound"
  PROVE  BoundIsComplete'
  BY DEF BoundIsComplete, Grows, Kept, Complete, HasLink, HasQuota, QuotaSet

\* An answer that is not OK binds nothing.
LEMMA ReturnBinds ==
  ASSUME TypeOK, SlotInv, WaitInv, BoundIsComplete, Grows, NEW c \in Calls,
         pc[c] # "idle", NEW code, Return(c, code), code # "OK"
  PROVE  BoundIsComplete'
  BY Served, ReturnClaim, BoundFrame

\* An answer OK binds a volume that is complete.
LEMMA ReturnOkBinds ==
  ASSUME TypeOK, SlotInv, WaitInv, ProgressInv, BoundIsComplete, Grows,
         NEW c \in Calls, Return(c, "OK"), UNCHANGED storageVars,
         pc[c] \in {"CheckSymLink", "CreateSymLink", "DeleteSymLnk"},
         Kept(req[c].vol) => slink[req[c].vol]
  PROVE  BoundIsComplete'
<1>1. pc[c] # "idle" /\ req[c] \in Requests
  BY Served
<1> SUFFICES ASSUME NEW v \in Volumes, claim'[v] = "bound"
             PROVE  Complete(v)'
  BY DEF BoundIsComplete
<1>2. CASE claim[v] = "bound"
  BY <1>2 DEF BoundIsComplete, Complete, HasLink, HasQuota, QuotaSet,
         storageVars
<1>3. CASE claim[v] # "bound"
  <2>1. Kept(v) /\ v = req[c].vol /\ req[c].op = "create"
    BY <1>1, <1>3, ReturnClaim DEF Kept
  <2>2. pc[c] # "DeleteSymLnk"
    BY <1>1, <2>1
    DEF SlotInv, Active, CreateSteps, InMap, CreateReads, CreateJobs
  <2>3. HasLink(v) /\ HasQuota(v) /\ dir[v] /\ slink[v]
    BY <1>1, <2>1, <2>2, ProgressOf DEF BeforeLink, BeforeQuota, BeforeDir
  <2> QED
    BY <2>3 DEF Complete, HasLink, HasQuota, QuotaSet, storageVars
<1> QED
  BY <1>2, <1>3

\* Every step keeps bound volumes complete.
LEMMA BoundStep ==
  ASSUME TypeOK, SlotInv, WaitInv, PhaseInv, ProgressInv,
         BoundIsComplete, Grows, [Next]_vars
  PROVE  BoundIsComplete'
<1>1. CASE UNCHANGED claim
  BY <1>1, BoundFrame
<1>2. ASSUME NEW v \in Volumes, Release(v) PROVE BoundIsComplete'
  BY <1>2, BoundFrame DEF Release, TypeOK
<1>3. ASSUME NEW c \in Calls, CheckSymLink(c), Return(c, "OK")
      PROVE  BoundIsComplete'
  <2>1. slink[req[c].vol]
    BY <1>3, SentinelsAssumption, Served
    DEF CheckSymLink, Proceed, Return, Goto, TypeOK
  <2> QED
    BY <1>3, <2>1, ReturnOkBinds DEF CheckSymLink
<1>4. ASSUME NEW c \in Calls, JobOk(c), Return(c, "OK") PROVE BoundIsComplete'
  <2>1. CASE pc[c] \in {"CreateSymLink", "DeleteSymLnk"}
    <3>1. UNCHANGED storageVars
      BY <1>4 DEF JobOk, JobEnded
    <3>2. Kept(req[c].vol) => pc[c] # "DeleteSymLnk" /\ slink[req[c].vol]
      BY <1>4, <2>1, Served, ProgressOf
      DEF JobOk, JobEnded, SlotInv, PhaseInv, Active, InFlight, DeleteSteps,
          CreateSteps, InMap, CreateReads, CreateJobs
    <3> QED
      BY <1>4, <2>1, <3>1, <3>2, ReturnOkBinds
  <2>2. CASE pc[c] \notin {"CreateSymLink", "DeleteSymLnk"}
    BY <1>4, <2>2, BoundFrame DEF JobOk, Proceed, clientVars
  <2> QED
    BY <2>1, <2>2
<1> QED
  BY <1>1, <1>2, <1>3, <1>4, ClaimChange, ReturnBinds


----------------------------------------------------------------------------
(* No stale entry.                                                         *)

\* Handlers that hold an entry stay where it is held.
LEMMA StaleFrame ==
  ASSUME NoStaleEntry, UNCHANGED reqmap,
         \A e \in Calls : pc[e] \in InMap => pc'[e] \in InMap /\ req'[e] = req[e]
  PROVE  NoStaleEntry'
  BY DEF NoStaleEntry

\* A handler that holds an entry and moves on still holds it.
LEMMA ProceedStale ==
  ASSUME TypeOK, NoStaleEntry, NEW c \in Calls, NEW step, Proceed(c, step),
         pc[c] \in InMap => step \in InMap
  PROVE  NoStaleEntry'
  BY StaleFrame DEF TypeOK, Proceed, Goto

\* The entry goes with the handler that returns.
LEMMA ReturnStale ==
  ASSUME TypeOK, NoStaleEntry, NEW c \in Calls, req[c] \in Requests,
         NEW code, Return(c, code)
  PROVE  NoStaleEntry'
<1> SUFFICES ASSUME NEW d \in Drivers, NEW v \in Volumes,
                    reqmap'[d][v] # NoEntry
             PROVE  \E e \in Calls : /\ pc'[e] \in InMap
                                     /\ req'[e].vol = v
                                     /\ req'[e].drv = d
  BY DEF NoStaleEntry
<1>1. /\ reqmap[d][v] # NoEntry
      /\ pc[c] \in InMap => ~(d = req[c].drv /\ v = req[c].vol)
  BY DEF TypeOK, Return, Unmark, Requests
<1>2. PICK e \in Calls : pc[e] \in InMap /\ req[e].vol = v /\ req[e].drv = d
  BY <1>1 DEF NoStaleEntry
<1>3. e # c
  BY <1>1, <1>2
<1> QED
  BY <1>2, <1>3 DEF TypeOK, Return, Goto

\* Every step leaves only entries that a creation holds.
LEMMA NoStaleStep ==
  ASSUME TypeOK, SlotInv, NoStaleEntry, [Next]_vars
  PROVE  NoStaleEntry'
<1> USE DEF handlerVars, storageVars, clientVars
<1>1. ASSUME NEW c \in Calls, Handler(c) PROVE NoStaleEntry'
  <2>1. CASE RefuseInProcess(c)
    BY <1>1, <2>1, Served, ReturnStale DEF RefuseInProcess
  <2>2. CASE PassInProcess(c)
    BY <1>1, <2>2, AtRead, Served, ProceedStale, ReturnStale DEF
      PassInProcess, InMap, CreateReads, CreateJobs, Reads
  <2>3. CASE Mark(c)
    <3>1. pc[c] \notin InMap /\ pc'[c] \in InMap /\ req' = req
      BY <1>1, <2>3 DEF Mark, Goto, TypeOK, InMap, CreateReads, CreateJobs
    <3>2. \A e \in Calls \ {c} : pc'[e] = pc[e]
      BY <1>1, <2>3 DEF Mark, Goto, TypeOK
    <3>3. \A d \in Drivers, v \in Volumes :
           reqmap'[d][v] = reqmap[d][v] \/ (d = req[c].drv /\ v = req[c].vol)
      BY <1>1, <2>3, Served DEF Mark, TypeOK, Requests
    <3> QED
      BY <3>1, <3>2, <3>3 DEF NoStaleEntry
  <2>4. CASE ListFileset(c)
    BY <1>1, <2>4, AtRead, Served, ProceedStale, ReturnStale DEF
      ListFileset, InMap, CreateReads, CreateJobs, Reads, AfterList,
      AfterLink
  <2>5. CASE RelistFileset(c)
    BY <1>1, <2>5, AtRead, Served, ProceedStale, ReturnStale DEF
      RelistFileset, InMap, CreateReads, CreateJobs, Reads, AfterList,
      AfterLink
  <2>6. CASE ListLinked(c)
    BY <1>1, <2>6, AtRead, Served, ProceedStale, ReturnStale DEF
      ListLinked, InMap, CreateReads, CreateJobs, Reads, AfterLink
  <2>7. CASE ListFilesetQuota(c)
    BY <1>1, <2>7, AtRead, Served, ProceedStale, ReturnStale DEF
      ListFilesetQuota, InMap, CreateReads, CreateJobs, Reads
  <2>8. CASE CheckDir(c)
    BY <1>1, <2>8, AtRead, Served, ProceedStale, ReturnStale DEF CheckDir,
      InMap, CreateReads, CreateJobs, Reads
  <2>9. CASE CheckSymLink(c)
    BY <1>1, <2>9, AtRead, Served, ProceedStale, ReturnStale DEF
      CheckSymLink, InMap, CreateReads, CreateJobs, Reads
  <2>10. CASE Lookup(c)
    BY <1>1, <2>10, AtRead, Served, ProceedStale, ReturnStale DEF Lookup,
      InMap, CreateReads, CreateJobs, Reads
  <2>11. CASE FilesetAlreadyDeleted(c)
    BY <1>1, <2>11, AtRead, Served, ProceedStale, ReturnStale DEF
      FilesetAlreadyDeleted, InMap, CreateReads, CreateJobs, Reads
  <2>12. CASE Submit(c)
    BY <1>1, <2>12, StaleFrame DEF Submit, Accepted
  <2>13. CASE JobOk(c)
    BY <1>1, <2>13, Served, ReturnStale, ProceedStale DEF JobOk, JobEnded,
      SlotInv, Active, InFlight, AfterJob, JobKinds, Jobs, TypeOK,
      CreateSteps, DeleteSteps, DeleteJobs, InMap, CreateReads, CreateJobs
  <2>14. CASE JobError(c)
    BY <1>1, <2>14, Served, ReturnStale DEF JobError, JobEnded
  <2> QED
    BY <1>1, <2>1, <2>2, <2>3, <2>4, <2>5, <2>6, <2>7, <2>8, <2>9, <2>10,
      <2>11, <2>12, <2>13, <2>14 DEF Handler
<1>2. ASSUME NEW c \in Calls, Server(c) PROVE NoStaleEntry'
  <2>1. CASE RunCreateFileset(c)
    BY <1>2, <2>1, StaleFrame DEF RunCreateFileset, Runs
  <2>2. CASE RunLinkFileset(c)
    BY <1>2, <2>2, StaleFrame DEF RunLinkFileset, Runs
  <2>3. CASE RunSetFilesetQuota(c)
    BY <1>2, <2>3, StaleFrame DEF RunSetFilesetQuota, Runs
  <2>4. CASE RunMakeDirectory(c)
    BY <1>2, <2>4, StaleFrame DEF RunMakeDirectory, Runs
  <2>5. CASE RunCreateSymLink(c)
    BY <1>2, <2>5, StaleFrame DEF RunCreateSymLink, Runs
  <2>6. CASE RunDeleteFileset(c)
    BY <1>2, <2>6, StaleFrame DEF RunDeleteFileset, Runs
  <2>7. CASE RunDeleteDirectory(c)
    BY <1>2, <2>7, StaleFrame DEF RunDeleteDirectory, Runs
  <2>8. CASE RunDeleteSymLnk(c)
    BY <1>2, <2>8, StaleFrame DEF RunDeleteSymLnk, Runs
  <2> QED
    BY <1>2, <2>1, <2>2, <2>3, <2>4, <2>5, <2>6, <2>7, <2>8 DEF Server
<1>3. ASSUME NEW c \in Calls, Failure(c) PROVE NoStaleEntry'
  <2>1. CASE ReadFails(c)
    BY <1>3, <2>1, Served, ReturnStale DEF ReadFails, Reads, CreateReads
  <2>2. CASE SubmitRefused(c)
    BY <1>3, <2>2, Served, ReturnStale DEF SubmitRefused, JobKinds,
      CreateJobs, DeleteJobs
  <2>3. CASE SubmitLost(c)
    BY <1>3, <2>3, Served, ReturnStale DEF SubmitLost, Accepted, JobKinds,
      CreateJobs, DeleteJobs
  <2>4. CASE PollFails(c)
    BY <1>3, <2>4, Served, ReturnStale DEF PollFails
  <2>5. CASE JobFails(c)
    BY <1>3, <2>5, StaleFrame DEF JobFails
  <2> QED
    BY <1>3, <2>1, <2>2, <2>3, <2>4, <2>5 DEF Failure
<1>4. ASSUME NEW v \in Volumes, NEW c \in Calls, IssueCreate(v, c)
      PROVE  NoStaleEntry'
  BY <1>4, StaleFrame DEF IssueCreate, Issue, FreeSlot, Goto, TypeOK,
    InMap, CreateReads, CreateJobs
<1>5. ASSUME NEW v \in Volumes, NEW c \in Calls, IssueDelete(v, c)
      PROVE  NoStaleEntry'
  BY <1>5, StaleFrame DEF IssueDelete, Issue, FreeSlot, Goto, TypeOK,
    InMap, CreateReads, CreateJobs
<1>6. ASSUME NEW v \in Volumes, Timeout(v) PROVE NoStaleEntry'
  BY <1>6, StaleFrame DEF Timeout
<1>7. ASSUME NEW v \in Volumes, Release(v) PROVE NoStaleEntry'
  BY <1>7, StaleFrame DEF Release
<1>8. ASSUME NEW d \in Drivers, Crash(d) PROVE NoStaleEntry'
  <2>1. \A e \in Calls : req[e] # NoReq /\ req[e].drv # d =>
                         pc'[e] = pc[e] /\ req'[e] = req[e]
    BY <1>8 DEF Crash
  <2>2. \A x \in Drivers, v \in Volumes :
         reqmap'[x][v] # NoEntry => x # d /\ reqmap[x][v] # NoEntry
    BY <1>8 DEF Crash, TypeOK
  <2>3. \A e \in Calls : pc[e] \in InMap => req[e] # NoReq
    BY DEF SlotInv, Active, InMap, CreateReads, CreateJobs
  <2> QED
    BY <2>1, <2>2, <2>3 DEF NoStaleEntry
<1>9. ASSUME NEW d \in Drivers, Failover(d) PROVE NoStaleEntry'
  BY <1>9, StaleFrame DEF Failover
<1>10. CASE UNCHANGED vars
  BY <1>10, StaleFrame DEF vars
<1> QED
  BY <1>1, <1>2, <1>3, <1>4, <1>5, <1>6, <1>7, <1>8, <1>9, <1>10 DEF Next,
    Provisioner, Terminated

----------------------------------------------------------------------------
(* What a step does to one slot.                                           *)

\* The job a slot has after a step: the one it had or none, the one its
\* handler submits, the one it had with an outcome.
JobMoves(e) ==
  \/ job'[e] \in {job[e], NoJob}
  \/ /\ Active(e) /\ pc[e] \in JobKinds
     /\ job'[e].kind = pc[e] /\ job'[e].vol = req[e].vol
     /\ job'[e].st = "running"
  \/ /\ InFlight(e)
     /\ job'[e].kind = job[e].kind /\ job'[e].vol = job[e].vol
     /\ job'[e].st = "failed" \/ Server(e)

\* A handler that stays where it is, one that is gone, a new one ...
Stays(e) == pc'[e] = pc[e] /\ req'[e] = req[e]
Leaves(e) == pc'[e] = "idle" /\ req'[e] = NoReq
Starts(e) ==
  /\ UNCHANGED claim
  /\ \/ /\ pc'[e] = "InProcess" /\ req'[e].op = "create"
        /\ claim[req'[e].vol] = "creating"
     \/ /\ pc'[e] = "Lookup" /\ req'[e].op = "delete"
        /\ claim[req'[e].vol] = "deleting"

\* ... and one that goes on, by what it found of its volume.
Goes(e) ==
  LET v == req[e].vol IN
  /\ Active(e) /\ req'[e] = req[e]
  /\ UNCHANGED storageVars
  /\ pc'[e] = "ListFileset" => v \in FilesetVols
  /\ pc'[e] = "CreateFileset" => pc[e] = "ListFileset"
  /\ pc'[e] = "DeleteFileset" => v \in FilesetVols
  /\ pc'[e] = "DeleteDirectory" => v \notin FilesetVols
  /\ pc'[e] = "DeleteSymLnk" =>
       \/ pc[e] = "DeleteFileset" /\ fset[v] = "absent"
       \/ /\ pc[e] \in {"DeleteFileset", "DeleteDirectory"}
          /\ InFlight(e) /\ JobSucceeded(e)
  /\ pc[e] \in BeforeCompare /\ pc'[e] \notin BeforeCompare =>
       \/ v \notin FilesetVols
       \/ req[e].size = 0
       \/ quota[v] \in {0, req[e].size}

SlotMoves(e) == Stays(e) \/ Leaves(e) \/ Starts(e) \/ Goes(e)

\* A step that is about one slot leaves the others as they are.
LEMMA OtherSlots ==
  ASSUME TypeOK, NEW c \in Calls, NEW e \in Calls,
         Handler(c) \/ Server(c) \/ Failure(c), e # c
  PROVE  Stays(e) /\ job'[e] = job[e]
<1> USE DEF Stays, TypeOK, Proceed, Return, Goto, Accepted, JobEnded, Runs, Ends
<1>1. CASE Handler(c)
  BY <1>1
  DEF Handler, RefuseInProcess, PassInProcess, Mark, ListFileset, RelistFileset,
      ListLinked, ListFilesetQuota, CheckDir, CheckSymLink, Lookup,
      FilesetAlreadyDeleted, Submit, JobOk, JobError
<1>2. CASE Server(c)
  BY <1>2
  DEF Server, RunCreateFileset, RunLinkFileset, RunSetFilesetQuota,
      RunMakeDirectory, RunCreateSymLink, RunDeleteFileset, RunDeleteDirectory,
      RunDeleteSymLnk
<1>3. CASE Failure(c)
  BY <1>3 DEF Failure, ReadFails, SubmitRefused, SubmitLost, PollFails, JobFails
<1> QED
  BY <1>1, <1>2, <1>3

\* A handler that returns leaves.
LEMMA ReturnLeaves ==
  ASSUME TypeOK, NEW c \in Calls, NEW code, Return(c, code)
  PROVE  Leaves(c)
  BY DEF TypeOK, Return, Goto, Leaves

\* A handler that proceeds is at its next step.
LEMMA ProceedGoes ==
  ASSUME TypeOK, NEW c \in Calls, NEW step, Proceed(c, step)
  PROVE  pc'[c] = step /\ req'[c] = req[c]
  BY DEF TypeOK, Proceed, Goto

\* What the slot of a handler that takes a step does.
LEMMA HandlerSlot ==
  ASSUME TypeOK, SlotInv, NEW c \in Calls, Handler(c)
  PROVE  SlotMoves(c) /\ JobMoves(c)
<1> USE DEF SlotMoves, JobMoves, Active, BeforeCompare, BeforeQuota, BeforeLink
<1>0. pc[c] # "idle" => Active(c)
  BY DEF SlotInv
<1>1. CASE RefuseInProcess(c)
  BY <1>1, ReturnLeaves DEF RefuseInProcess
<1>2. CASE PassInProcess(c)
  BY <1>0, <1>2, ProceedGoes DEF PassInProcess, Goes
<1>3. CASE Mark(c)
  BY <1>0, <1>3 DEF Mark, Goto, Goes, TypeOK
<1>4. CASE ListFileset(c)
  BY <1>0, <1>4, ProceedGoes DEF ListFileset, AfterList, AfterLink, Goes
<1>5. CASE RelistFileset(c)
  BY <1>0, <1>5, ProceedGoes, ReturnLeaves
  DEF RelistFileset, AfterList, AfterLink, Goes
<1>6. CASE ListLinked(c)
  BY <1>0, <1>6, ProceedGoes, ReturnLeaves DEF ListLinked, AfterLink, Goes
<1>7. CASE ListFilesetQuota(c)
  BY <1>0, <1>7, ProceedGoes, ReturnLeaves DEF ListFilesetQuota, Goes
<1>8. CASE CheckDir(c)
  BY <1>0, <1>8, ProceedGoes DEF CheckDir, Goes
<1>9. CASE CheckSymLink(c)
  BY <1>0, <1>9, ProceedGoes, ReturnLeaves DEF CheckSymLink, Goes
<1>10. CASE Lookup(c)
  BY <1>0, <1>10, ProceedGoes DEF Lookup, Goes
<1>11. CASE FilesetAlreadyDeleted(c)
  BY <1>0, <1>11, ProceedGoes DEF FilesetAlreadyDeleted, Goes
<1>12. CASE Submit(c)
  BY <1>0, <1>12 DEF Submit, Accepted, Stays, TypeOK, JobKinds, CreateJobs, DeleteJobs
<1>13. CASE JobOk(c)
  <2>1. job'[c] = NoJob /\ InFlight(c) /\ Active(c) /\ UNCHANGED storageVars
    BY <1>0, <1>13 DEF JobOk, JobEnded, TypeOK, InFlight
  <2>2. CASE pc[c] \in {"CreateSymLink", "DeleteSymLnk"}
    BY <1>13, <2>1, <2>2, ReturnLeaves DEF JobOk
  <2>3. CASE pc[c] \notin {"CreateSymLink", "DeleteSymLnk"}
    <3>1. pc'[c] = AfterJob[pc[c]] /\ req'[c] = req[c]
      BY <1>13, <2>3, ProceedGoes DEF JobOk
    <3>2. pc[c] \in {"CreateFileset", "LinkFileset", "SetFilesetQuota",
                     "MakeDirectory", "DeleteFileset", "DeleteDirectory"}
      BY <2>1, <2>3, JobsTyped
      DEF InFlight, SlotInv, Jobs, JobKinds, CreateJobs, DeleteJobs
    <3>3. JobSucceeded(c)
      BY <1>13 DEF JobOk
    <3>4. /\ pc'[c] \in {"RelistFileset", "ListLinked", "CheckDir",
                         "CheckSymLink", "DeleteSymLnk"}
          /\ pc'[c] = "DeleteSymLnk" =>
               pc[c] \in {"DeleteFileset", "DeleteDirectory"}
          /\ pc[c] \in BeforeCompare => pc'[c] \in BeforeCompare
      BY <3>1, <3>2 DEF AfterJob
    <3> HIDE DEF BeforeCompare
    <3> QED
      BY <2>1, <3>1, <3>3, <3>4 DEF Goes
  <2> QED
    BY <2>2, <2>3
<1>14. CASE JobError(c)
  BY <1>14, ReturnLeaves DEF JobError, JobEnded, TypeOK
<1> QED
  BY <1>1, <1>2, <1>3, <1>4, <1>5, <1>6, <1>7, <1>8, <1>9, <1>10, <1>11,
     <1>12, <1>13, <1>14 DEF Handler

\* What the slot whose job the GUI runs does.
LEMMA ServerSlot ==
  ASSUME TypeOK, SlotInv, NEW c \in Calls, Server(c)
  PROVE  SlotMoves(c) /\ JobMoves(c)
<1>1. /\ \E st : Ends(c, st)
      /\ UNCHANGED <<pc, req>>
      /\ job[c] # NoJob
  BY DEF Server, RunCreateFileset, RunLinkFileset, RunSetFilesetQuota,
         RunMakeDirectory, RunCreateSymLink, RunDeleteFileset,
         RunDeleteDirectory, RunDeleteSymLnk, Runs
<1> QED
  BY <1>1, JobsTyped
  DEF SlotMoves, Stays, JobMoves, InFlight, Ends, Jobs, TypeOK

\* What the slot that meets a failure does.
LEMMA FailureSlot ==
  ASSUME TypeOK, SlotInv, NEW c \in Calls, Failure(c)
  PROVE  SlotMoves(c) /\ JobMoves(c)
<1>1. CASE ReadFails(c)
  BY <1>1, ReturnLeaves DEF ReadFails, SlotMoves, JobMoves
<1>2. CASE SubmitRefused(c)
  BY <1>2, ReturnLeaves DEF SubmitRefused, SlotMoves, JobMoves
<1>3. CASE SubmitLost(c)
  BY <1>3, ReturnLeaves
  DEF SubmitLost, Accepted, SlotMoves, JobMoves, TypeOK, SlotInv, Active,
      JobKinds, CreateJobs, DeleteJobs
<1>4. CASE PollFails(c)
  BY <1>4, ReturnLeaves DEF PollFails, SlotMoves, JobMoves, TypeOK
<1>5. CASE JobFails(c)
  <2>1. Stays(c)
    BY <1>5 DEF JobFails, Stays
  <2>2. JobMoves(c)
    BY <1>5, JobsTyped DEF JobFails, Ends, JobMoves, InFlight, TypeOK, Jobs
  <2> QED
    BY <2>1, <2>2 DEF SlotMoves
<1> QED
  BY <1>1, <1>2, <1>3, <1>4, <1>5 DEF Failure

\* What any step does to any slot.
LEMMA SlotChange ==
  ASSUME TypeOK, SlotInv, [Next]_vars, NEW e \in Calls
  PROVE  SlotMoves(e) /\ JobMoves(e)
<1>1. ASSUME NEW c \in Calls, Handler(c) \/ Server(c) \/ Failure(c)
      PROVE  SlotMoves(e) /\ JobMoves(e)
  BY <1>1, OtherSlots, HandlerSlot, ServerSlot, FailureSlot
  DEF SlotMoves, JobMoves
<1>2. ASSUME NEW v \in Volumes, NEW c \in Calls, IssueCreate(v, c)
      PROVE  SlotMoves(e) /\ JobMoves(e)
  <2>1. /\ UNCHANGED <<job, claim>>
        /\ claim[v] = "creating"
        /\ e # c => Stays(e)
        /\ e = c => pc'[e] = "InProcess" /\ req'[e].op = "create" /\ req'[e].vol = v
    BY <1>2 DEF IssueCreate, Issue, Goto, Stays, TypeOK
  <2> QED
    BY <2>1 DEF SlotMoves, Starts, JobMoves
<1>3. ASSUME NEW v \in Volumes, NEW c \in Calls, IssueDelete(v, c)
      PROVE  SlotMoves(e) /\ JobMoves(e)
  <2>1. /\ UNCHANGED <<job, claim>>
        /\ e # c => Stays(e)
        /\ claim[v] = "deleting"
        /\ e = c => pc'[e] = "Lookup" /\ req'[e].op = "delete" /\ req'[e].vol = v
    BY <1>3 DEF IssueDelete, Issue, Goto, Stays, TypeOK
  <2> QED
    BY <2>1 DEF SlotMoves, Starts, JobMoves
<1>4. ASSUME NEW d \in Drivers, Crash(d)
      PROVE  SlotMoves(e) /\ JobMoves(e)
  BY <1>4 DEF Crash, SlotMoves, Stays, Leaves, JobMoves
<1>5. CASE UNCHANGED <<pc, req, job>>
  BY <1>5 DEF SlotMoves, Stays, JobMoves
<1>6. ASSUME NEW v \in Volumes, Timeout(v) \/ Release(v)
      PROVE  UNCHANGED <<pc, req, job>>
  BY <1>6 DEF Timeout, Release, handlerVars
<1>7. ASSUME NEW d \in Drivers, Failover(d)
      PROVE  UNCHANGED <<pc, req, job>>
  BY <1>7 DEF Failover, handlerVars
<1> QED
  BY <1>1, <1>2, <1>3, <1>4, <1>5, <1>6, <1>7
  DEF Next, Provisioner, Terminated, vars, handlerVars

----------------------------------------------------------------------------
(* The theorems.                                                           *)

\* The invariant holds at the start ...
LEMMA InitInv == Init => IndInv /\ NoStaleEntry
<1> SUFFICES ASSUME Init PROVE IndInv /\ NoStaleEntry
  OBVIOUS
<1>1. TypeOK
  <2>1. claim \in [Volumes -> {"creating", "gone"}]
    BY DEF Init
  <2>2. faults \in 0..MaxFaults
    BY FaultsAssumption DEF Init
  <2> QED BY <2>1, <2>2 DEF Init, TypeOK, Steps
<1>2. SlotInv /\ PhaseInv /\ ProgressInv
  BY DEF Init, SlotInv, PhaseInv, ProgressInv, Progress, Active, InFlight
<1>3. WaitInv /\ QuotaInv /\ BoundIsComplete /\ NoStaleEntry
  BY SentinelsAssumption
  DEF Init, WaitInv, QuotaInv, BoundIsComplete, NoStaleEntry
<1> QED
  BY <1>1, <1>2, <1>3 DEF IndInv

\* ... and every step preserves it and loses nothing of a kept volume.
LEMMA StepInv == IndInv /\ [Next]_vars => IndInv' /\ Grows
<1> SUFFICES ASSUME IndInv, [Next]_vars PROVE IndInv' /\ Grows
  OBVIOUS
<1> USE DEF IndInv
<1>1. TypeOK'
  BY TypeStep
<1>2. SlotInv'
  BY <1>1, SlotStep
<1>3. WaitInv'
  BY <1>1, <1>2, WaitStep
<1>4. PhaseInv'
  BY <1>1, PhaseStep
<1>5. Grows
  BY GrowsStep
<1>6. QuotaInv'
  BY QuotaStep
<1>7. ProgressInv'
  BY <1>5, ProgressStep
<1>8. BoundIsComplete'
  BY <1>5, BoundStep
<1> QED
  BY <1>1, <1>2, <1>3, <1>4, <1>5, <1>6, <1>7, <1>8

\* The strengthening is an invariant of every instance, whatever faults occur.
THEOREM Invariance == Spec => []IndInv
<1>1. Init => IndInv
  BY InitInv
<1>2. IndInv /\ [Next]_vars => IndInv'
  BY StepInv
<1> QED
  BY <1>1, <1>2, PTL DEF Spec

\* The state of handlers, jobs, storage and claims has its type.
THEOREM TypeCorrect == Spec => []TypeOK
<1>1. IndInv => TypeOK
  BY DEF IndInv
<1> QED
  BY <1>1, Invariance, PTL

\* A volume reported as created is complete until its claim is deleted: for
\* any number of volumes, concurrent calls, drivers and faults.
THEOREM BoundComplete == Spec => []BoundIsComplete
<1>1. IndInv => BoundIsComplete
  BY DEF IndInv
<1> QED
  BY <1>1, Invariance, PTL

\* Every reqmap entry has a creation running in its driver: "defer delete"
\* leaves none behind on any path, and a crash takes the map with it.
THEOREM NoStale == Spec => []NoStaleEntry
<1>1. Init => NoStaleEntry
  BY InitInv
<1>2. IndInv /\ NoStaleEntry /\ [Next]_vars => NoStaleEntry'
  BY NoStaleStep DEF IndInv
<1> QED
  BY <1>1, <1>2, Invariance, PTL DEF Spec

\* No step loses a piece of a volume whose claim is not being deleted.
THEOREM NothingIsLost == Spec => NothingLost
<1>1. IndInv /\ [Next]_vars => [Grows]_vars
  BY StepInv
<1> QED
  BY <1>1, Invariance, PTL DEF Spec, NothingLost

\* A creation recognises the fileset of an earlier attempt by its quota
\* (controllerserver.go:188-191) when the requests of a volume agree on a
\* size that is a multiple of KB.
THEOREM OwnRecognised ==
  ASSUME \A v \in Volumes : \A s, t \in Sizes[v] : s = t /\ s % KB = 0
  PROVE  Spec => []OwnFilesetRecognised
<1>1. IndInv => OwnFilesetRecognised
  <2> SUFFICES ASSUME IndInv, NEW c \in Calls, pc[c] = "ListFilesetQuota"
               PROVE  quota[req[c].vol] \in {0, req[c].size}
    BY DEF OwnFilesetRecognised
  <2>1. req[c] \in Requests /\ req[c].size \in Sizes[req[c].vol]
    BY DEF IndInv, TypeOK, SlotInv, Active, InMap, CreateReads, DeleteSteps, DeleteJobs
  <2>2. quota[req[c].vol] = 0 \/ QuotaSet(req[c].vol)
    BY <2>1 DEF IndInv, QuotaInv, Requests
  <2>3. \A s \in Sizes[req[c].vol] : Listed(s) = req[c].size
    BY <2>1, SizesAssumption, ListedExact DEF Requests
  <2> QED BY <2>2, <2>3 DEF QuotaSet
<1> QED
  BY <1>1, Invariance, PTL

\* A volume whose size is not a multiple of KB and whose quota is set stays a
\* claim for ever unless the creation that set it succeeds: every other one
\* takes the fileset for somebody else's and errs, whatever its caller does
\* (controllerserver.go:188-191).
THEOREM UnalignedStuck ==
  ASSUME NEW v \in FilesetVols, \A s \in Sizes[v] : s % KB # 0
  PROVE  Spec => [](Stuck(v) => []Stuck(v))
<1>0. v \in Volumes
  BY VolumesAssumption
<1>1. ASSUME NEW s \in Sizes[v], NEW t \in Sizes[v]
      PROVE  s # 0 /\ Listed(s) # 0 /\ Listed(s) # t
  <2>1. s \in Nat /\ t \in Nat
    BY <1>0, SizesAssumption
  <2>2. Listed(s) # t
    BY <2>1, ListedExact
  <2>3. s # 0
    <3>1. 0 % KB = 0
      BY KBAssumption, ModuloRange, Division
    <3> QED
      BY <3>1
  <2>4. s <= Listed(s) /\ Listed(s) \in Nat
    BY <2>1, ListedRounds
  <2> QED
    BY <2>1, <2>2, <2>3, <2>4
<1>2. IndInv /\ Stuck(v) /\ [Next]_vars => Stuck(v)'
  <2> SUFFICES ASSUME IndInv, Stuck(v), [Next]_vars PROVE Stuck(v)'
    OBVIOUS
  <2> USE DEF IndInv
  <2>1. QuotaSet(v)
    BY <1>0 DEF Stuck, QuotaInv
  <2>2. ASSUME NEW c \in Calls, pc[c] # "idle", req[c].vol = v
        PROVE  pc[c] \in BeforeCompare
    BY <2>2 DEF SlotInv, Stuck
  <2>3. claim'[v] = "creating"
    <3>1. ASSUME NEW c \in Calls, pc[c] # "idle", Return(c, "OK"),
                 CheckSymLink(c) \/ JobOk(c), req[c].vol = v
          PROVE  claim'[v] = claim[v]
      <4>1. pc[c] \in BeforeCompare
        BY <2>2, <3>1
      <4> QED
        BY <3>1, <4>1
        DEF CheckSymLink, JobOk, Proceed, clientVars, BeforeCompare, BeforeQuota,
            BeforeLink
    <3>2. ASSUME NEW c \in Calls, NEW code, pc[c] # "idle", Return(c, code),
                 code = "OK" => CheckSymLink(c) \/ JobOk(c)
          PROVE  claim'[v] = claim[v]
      BY <1>0, <3>1, <3>2, Served, ReturnClaim
    <3>3. ASSUME NEW u \in Volumes, Release(u) PROVE claim'[v] = claim[v]
      BY <1>0, <3>3 DEF Release, TypeOK, Stuck
    <3> QED
      BY <3>2, <3>3, ClaimChange DEF Stuck
  <2>4. quota'[v] # 0
    <3>1. QuotaSet(v)'
      BY <1>0, <1>1, <2>1, <2>3, StepInv DEF Grows, Kept, HasQuota
    <3> QED
      BY <1>1, <3>1 DEF QuotaSet
  <2>5. ASSUME NEW c \in Calls, Active(c)', req'[c].vol = v
        PROVE  pc'[c] \in BeforeCompare
    <3>1. SlotMoves(c)
      BY SlotChange
    <3>2. CASE Stays(c)
      BY <2>5, <3>2 DEF Stays, Active, Stuck
    <3>3. CASE Starts(c)
      BY <1>0, <2>3, <2>5, <3>3
      DEF Starts, Stuck, BeforeCompare, BeforeQuota, BeforeLink
    <3>4. CASE Goes(c)
      <4>1. Active(c) /\ req'[c] = req[c] /\ req[c].vol = v
        BY <2>5, <3>4 DEF Goes
      <4>2. pc[c] \in BeforeCompare /\ req[c].op = "create"
        BY <4>1 DEF Stuck, PhaseInv, Kept, SlotInv
      <4>3. req[c].size \in Sizes[v] /\ quota[v] \notin {0, req[c].size}
        BY <1>1, <2>1, <4>1, <4>2 DEF SlotInv, QuotaSet
      <4> QED
        BY <1>1, <3>4, <4>1, <4>2, <4>3 DEF Goes
    <3> QED
      BY <2>5, <3>1, <3>2, <3>3, <3>4 DEF SlotMoves, Leaves, Active
  <2> QED
    BY <2>3, <2>4, <2>5 DEF Stuck
<1> QED
  BY <1>2, Invariance, PTL DEF Spec
=============================================================================
