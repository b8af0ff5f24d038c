----------------------- MODULE ControllerPublishProofs -----------------------
(***************************************************************************)
(* Proofs about ControllerPublish, for any number of filesystems, nodes,   *)
(* calls and faults.                                                       *)
(***************************************************************************)
EXTENDS ControllerPublish, TLAPS

\* Nothing has been called yet: the invariant holds of the first states.
LEMMA InitInv == Init => AttachInv
  <1> SUFFICES ASSUME Init PROVE AttachInv
    OBVIOUS
  <1>1. faults \in 0..MaxFaults /\ mounted \in SUBSET (Filesystems \X Nodes)
        /\ skip \in {"yes", "no", "other"}
    BY FaultsAssumption, SettingsAssumption DEF Init
  <1>2. TypeOK
    BY <1>1 DEF Init, TypeOK, Steps, Nothing
  <1> QED
    BY <1>2 DEF Init, AttachInv, SeenIsMounted, JobFits, AttachedIsMounted, MountSteps

\* A handler's answer OK is heard only where both filesystems are mounted.
LEMMA ReturnInv ==
  ASSUME AttachInv, NEW c \in Calls, pc[c] # "idle",
         NEW code, Return(c, code),
         code = "OK" /\ skip # "other" /\ Node(c) \notin lost =>
           /\ <<Primary, Node(c)>> \in mounted
           /\ <<Fs(c), Node(c)>> \in mounted,
         UNCHANGED <<configVars, lost, mounted>>, faults' \in 0..MaxFaults,
         job' \in [Calls -> Jobs \cup {NoJob}],
         \A d \in Calls \ {c} : job'[d] = job[d]
  PROVE  AttachInv'
  <1>1. req[c] \in Attachments
    BY DEF AttachInv, SeenIsMounted
  <1>2. TypeOK'
    BY <1>1 DEF AttachInv, TypeOK, Return, Steps, Nothing, attacherVars, configVars
  <1>3. SeenIsMounted' /\ JobFits'
    BY <1>1 DEF AttachInv, TypeOK, SeenIsMounted, JobFits, Return, Fs, Node, MountSteps, configVars
  <1>4. AttachedIsMounted'
    BY <1>1 DEF AttachInv, TypeOK, AttachedIsMounted, Return, Fs, Node, attacherVars, configVars
  <1> QED BY <1>2, <1>3, <1>4 DEF AttachInv

\* A handler that goes on to a mount has no job yet.
LEMMA ProceedInv ==
  ASSUME AttachInv, NEW c \in Calls, pc[c] # "idle",
         NEW step \in {"GetVolume", "MountPrimary", "MountVolume"},
         NEW s \in [primary : BOOLEAN, volume : BOOLEAN], Proceed(c, step, s),
         Node(c) \notin lost =>
           /\ s.primary => <<Primary, Node(c)>> \in mounted
           /\ s.volume => <<Fs(c), Node(c)>> \in mounted
           /\ step = "MountVolume" => <<Primary, Node(c)>> \in mounted,
         UNCHANGED <<configVars, lost, mounted, faults>>,
         job' = [job EXCEPT ![c] = NoJob]
  PROVE  AttachInv'
  <1>1. TypeOK'
    BY DEF AttachInv, TypeOK, Proceed, Steps, MountSteps, attacherVars, configVars
  <1>2. SeenIsMounted' /\ JobFits'
    BY DEF AttachInv, TypeOK, SeenIsMounted, JobFits, Proceed, Fs, Node, MountSteps, configVars
  <1>3. AttachedIsMounted'
    BY DEF AttachInv, AttachedIsMounted, Proceed, attacherVars, configVars
  <1> QED BY <1>1, <1>2, <1>3 DEF AttachInv

\* What a handler decides from what it saw.
LEMMA DecideInv ==
  ASSUME AttachInv, NEW c \in Calls, pc[c] \in {"GetPrimary", "GetVolume"},
         NEW s \in [primary : BOOLEAN, volume : BOOLEAN], Decide(c, s),
         Node(c) \notin lost =>
           /\ s.primary => <<Primary, Node(c)>> \in mounted
           /\ s.volume => <<Fs(c), Node(c)>> \in mounted,
         UNCHANGED <<job, configVars, lost, mounted, faults>>
  PROVE  AttachInv'
  <1>1. job' = [job EXCEPT ![c] = NoJob] /\ job \in [Calls -> Jobs \cup {NoJob}]
        /\ faults \in 0..MaxFaults
    BY DEF AttachInv, JobFits, TypeOK, configVars
  <1>2. CASE s.primary /\ s.volume /\ Return(c, "OK")
    BY <1>1, <1>2, ReturnInv
  <1>3. CASE Return(c, "error")
    BY <1>1, <1>3, ReturnInv
  <1>4. CASE Proceed(c, "MountPrimary", s)
    BY <1>1, <1>4, ProceedInv
  <1>5. CASE s.primary /\ Proceed(c, "MountVolume", s)
    BY <1>1, <1>5, ProceedInv
  <1>6. CASE skip = "other" /\ Return(c, "OK")
    BY <1>1, <1>6, ReturnInv
  <1> QED BY <1>2, <1>3, <1>4, <1>5, <1>6 DEF Decide

\* The two looks, and the mounts.
LEMMA HandlerInv ==
  ASSUME AttachInv, NEW c \in Calls, Handler(c)
  PROVE  AttachInv'
  <1>0. /\ pc[c] # "idle" => req[c] \in Attachments
        /\ job \in [Calls -> Jobs \cup {NoJob}] /\ faults \in 0..MaxFaults
        /\ saw[c] \in [primary : BOOLEAN, volume : BOOLEAN]
    BY DEF AttachInv, TypeOK, SeenIsMounted, configVars
  <1>1. CASE GetPrimary(c)
    <2> DEFINE p == IsMounted(Primary, Node(c))
    <2>1. p \in BOOLEAN /\ (p => <<Primary, Node(c)>> \in mounted)
      BY DEF IsMounted
    <2>2. CASE Fs(c) = Primary
      <3>1. Decide(c, [primary |-> p, volume |-> p])
        BY <1>1, <2>2 DEF GetPrimary
      <3> HIDE DEF p
      <3> QED BY <1>1, <2>1, <2>2, <3>1, DecideInv DEF GetPrimary
    <2>3. CASE Fs(c) # Primary
      <3>1. Proceed(c, "GetVolume", [primary |-> p, volume |-> FALSE])
        BY <1>1, <2>3 DEF GetPrimary
      <3>2. job' = [job EXCEPT ![c] = NoJob]
        BY <1>0, <1>1 DEF GetPrimary, AttachInv, JobFits
      <3> HIDE DEF p
      <3> QED BY <1>1, <2>1, <3>1, <3>2, ProceedInv DEF GetPrimary
    <2> QED BY <2>2, <2>3
  <1>2. CASE GetVolume(c)
    <2> DEFINE v == IsMounted(Fs(c), Node(c))
               s == [saw[c] EXCEPT !.volume = v]
    <2>1. v \in BOOLEAN /\ (v => <<Fs(c), Node(c)>> \in mounted)
      BY DEF IsMounted
    <2>2. Decide(c, s) /\ pc[c] = "GetVolume" /\ UNCHANGED <<job, configVars, lost, mounted, faults>>
      BY <1>2 DEF GetVolume
    <2>3. s \in [primary : BOOLEAN, volume : BOOLEAN]
          /\ s.primary = saw[c].primary /\ s.volume = v
      BY <1>0, <2>1
    <2>4. Node(c) \notin lost /\ s.primary => <<Primary, Node(c)>> \in mounted
      BY <2>2, <2>3 DEF AttachInv, SeenIsMounted
    <2> HIDE DEF s, v
    <2> QED BY <2>1, <2>2, <2>3, <2>4, DecideInv
  <1>3. CASE MountFilesystem(c)
    <2> DEFINE j == [fs |-> IF pc[c] = "MountPrimary" THEN Primary ELSE Fs(c),
                     node |-> Node(c), st |-> "running"]
    <2>1. /\ pc[c] \in MountSteps /\ job' = [job EXCEPT ![c] = j]
          /\ UNCHANGED <<pc, req, saw, configVars, lost, mounted, attach, waiting, faults>>
      BY <1>3 DEF MountFilesystem, Accepted, handlerVars, attacherVars
    <2>2. j \in Jobs /\ j.fs = (IF pc[c] = "MountPrimary" THEN Primary ELSE Fs(c))
          /\ j.node = Node(c) /\ j.st = "running"
      BY <1>0, <2>1, PrimaryAssumption DEF Jobs, Attachments, Fs, Node, MountSteps
    <2> HIDE DEF j
    <2> QED
      BY <1>0, <2>1, <2>2
      DEF AttachInv, TypeOK, SeenIsMounted, JobFits, AttachedIsMounted, Fs, Node, MountSteps, configVars
  <1>4. CASE MountDone(c)
    <2>1. /\ pc[c] \in MountSteps /\ job[c] # NoJob
          /\ job' = [job EXCEPT ![c] = NoJob] /\ UNCHANGED <<configVars, lost, mounted, faults>>
      BY <1>4 DEF MountDone
    <2>2. job' \in [Calls -> Jobs \cup {NoJob}] /\ faults' \in 0..MaxFaults
          /\ \A d \in Calls \ {c} : job'[d] = job[d]
      BY <1>0, <2>1
    <2>3. job[c].st = "completed" /\ Node(c) \notin lost =>
            /\ pc[c] = "MountPrimary" => <<Primary, Node(c)>> \in mounted
            /\ pc[c] = "MountVolume" => /\ <<Primary, Node(c)>> \in mounted
                                        /\ <<Fs(c), Node(c)>> \in mounted
            /\ saw[c].primary => <<Primary, Node(c)>> \in mounted
            /\ saw[c].volume => <<Fs(c), Node(c)>> \in mounted
      BY <2>1 DEF AttachInv, SeenIsMounted, JobFits, MountSteps
    <2>4. CASE /\ job[c].st = "completed" /\ MountNeeded(c)
               /\ Proceed(c, "MountVolume", saw[c])
      BY <1>0, <2>1, <2>3, <2>4, ProceedInv DEF MountNeeded, MountSteps
    <2>5. CASE job[c].st = "completed" /\ ~MountNeeded(c) /\ Return(c, "OK")
      <3>1. Node(c) \notin lost =>
              /\ <<Primary, Node(c)>> \in mounted
              /\ <<Fs(c), Node(c)>> \in mounted
        BY <2>1, <2>3, <2>5 DEF MountNeeded, MountSteps
      <3> QED BY <2>1, <2>2, <2>5, <3>1, ReturnInv DEF MountSteps
    <2>6. CASE Return(c, "error")
      BY <2>1, <2>2, <2>6, ReturnInv DEF MountSteps
    <2> QED BY <1>4, <2>4, <2>5, <2>6 DEF MountDone
  <1> QED BY <1>1, <1>2, <1>3, <1>4 DEF Handler

\* A job that ends changes only its own slot, and mounts when it completes.
LEMMA JobInv ==
  ASSUME AttachInv, NEW c \in Calls, NEW st \in {"completed", "failed"},
         job[c] # NoJob, Ends(c, st),
         mounted \subseteq mounted', mounted' \in SUBSET (Filesystems \X Nodes),
         st = "completed" => <<job[c].fs, job[c].node>> \in mounted',
         UNCHANGED <<configVars, lost, handlerVars, attacherVars>>, faults' \in 0..MaxFaults
  PROVE  AttachInv'
  <1>1. job[c] \in Jobs /\ [job[c] EXCEPT !.st = st] \in Jobs
    BY DEF AttachInv, TypeOK, Jobs, configVars
  <1>2. /\ job' \in [Calls -> Jobs \cup {NoJob}]
        /\ \A d \in Calls \ {c} : job'[d] = job[d]
        /\ pc[c] # "idle" => /\ job'[c].fs = job[c].fs
                             /\ job'[c].node = job[c].node
                             /\ job'[c].st = st
    BY <1>1 DEF Ends, AttachInv, TypeOK, Jobs, configVars
  <1>3. TypeOK'
    BY <1>2 DEF AttachInv, TypeOK, handlerVars, attacherVars, configVars
  <1>4. SeenIsMounted' /\ AttachedIsMounted'
    BY DEF AttachInv, SeenIsMounted, AttachedIsMounted, handlerVars, attacherVars,
           Fs, Node, configVars
  <1>5. JobFits'
    BY <1>2 DEF AttachInv, JobFits, handlerVars, Fs, Node, MountSteps
  <1> QED BY <1>3, <1>4, <1>5 DEF AttachInv

\* Whatever a mount job or a fault does.
LEMMA EnvironmentInv ==
  ASSUME AttachInv, NEW c \in Calls, RunMount(c) \/ Fails(c)
  PROVE  AttachInv'
  <1>0. job \in [Calls -> Jobs \cup {NoJob}]
        /\ mounted \in SUBSET (Filesystems \X Nodes)
        /\ faults \in 0..MaxFaults
    BY DEF AttachInv, TypeOK, configVars
  <1>1. CASE RunMount(c)
    <2>1. job[c] \in Jobs /\ <<job[c].fs, job[c].node>> \in Filesystems \X Nodes
      BY <1>0, <1>1 DEF RunMount, Jobs
    <2> QED BY <1>0, <1>1, <2>1, JobInv DEF RunMount
  <1>2. CASE MountFails(c)
    <2>1. faults' \in 0..MaxFaults
      BY <1>0, <1>2, FaultsAssumption DEF MountFails, Fault
    <2>2. /\ job[c] # NoJob /\ Ends(c, "failed")
          /\ UNCHANGED <<configVars, lost, handlerVars, mounted, attacherVars>>
      BY <1>2 DEF MountFails
    <2> QED BY <1>0, <2>1, <2>2, JobInv
  <1>3. CASE CallFails(c)
    <2>1. faults' \in 0..MaxFaults
      BY <1>0, <1>3, FaultsAssumption DEF CallFails, Fault
    <2>2. /\ job' \in [Calls -> Jobs \cup {NoJob}]
          /\ \A d \in Calls \ {c} : job'[d] = job[d]
      BY <1>0, <1>3 DEF CallFails
    <2>3. pc[c] # "idle" /\ Return(c, "error") /\ UNCHANGED <<configVars, lost, mounted>>
      BY <1>3 DEF CallFails
    <2> QED BY <2>1, <2>2, <2>3, ReturnInv
  <1>4. CASE SubmitLost(c)
    <2> DEFINE j == [fs |-> IF pc[c] = "MountPrimary" THEN Primary ELSE Fs(c),
                     node |-> Node(c), st |-> "running"]
    <2>1. pc[c] \in MountSteps /\ job' = [job EXCEPT ![c] = j]
          /\ Return(c, "error") /\ UNCHANGED <<configVars, lost, mounted>>
      BY <1>4 DEF SubmitLost, Accepted
    <2>2. j \in Jobs
      BY <2>1, PrimaryAssumption
      DEF AttachInv, SeenIsMounted, Jobs, Attachments, Fs, Node, MountSteps
    <2>3. faults' \in 0..MaxFaults
      BY <1>0, <1>4, FaultsAssumption DEF SubmitLost, Fault
    <2> HIDE DEF j
    <2> QED BY <1>0, <2>1, <2>2, <2>3, ReturnInv DEF MountSteps
  <1> QED BY <1>1, <1>2, <1>3, <1>4 DEF Fails

\* The attacher's steps and an administrator's mounts touch no handler on
\* its way.
LEMMA AttacherInv ==
  ASSUME AttachInv,
         \/ \E a \in Attachments : Attacher(a)
         \/ \E m \in Filesystems \X Nodes : AdminMount(m) \/ Unmount(m)
  PROVE  AttachInv'
  <1> USE FaultsAssumption
      DEF AttachInv, TypeOK, SeenIsMounted, JobFits, AttachedIsMounted,
          handlerVars, attacherVars, Fault, Fs, Node, MountSteps, Steps, configVars
  <1>1. CASE \E a \in Attachments : IssuePublish(a)
    <2>1. PICK a \in Attachments, c \in Calls :
            /\ pc[c] = "idle" /\ job[c] = NoJob
            /\ pc' = [pc EXCEPT ![c] = "GetPrimary"]
            /\ req' = [req EXCEPT ![c] = a]
            /\ waiting' = [waiting EXCEPT ![a] = c]
            /\ UNCHANGED <<saw, job, configVars, lost, mounted, attach, faults>>
      BY <1>1 DEF IssuePublish
    <2>2. saw[c] = Nothing
      BY <2>1
    <2> QED BY <2>1, <2>2 DEF Nothing
  <1>2. ASSUME NEW a \in Attachments, Want(a) \/ Timeout(a) \/ Detach(a)
        PROVE  AttachInv'
    <2>1. CASE Want(a)
      BY <2>1 DEF Want
    <2>2. CASE Timeout(a)
      BY <2>2 DEF Timeout
    <2>3. CASE Detach(a)
      BY <2>3 DEF Detach
    <2> QED BY <1>2, <2>1, <2>2, <2>3
  <1>3. CASE \E m \in Filesystems \X Nodes : AdminMount(m)
    BY <1>3 DEF AdminMount
  <1>4. CASE \E m \in Filesystems \X Nodes : Unmount(m)
    BY <1>4 DEF Unmount
  <1> QED BY <1>1, <1>2, <1>3, <1>4 DEF Attacher

\* The invariant is inductive.
LEMMA NextInv == AttachInv /\ [Next]_vars => AttachInv'
  <1> SUFFICES ASSUME AttachInv, [Next]_vars PROVE AttachInv'
    OBVIOUS
  <1>1. CASE UNCHANGED vars
    BY <1>1 DEF vars, handlerVars, attacherVars, AttachInv, TypeOK, SeenIsMounted,
                JobFits, AttachedIsMounted, Fs, Node, configVars
  <1> QED
    BY <1>1, HandlerInv, EnvironmentInv, AttacherInv DEF Next, Attached

\* AttachInv holds in every state: what a handler's answer will rest on is
\* mounted from when it sees it, until the node loses a filesystem
\* (controllerserver.go:774-842).
THEOREM AttachInvariance == Spec => []AttachInv
  BY InitInv, NextInv, PTL DEF Spec

\* Both filesystems are mounted where a volume is attached, on every node
\* that has lost none.
THEOREM AttachedMounted == Spec => []AttachedIsMounted
  <1>1. AttachInv => AttachedIsMounted
    BY DEF AttachInv
  <1> QED BY <1>1, AttachInvariance, PTL

\* Handlers, mount jobs and attachments have their types.
THEOREM TypeCorrect == Spec => []TypeOK
  <1>1. AttachInv => TypeOK
    BY DEF AttachInv
  <1> QED BY <1>1, AttachInvariance, PTL
=============================================================================
