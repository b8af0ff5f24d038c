-------------------------- MODULE ControllerPublish --------------------------
(***************************************************************************)
(* ControllerPublishVolume of the controller service (driver/csiplugin/    *)
(* controllerserver.go), the GUI's mount jobs, and the external attacher   *)
(* that calls it.                                                          *)
(*                                                                         *)
(* A volume can be used on a node when two filesystems are mounted there:  *)
(* the primary one, which holds the volume's symlink, and the volume's     *)
(* own.  The handler looks at both, one GET each, and then answers, or     *)
(* mounts what it found missing, one job after the other.  Handlers for    *)
(* one node run beside each other, and mounts change meanwhile.            *)
(*                                                                         *)
(* Abstractions.  An attachment is a filesystem and a node: volumes of one *)
(* filesystem do not differ here.  Looking up the filesystem's name by its *)
(* UUID reads only configuration.  ControllerUnpublishVolume changes       *)
(* nothing and its answer does not depend on state.                        *)
(***************************************************************************)
EXTENDS Naturals

CONSTANTS
  Filesystems, Primary,  \* filesystems; the primary one
  Nodes,                 \* nodes pods run on
  Calls,                 \* slots for concurrent RPCs
  Settings,              \* values SKIP_MOUNT_UNMOUNT may have
  FaultKinds,            \* the faults a behaviour may contain
  MaxFaults,             \* bound on their number
  NoCall, NoReq, NoJob

Attachments == Filesystems \X Nodes
Jobs == [fs : Filesystems, node : Nodes, st : {"running", "completed", "failed"}]

ASSUME PrimaryAssumption == Primary \in Filesystems
ASSUME SettingsAssumption == Settings \subseteq {"yes", "no", "other"}
ASSUME FaultsAssumption == MaxFaults \in Nat
ASSUME SentinelsAssumption ==
  NoCall \notin Calls /\ NoReq \notin Attachments /\ NoJob \notin Jobs

VARIABLES
  pc,        \* the step each handler is at; "idle" when the slot is free
  req,       \* the attachment it serves
  saw,       \* what it saw mounted: of the primary and the volume's filesystem
  job,       \* the mount job of its latest REST call
  skip,      \* the setting of SKIP_MOUNT_UNMOUNT
  known,     \* the nodes that the mapping or their name takes to a GUI node
  mounted,   \* the filesystems and nodes that are mounted
  attach,    \* what the attacher knows of each attachment
  waiting,   \* the call it is waiting for, per attachment
  lost,      \* nodes that have lost a filesystem
  faults     \* faults so far

handlerVars  == <<pc, req, saw>>
attacherVars == <<attach, waiting>>
configVars   == <<skip, known>>
vars == <<handlerVars, job, configVars, mounted, lost, attacherVars, faults>>

MountSteps == {"MountPrimary", "MountVolume"}
Steps == {"idle", "GetPrimary", "GetVolume"} \cup MountSteps
Nothing == [primary |-> FALSE, volume |-> FALSE]

Init ==
  /\ pc = [c \in Calls |-> "idle"]
  /\ req = [c \in Calls |-> NoReq]
  /\ saw = [c \in Calls |-> Nothing]
  /\ job = [c \in Calls |-> NoJob]
  /\ skip \in Settings
  /\ known \in SUBSET Nodes
  /\ mounted \in SUBSET (Filesystems \X Nodes)
  /\ lost = {}
  /\ attach = [a \in Attachments |-> "detached"]
  /\ waiting = [a \in Attachments |-> NoCall]
  /\ faults = 0

Fault(kind) ==
  /\ kind \in FaultKinds
  /\ faults < MaxFaults
  /\ faults' = faults + 1

----------------------------------------------------------------------------
(* The attacher.                                                           *)

\* A pod that uses the volume comes to the node.
Want(a) ==
  /\ attach[a] = "detached"
  /\ attach' = [attach EXCEPT ![a] = "attaching"]
  /\ UNCHANGED <<configVars, lost, handlerVars, job, mounted, waiting, faults>>

IssuePublish(a) ==
  /\ attach[a] = "attaching"
  /\ waiting[a] = NoCall
  /\ \E c \in Calls :
       /\ pc[c] = "idle"
       /\ job[c] = NoJob
       /\ pc' = [pc EXCEPT ![c] = "GetPrimary"]
       /\ req' = [req EXCEPT ![c] = a]
       /\ waiting' = [waiting EXCEPT ![a] = c]
  /\ UNCHANGED <<configVars, lost, saw, job, mounted, attach, faults>>

\* The attacher gives a call up and will repeat it; the handler goes on.
Timeout(a) ==
  /\ waiting[a] # NoCall
  /\ Fault("timeout")
  /\ waiting' = [waiting EXCEPT ![a] = NoCall]
  /\ UNCHANGED <<configVars, lost, handlerVars, job, mounted, attach>>

\* The last pod leaves the node: ControllerUnpublishVolume answers OK.
Detach(a) ==
  /\ attach[a] = "attached"
  /\ Fault("detach")
  /\ attach' = [attach EXCEPT ![a] = "detached"]
  /\ UNCHANGED <<configVars, lost, handlerVars, job, mounted, waiting>>

----------------------------------------------------------------------------
(* The handler.                                                            *)

Fs(c)   == req[c][1]
Node(c) == req[c][2]

\* The GUI lists the node among those that mounted the filesystem.
IsMounted(fs, n) == n \in known /\ <<fs, n>> \in mounted

\* Mutant of Return: the answer itself is taken for the attachment's state.
ReturnCode(c, code) ==
  LET a == req[c] IN
  /\ pc' = [pc EXCEPT ![c] = "idle"]
  /\ req' = [req EXCEPT ![c] = NoReq]
  /\ saw' = [saw EXCEPT ![c] = Nothing]
  /\ IF waiting[a] = c
     THEN /\ waiting' = [waiting EXCEPT ![a] = NoCall]
          /\ attach' = [attach EXCEPT ![a] = code]
     ELSE UNCHANGED attacherVars

\* The caller hears the answer only if it still waits for this call.
Return(c, code) ==
  LET a == req[c] IN
  /\ pc' = [pc EXCEPT ![c] = "idle"]
  /\ req' = [req EXCEPT ![c] = NoReq]
  /\ saw' = [saw EXCEPT ![c] = Nothing]
  /\ IF waiting[a] = c
     THEN /\ waiting' = [waiting EXCEPT ![a] = NoCall]
          /\ attach' = IF code = "OK"
                       THEN [attach EXCEPT ![a] = "attached"] ELSE attach
     ELSE UNCHANGED attacherVars

Proceed(c, step, s) ==
  /\ pc' = [pc EXCEPT ![c] = step]
  /\ saw' = [saw EXCEPT ![c] = s]
  /\ UNCHANGED <<req, attacherVars>>

\* Mutant of Decide: one filesystem is enough.
DecideOnEither(c, s) ==
  \/ /\ s.primary \/ s.volume
     /\ Return(c, "OK")
  \/ /\ ~s.primary /\ ~s.volume
     /\ skip = "no"
     /\ Proceed(c, "MountPrimary", s)

\* Mutant of Decide: the setting is looked at before the mounts.
DecideSkipFirst(c, s) ==
  \/ skip = "yes" /\ Return(c, "error")
  \/ /\ skip # "yes"
     /\ IF s.primary /\ s.volume THEN Return(c, "OK")
        ELSE Proceed(c, IF s.primary THEN "MountVolume" ELSE "MountPrimary", s)

\* A setting that is neither "yes" nor "no" mounts nothing and answers OK.
Decide(c, s) ==
  \/ /\ s.primary /\ s.volume
     /\ Return(c, "OK")
  \/ /\ ~(s.primary /\ s.volume)
     /\ \/ skip = "yes" /\ Return(c, "error")
        \/ skip = "no" /\ ~s.primary /\ Proceed(c, "MountPrimary", s)
        \/ skip = "no" /\ s.primary /\ Proceed(c, "MountVolume", s)
        \/ skip = "other" /\ Return(c, "OK")

GetPrimary(c) ==
  LET p == IsMounted(Primary, Node(c)) IN
  /\ pc[c] = "GetPrimary"
  /\ IF Fs(c) = Primary
     THEN Decide(c, [primary |-> p, volume |-> p])
     ELSE Proceed(c, "GetVolume", [primary |-> p, volume |-> FALSE])
  /\ UNCHANGED <<configVars, lost, job, mounted, faults>>

GetVolume(c) ==
  /\ pc[c] = "GetVolume"
  /\ Decide(c, [saw[c] EXCEPT !.volume = IsMounted(Fs(c), Node(c))])
  /\ UNCHANGED <<configVars, lost, job, mounted, faults>>

Accepted(c) ==
  /\ pc[c] \in MountSteps
  /\ job[c] = NoJob
  /\ job' = [job EXCEPT ![c] =
       [fs |-> IF pc[c] = "MountPrimary" THEN Primary ELSE Fs(c),
        node |-> Node(c), st |-> "running"]]

MountFilesystem(c) ==
  /\ Accepted(c)
  /\ UNCHANGED <<configVars, lost, handlerVars, mounted, attacherVars, faults>>

\* Mutant of MountNeeded: the second mount is left out.
NoSecondMount(c) == FALSE

\* What it saw before the first mount decides whether there is a second.
MountNeeded(c) ==
  pc[c] = "MountPrimary" /\ ~saw[c].volume /\ Fs(c) # Primary

MountDone(c) ==
  /\ pc[c] \in MountSteps
  /\ job[c] # NoJob
  /\ \/ job[c].st = "completed" /\ MountNeeded(c)
          /\ Proceed(c, "MountVolume", saw[c])
     \/ job[c].st = "completed" /\ ~MountNeeded(c) /\ Return(c, "OK")
     \/ job[c].st = "failed" /\ Return(c, "error")
  /\ job' = [job EXCEPT ![c] = NoJob]
  /\ UNCHANGED <<configVars, lost, mounted, faults>>

----------------------------------------------------------------------------
(* The GUI and the nodes.                                                  *)

Ends(c, st) ==
  job' = [job EXCEPT ![c] = IF pc[c] = "idle" THEN NoJob
                                              ELSE [@ EXCEPT !.st = st]]

\* Mounting what is mounted may succeed or fail.
RunMount(c) ==
  LET m == <<job[c].fs, job[c].node>> IN
  /\ job[c] # NoJob
  /\ job[c].st = "running"
  /\ \/ /\ job[c].node \in known
        /\ mounted' = mounted \cup {m}
        /\ Ends(c, "completed")
     \/ /\ job[c].node \notin known \/ m \in mounted
        /\ UNCHANGED mounted
        /\ Ends(c, "failed")
  /\ UNCHANGED <<configVars, lost, handlerVars, attacherVars, faults>>

\* An administrator mounts a filesystem.
AdminMount(m) ==
  /\ m \notin mounted
  /\ mounted' = mounted \cup {m}
  /\ UNCHANGED <<configVars, lost, handlerVars, job, attacherVars, faults>>

\* A node loses a filesystem.
Unmount(m) ==
  /\ m \in mounted
  /\ Fault("unmount")
  /\ lost' = lost \cup {m[2]}
  /\ mounted' = mounted \ {m}
  /\ UNCHANGED <<configVars, handlerVars, job, attacherVars>>

----------------------------------------------------------------------------
(* Failures.                                                               *)

\* A GET fails, a request is refused, or a poll fails.  The job of a poll
\* that failed goes on.
CallFails(c) ==
  /\ pc[c] # "idle"
  /\ Fault("rest")
  /\ job' = IF job[c] # NoJob /\ job[c].st # "running"
            THEN [job EXCEPT ![c] = NoJob] ELSE job
  /\ Return(c, "error")
  /\ UNCHANGED <<configVars, lost, mounted>>

\* The GUI accepts a request and the response is lost.
SubmitLost(c) ==
  /\ Fault("lost")
  /\ Accepted(c)
  /\ Return(c, "error")
  /\ UNCHANGED <<configVars, lost, mounted>>

MountFails(c) ==
  /\ job[c] # NoJob
  /\ job[c].st = "running"
  /\ Fault("jobfail")
  /\ Ends(c, "failed")
  /\ UNCHANGED <<configVars, lost, handlerVars, mounted, attacherVars>>

----------------------------------------------------------------------------

Attacher(a) == Want(a) \/ IssuePublish(a) \/ Timeout(a) \/ Detach(a)
Handler(c) == GetPrimary(c) \/ GetVolume(c) \/ MountFilesystem(c) \/ MountDone(c)
Fails(c) == CallFails(c) \/ SubmitLost(c) \/ MountFails(c)

Attached ==
  /\ \A a \in Attachments : attach[a] = "attached"
  /\ UNCHANGED vars

Next ==
  \/ \E a \in Attachments : Attacher(a)
  \/ \E c \in Calls : Handler(c) \/ RunMount(c) \/ Fails(c)
  \/ \E m \in Filesystems \X Nodes : AdminMount(m) \/ Unmount(m)
  \/ Attached

Spec == Init /\ [][Next]_vars

\* Handlers and the GUI run; the attacher repeats what has not succeeded.
\* When the driver is told not to mount, an administrator does.
Fairness ==
  /\ \A c \in Calls : WF_vars(Handler(c)) /\ WF_vars(RunMount(c))
  /\ \A a \in Attachments : WF_vars(IssuePublish(a))
  /\ \A m \in Filesystems \X Nodes : WF_vars(skip = "yes" /\ AdminMount(m))

FairSpec == Spec /\ Fairness

----------------------------------------------------------------------------
(* Properties.                                                             *)

\* Every variable has its type.
TypeOK ==
  /\ pc \in [Calls -> Steps]
  /\ req \in [Calls -> Attachments \cup {NoReq}]
  /\ saw \in [Calls -> [primary : BOOLEAN, volume : BOOLEAN]]
  /\ job \in [Calls -> Jobs \cup {NoJob}]
  /\ skip \in {"yes", "no", "other"}
  /\ known \in SUBSET Nodes
  /\ mounted \in SUBSET (Filesystems \X Nodes)
  /\ lost \in SUBSET Nodes
  /\ attach \in [Attachments -> {"detached", "attaching", "attached"}]
  /\ waiting \in [Attachments -> Calls \cup {NoCall}]
  /\ faults \in 0..MaxFaults

\* Both filesystems are mounted where a volume is attached: what was seen
\* or mounted in several steps is there together at the end
\* (controllerserver.go:774-842).  On nodes that have lost no filesystem, and
\* with a setting the driver knows.
AttachedIsMounted ==
  skip # "other" => \A a \in Attachments :
    attach[a] = "attached" /\ a[2] \notin lost =>
      <<Primary, a[2]>> \in mounted /\ <<a[1], a[2]>> \in mounted

\* What a handler has seen or mounted is there.
SeenIsMounted ==
  \A c \in Calls :
    IF pc[c] = "idle" THEN saw[c] = Nothing
    ELSE /\ req[c] \in Attachments
         /\ Node(c) \notin lost =>
              /\ saw[c].primary => <<Primary, Node(c)>> \in mounted
              /\ saw[c].volume => <<Fs(c), Node(c)>> \in mounted
              /\ pc[c] = "MountVolume" => <<Primary, Node(c)>> \in mounted

\* A handler's job mounts what its step says, and has when it completed.
JobFits ==
  \A c \in Calls :
    /\ pc[c] \in {"GetPrimary", "GetVolume"} => job[c] = NoJob
    /\ pc[c] \in MountSteps /\ job[c] # NoJob =>
         /\ job[c].node = Node(c)
         /\ job[c].fs = IF pc[c] = "MountPrimary" THEN Primary ELSE Fs(c)
         /\ job[c].st = "completed" /\ Node(c) \notin lost =>
              <<job[c].fs, job[c].node>> \in mounted

\* The inductive invariant: at every step of a handler, what its answer will
\* rest on is mounted (controllerserver.go:774-842).
AttachInv ==
  /\ TypeOK
  /\ SeenIsMounted
  /\ JobFits
  /\ AttachedIsMounted

\* An attachment is attached once nothing fails any more.  Mounts that fail
\* because another handler was faster are seen by the next attempt.
AttachConverges ==
  \A a \in Attachments :
    attach[a] = "attaching" /\ a[2] \in known ~> attach[a] = "attached"
=============================================================================
