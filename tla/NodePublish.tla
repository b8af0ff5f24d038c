----------------------------- MODULE NodePublish -----------------------------
(***************************************************************************)
(* NodePublishVolume and NodeUnpublishVolume of the node service           *)
(* (driver/csiplugin/nodeserver.go) and the kubelet that calls them.       *)
(*                                                                         *)
(* Publishing makes the target path a symlink to the volume's symlink:     *)
(* stat, rmdir of the directory that may be there, ln -sf, and then the    *)
(* answer.  These are steps of their own, two of them processes, and the   *)
(* server's mutex is not taken around them.  A handler whose caller gave   *)
(* up keeps running.                                                       *)
(*                                                                         *)
(* Abstractions.  Targets are the paths of one volume in different pods.   *)
(* Removing a target is one step.  Malformed requests, which change        *)
(* nothing, are not issued.                                                *)
(***************************************************************************)
EXTENDS Naturals

CONSTANTS
  Targets,      \* target paths
  Calls,        \* slots for concurrent RPCs
  FaultKinds,   \* the faults a behaviour may contain
  MaxFaults,    \* bound on their number
  NoCall, NoTarget

ASSUME FaultsAssumption == MaxFaults \in Nat
ASSUME SentinelsAssumption == NoCall \notin Calls /\ NoTarget \notin Targets

VARIABLES
  pc,       \* the step each handler is at; "idle" when the slot is free
  tgt,      \* the target path of its request
  target,   \* what is at each target path
  stray,    \* was a link made inside the volume, through the target path?
  mounted,  \* is the volume's filesystem mounted on this node?
  pod,      \* what the kubelet knows of the target's pod
  waiting,  \* the call it is waiting for, per target
  late,     \* was its tear-down requested while a publish was under way?
  unsettled, \* targets whose caller gave up or whose mount changed so far
  faults    \* faults so far

handlerVars == <<pc, tgt>>
nodeVars    == <<target, stray, mounted>>
kubeletVars == <<pod, waiting, late>>
vars == <<handlerVars, nodeVars, kubeletVars, unsettled, faults>>

\* The steps up to the link, and all of both handlers.
PublishSteps == {"Stat", "Rmdir", "Ln"}
Steps == PublishSteps \cup {"idle", "Linked", "RemoveAll", "Removed"}

Init ==
  /\ pc = [c \in Calls |-> "idle"]
  /\ tgt = [c \in Calls |-> NoTarget]
  /\ target = [t \in Targets |-> "absent"]
  /\ stray = [t \in Targets |-> FALSE]
  /\ mounted = TRUE
  /\ pod = [t \in Targets |-> "starting"]
  /\ waiting = [t \in Targets |-> NoCall]
  /\ late = [t \in Targets |-> FALSE]
  /\ unsettled = {}
  /\ faults = 0

Fault(kind) ==
  /\ kind \in FaultKinds
  /\ faults < MaxFaults
  /\ faults' = faults + 1

Publishing(t) == \E c \in Calls : pc[c] \in PublishSteps /\ tgt[c] = t

----------------------------------------------------------------------------
(* The kubelet.                                                            *)

Issue(t, step) ==
  \E c \in Calls :
    /\ pc[c] = "idle"
    /\ pc' = [pc EXCEPT ![c] = step]
    /\ tgt' = [tgt EXCEPT ![c] = t]
    /\ waiting' = [waiting EXCEPT ![t] = c]

\* Some versions of the kubelet make the target directory before the call.
IssuePublish(t) ==
  /\ pod[t] = "starting"
  /\ waiting[t] = NoCall
  /\ Issue(t, "Stat")
  /\ \/ UNCHANGED target
     \/ target[t] = "absent" /\ target' = [target EXCEPT ![t] = "dir"]
  /\ UNCHANGED <<stray, mounted, pod, late, unsettled, faults>>

\* A kubelet that restarted may publish once more what it had published.
Republish(t) ==
  /\ pod[t] = "running"
  /\ waiting[t] = NoCall
  /\ Fault("republish")
  /\ Issue(t, "Stat")
  /\ UNCHANGED <<nodeVars, pod, late, unsettled>>

IssueUnpublish(t) ==
  /\ pod[t] \in {"starting", "running", "stopping"}
  /\ waiting[t] = NoCall
  /\ Issue(t, "RemoveAll")
  /\ pod' = [pod EXCEPT ![t] = "stopping"]
  /\ late' = IF Publishing(t) THEN [late EXCEPT ![t] = TRUE] ELSE late
  /\ UNCHANGED <<nodeVars, unsettled, faults>>

\* The kubelet gives a call up and will repeat it; the handler goes on.
Timeout(t) ==
  /\ waiting[t] # NoCall
  /\ Fault("timeout")
  /\ waiting' = [waiting EXCEPT ![t] = NoCall]
  /\ unsettled' = unsettled \cup {t}
  /\ UNCHANGED <<handlerVars, nodeVars, pod, late>>

----------------------------------------------------------------------------
(* The handlers.                                                           *)

Goto(c, step) ==
  /\ pc' = [pc EXCEPT ![c] = step]
  /\ UNCHANGED <<tgt, kubeletVars>>

\* Mutant of Return: the answer itself is taken for the pod's state.
ReturnCode(c, code) ==
  LET t == tgt[c] IN
  /\ pc' = [pc EXCEPT ![c] = "idle"]
  /\ tgt' = [tgt EXCEPT ![c] = NoTarget]
  /\ IF waiting[t] = c
     THEN /\ waiting' = [waiting EXCEPT ![t] = NoCall]
          /\ pod' = [pod EXCEPT ![t] = code]
          /\ UNCHANGED late
     ELSE UNCHANGED kubeletVars

\* The caller hears the answer only if it still waits for this call.
Return(c, code) ==
  LET t == tgt[c] IN
  /\ pc' = [pc EXCEPT ![c] = "idle"]
  /\ tgt' = [tgt EXCEPT ![c] = NoTarget]
  /\ IF waiting[t] = c
     THEN /\ waiting' = [waiting EXCEPT ![t] = NoCall]
          /\ pod' = IF code # "OK" THEN pod
                    ELSE [pod EXCEPT ![t] = IF pc[c] = "Removed"
                                            THEN "gone" ELSE "running"]
          /\ UNCHANGED late
     ELSE UNCHANGED kubeletVars

\* os.Stat follows a symlink: it finds nothing behind a link to a volume
\* whose filesystem is not mounted.
Found(t) ==
  \/ target[t] \in {"dir", "dirlink"}
  \/ target[t] = "link" /\ mounted

\* Mutant of Stat: nothing is removed.
StatNeverRemoves(c) ==
  /\ pc[c] = "Stat"
  /\ Goto(c, "Ln")
  /\ UNCHANGED <<nodeVars, unsettled, faults>>

\* Mutant of Stat: a target that is there is refused.
StatRefuses(c) ==
  /\ pc[c] = "Stat"
  /\ IF Found(tgt[c]) THEN Return(c, "error") ELSE Goto(c, "Ln")
  /\ UNCHANGED <<nodeVars, unsettled, faults>>

Stat(c) ==
  /\ pc[c] = "Stat"
  /\ Goto(c, IF Found(tgt[c]) THEN "Rmdir" ELSE "Ln")
  /\ UNCHANGED <<nodeVars, unsettled, faults>>

\* Mutant of Rmdir: whatever is there is removed.
RmdirForce(c) ==
  /\ pc[c] = "Rmdir"
  /\ target' = [target EXCEPT ![tgt[c]] = "absent"]
  /\ Goto(c, "Ln")
  /\ UNCHANGED <<stray, mounted, unsettled, faults>>

\* rmdir refuses a symlink, a directory that is not empty, and nothing.
Rmdir(c) ==
  /\ pc[c] = "Rmdir"
  /\ \/ /\ target[tgt[c]] = "dir"
        /\ target' = [target EXCEPT ![tgt[c]] = "absent"]
        /\ Goto(c, "Ln")
     \/ /\ target[tgt[c]] # "dir"
        /\ UNCHANGED target
        /\ Return(c, "error")
  /\ UNCHANGED <<stray, mounted, unsettled, faults>>

\* ln -sf, without -n: a target that is a directory, or a link to one,
\* gets the new link inside.
Ln(c) ==
  LET t == tgt[c] IN
  /\ pc[c] = "Ln"
  /\ \/ /\ target[t] = "absent" \/ (target[t] = "link" /\ ~mounted)
        /\ target' = [target EXCEPT ![t] = "link"]
        /\ UNCHANGED stray
     \/ /\ target[t] \in {"dir", "dirlink"}
        /\ target' = [target EXCEPT ![t] = "dirlink"]
        /\ UNCHANGED stray
     \/ /\ target[t] = "link" /\ mounted
        /\ stray' = [stray EXCEPT ![t] = TRUE]
        /\ UNCHANGED target
  /\ Goto(c, "Linked")
  /\ UNCHANGED <<mounted, unsettled, faults>>

\* Mutant of RemoveAll: a directory is removed only when empty.
RemoveEmpty(c) ==
  /\ pc[c] = "RemoveAll"
  /\ \/ /\ target[tgt[c]] = "dirlink"
        /\ UNCHANGED target
        /\ Return(c, "error")
     \/ /\ target[tgt[c]] # "dirlink"
        /\ target' = [target EXCEPT ![tgt[c]] = "absent"]
        /\ Goto(c, "Removed")
  /\ UNCHANGED <<stray, mounted, unsettled, faults>>

\* Mutant of RemoveAll: a link is taken for something to be unmounted.
RemoveDirOnly(c) ==
  /\ pc[c] = "RemoveAll"
  /\ target' = [target EXCEPT ![tgt[c]] = IF @ = "link" THEN @ ELSE "absent"]
  /\ Goto(c, "Removed")
  /\ UNCHANGED <<stray, mounted, unsettled, faults>>

\* os.RemoveAll removes a link, not what it points to, and is content when
\* there is nothing.
RemoveAll(c) ==
  /\ pc[c] = "RemoveAll"
  /\ target' = [target EXCEPT ![tgt[c]] = "absent"]
  /\ Goto(c, "Removed")
  /\ UNCHANGED <<stray, mounted, unsettled, faults>>

\* The link is made, or the target removed: success.
Answer(c) ==
  /\ pc[c] \in {"Linked", "Removed"}
  /\ Return(c, "OK")
  /\ UNCHANGED <<nodeVars, unsettled, faults>>

\* A command cannot be run, or the removal fails.
CommandFails(c) ==
  /\ pc[c] \in {"Rmdir", "Ln", "RemoveAll"}
  /\ Fault("command")
  /\ Return(c, "error")
  /\ UNCHANGED <<nodeVars, unsettled>>

----------------------------------------------------------------------------
(* The driver and the node.                                                *)

\* The driver's container dies and its handlers with it, also those that had
\* made their link and not yet answered.
Crash ==
  /\ Fault("crash")
  /\ \E c \in Calls : pc[c] # "idle"
  /\ pc' = [c \in Calls |-> "idle"]
  /\ tgt' = [c \in Calls |-> NoTarget]
  /\ waiting' = [t \in Targets |-> NoCall]
  /\ UNCHANGED <<nodeVars, pod, late, unsettled>>

\* The filesystem is mounted or unmounted on the node.
MountChange ==
  /\ Fault("mount")
  /\ mounted' = ~mounted
  /\ unsettled' = Targets
  /\ UNCHANGED <<handlerVars, target, stray, kubeletVars>>

Terminated ==
  /\ \A t \in Targets : pod[t] = "gone"
  /\ \A c \in Calls : pc[c] = "idle"
  /\ UNCHANGED vars

Kubelet(t) == IssuePublish(t) \/ Republish(t) \/ IssueUnpublish(t) \/ Timeout(t)
Handler(c) == Stat(c) \/ Rmdir(c) \/ Ln(c) \/ RemoveAll(c) \/ Answer(c)

Next ==
  \/ \E t \in Targets : Kubelet(t)
  \/ \E c \in Calls : Handler(c) \/ CommandFails(c)
  \/ Crash
  \/ MountChange
  \/ Terminated

Spec == Init /\ [][Next]_vars

\* Handlers run on; the kubelet repeats what has not succeeded.
Fairness ==
  /\ \A c \in Calls : WF_vars(Handler(c))
  /\ \A t \in Targets :
       /\ WF_vars(IssuePublish(t))
       /\ WF_vars(pod[t] = "stopping" /\ IssueUnpublish(t))

FairSpec == Spec /\ Fairness

----------------------------------------------------------------------------
(* Properties.                                                             *)

\* Every variable has its type.
TypeOK ==
  /\ pc \in [Calls -> Steps]
  /\ tgt \in [Calls -> Targets \cup {NoTarget}]
  /\ target \in [Targets -> {"absent", "dir", "dirlink", "link"}]
  /\ stray \in [Targets -> BOOLEAN]
  /\ mounted \in BOOLEAN
  /\ pod \in [Targets -> {"starting", "running", "stopping", "gone"}]
  /\ waiting \in [Targets -> Calls \cup {NoCall}]
  /\ late \in [Targets -> BOOLEAN]
  /\ unsettled \in SUBSET Targets
  /\ faults \in 0..MaxFaults

\* A pod that was told its volume is published finds the link at the target
\* path, whatever earlier attempts, repeated calls and the node's mounts do
\* at the same time (nodeserver.go:80-98).
PublishedIsLinked ==
  \A t \in Targets : pod[t] = "running" => target[t] = "link"

\* Nothing is left at the path of a pod whose volume was unpublished
\* (nodeserver.go:113-116), unless a publish was still under way then.
GoneIsRemoved ==
  \A t \in Targets : pod[t] = "gone" /\ ~late[t] => target[t] = "absent"

\* Publishing writes nothing into the volume, however often it is repeated
\* and whatever dies in between (nodeserver.go:89), unless a publish outlived
\* its caller or a mount changed.
VolumeUntouched == \A t \in Targets : stray[t] => t \in unsettled

\* What a handler has to do with its target: the call waited for is live and
\* fits the pod's state; unpublishes run only for pods being torn down; a
\* publish that is waited for has no directory before it at ln, and its link
\* stays until it answers.
CallInv ==
  /\ \A c \in Calls :
       /\ pc[c] # "idle" => tgt[c] \in Targets
       /\ pc[c] \in {"RemoveAll", "Removed"} => pod[tgt[c]] \in {"stopping", "gone"}
  /\ \A t \in Targets : \A c \in Calls : waiting[t] = c =>
       /\ tgt[c] = t
       /\ \/ pc[c] \in PublishSteps \cup {"Linked"} /\ pod[t] \in {"starting", "running"}
          \/ pc[c] \in {"RemoveAll", "Removed"} /\ pod[t] = "stopping"
       /\ pc[c] = "Ln" => target[t] \in {"absent", "link"}
       /\ pc[c] = "Linked" => target[t] = "link"

\* A pod that is torn down has no publish before it unless that is late, and
\* what was removed stays so.
TearDownInv ==
  \A t \in Targets : ~late[t] =>
    /\ pod[t] \in {"stopping", "gone"} => ~Publishing(t)
    /\ waiting[t] \in Calls /\ pc[waiting[t]] = "Removed" => target[t] = "absent"
    /\ pod[t] = "gone" => target[t] = "absent"

\* As long as no caller gave up, the only call for a target is the one waited
\* for, and ln finds no link it could follow.
SettledInv ==
  \A t \in Targets \ unsettled : \A c \in Calls : tgt[c] = t =>
    /\ waiting[t] = c
    /\ pc[c] = "Ln" /\ target[t] = "link" => ~mounted

\* The inductive invariant: what the answer to a publish or an unpublish
\* relies on, for every handler on its way (nodeserver.go:80-116).
NodeInv ==
  /\ TypeOK
  /\ CallInv
  /\ PublishedIsLinked
  /\ TearDownInv
  /\ SettledInv
  /\ VolumeUntouched

\* The link is there and no handler left that could answer for it.
Unheard(t) == target[t] = "link" /\ \A c \in Calls : tgt[c] # t

\* A pod that is not torn down gets its volume once commands work, unless its
\* caller gave up or the driver died between ln and the answer: a second
\* publish after a first that succeeded unheard is refused for as long as the
\* volume can be reached (nodeserver.go:80-97).
PublishConverges ==
  \A t \in Targets :
    pod[t] = "starting" ~> \/ pod[t] # "starting"
                           \/ t \in unsettled \/ Unheard(t)

\* A volume that is being unpublished is unpublished in the end.
UnpublishConverges ==
  \A t \in Targets : pod[t] = "stopping" ~> pod[t] = "gone"
=============================================================================
