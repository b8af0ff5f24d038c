-------------------------- MODULE NodePublishProofs --------------------------
(***************************************************************************)
(* Proofs about NodePublish, for any number of pods, calls and faults.     *)
(***************************************************************************)
EXTENDS NodePublish, TLAPS

\* Nothing has been called yet: the invariant holds of the first state.
LEMMA InitInv == Init => NodeInv
  BY FaultsAssumption, SentinelsAssumption
  DEF Init, NodeInv, TypeOK, CallInv, PublishedIsLinked, TearDownInv, Steps,
      PublishSteps, Publishing, SettledInv, VolumeUntouched

\* A call is issued only when none is waited for, so that no call that is
\* waited for sees the directory made for it after its rmdir.
LEMMA KubeletInv ==
  ASSUME NodeInv, NEW t \in Targets, Kubelet(t)
  PROVE  NodeInv'
  <1> USE FaultsAssumption, SentinelsAssumption
      DEF NodeInv, TypeOK, CallInv, PublishedIsLinked, TearDownInv, Steps,
          PublishSteps, Publishing, SettledInv, VolumeUntouched, nodeVars, kubeletVars, handlerVars
  <1>1. CASE IssuePublish(t)
    BY <1>1 DEF IssuePublish, Issue
  <1>2. CASE Republish(t)
    BY <1>2 DEF Republish, Issue, Fault
  <1>3. CASE IssueUnpublish(t)
    <2>1. TypeOK' /\ CallInv' /\ PublishedIsLinked' /\ SettledInv' /\ VolumeUntouched'
      BY <1>3 DEF IssueUnpublish, Issue
    <2>2. TearDownInv'
      <3>1. /\ pod' = [pod EXCEPT ![t] = "stopping"]
            /\ late' = IF Publishing(t) THEN [late EXCEPT ![t] = TRUE] ELSE late
            /\ target' = target
        BY <1>3 DEF IssueUnpublish
      <3>2. PICK c \in Calls : /\ pc[c] = "idle"
                              /\ pc' = [pc EXCEPT ![c] = "RemoveAll"]
                              /\ tgt' = [tgt EXCEPT ![c] = t]
                              /\ waiting' = [waiting EXCEPT ![t] = c]
        BY <1>3 DEF IssueUnpublish, Issue
      <3>3. \A u \in Targets : Publishing(u)' => Publishing(u)
        BY <3>2
      <3>4. \A u \in Targets :
              waiting'[u] \in Calls /\ pc'[waiting'[u]] = "Removed" =>
                u # t /\ waiting[u] \in Calls /\ pc[waiting[u]] = "Removed"
        BY <3>2
      <3>5. \A u \in Targets : ~late'[u] =>
              ~late[u] /\ (u = t => ~Publishing(t))
        BY <3>1
      <3> SUFFICES ASSUME NEW u \in Targets, ~late'[u]
                   PROVE  /\ pod'[u] \in {"stopping", "gone"} => ~Publishing(u)'
                          /\ waiting'[u] \in Calls /\ pc'[waiting'[u]] = "Removed" => target'[u] = "absent"
                          /\ pod'[u] = "gone" => target'[u] = "absent"
        OBVIOUS
      <3>6. u # t => pod'[u] = pod[u]
        BY <3>1
      <3>7. u = t => pod'[u] = "stopping"
        BY <3>1
      <3>8. pod'[u] \in {"stopping", "gone"} => ~Publishing(u)'
        BY <3>3, <3>5, <3>6
      <3> QED BY <3>1, <3>4, <3>5, <3>6, <3>7, <3>8
    <2> QED BY <2>1, <2>2
  <1>4. CASE Timeout(t)
    BY <1>4 DEF Timeout, Fault
  <1> QED BY <1>1, <1>2, <1>3, <1>4 DEF Kubelet

\* A handler acts on its own target; what it does there leaves a published
\* link in place, and only a handler with the link made answers OK.
LEMMA HandlerInv ==
  ASSUME NodeInv, NEW c \in Calls, Handler(c) \/ CommandFails(c)
  PROVE  NodeInv'
  <1> USE FaultsAssumption, SentinelsAssumption
      DEF NodeInv, TypeOK, CallInv, PublishedIsLinked, TearDownInv, Steps,
          PublishSteps, Publishing, SettledInv, VolumeUntouched, nodeVars, kubeletVars, handlerVars
  <1>1. CASE Stat(c)
    BY <1>1 DEF Stat, Found, Goto
  <1>2. CASE Rmdir(c)
    <2>1. CASE target[tgt[c]] = "dir"
      BY <1>2, <2>1 DEF Rmdir, Goto
    <2>2. CASE target[tgt[c]] # "dir"
      BY <1>2, <2>2 DEF Rmdir, Return
    <2> QED BY <2>1, <2>2
  <1>3. CASE Ln(c)
    <2> DEFINE t == tgt[c]
    <2>0. pc[c] = "Ln" /\ t \in Targets /\ Goto(c, "Linked") /\ UNCHANGED <<mounted, unsettled, faults>>
      BY <1>3 DEF Ln
    <2>1. CASE target[t] = "absent" \/ (target[t] = "link" /\ ~mounted)
      <3>1. target' = [target EXCEPT ![t] = "link"] /\ UNCHANGED stray
        BY <1>3, <2>1 DEF Ln
      <3>2. CASE waiting[t] = c
        BY <2>0, <3>1, <3>2, <2>1 DEF Goto
      <3>3. CASE waiting[t] # c
        BY <2>0, <3>1, <3>3, <2>1 DEF Goto
      <3> QED BY <3>2, <3>3
    <2>2. CASE target[t] \in {"dir", "dirlink"}
      <3>1. target' = [target EXCEPT ![t] = "dirlink"] /\ UNCHANGED stray
        BY <1>3, <2>2 DEF Ln
      <3>2. waiting[t] # c
        BY <2>0, <2>2
      <3> QED BY <2>0, <3>1, <3>2, <2>2 DEF Goto
    <2>3. CASE target[t] = "link" /\ mounted
      <3>1. stray' = [stray EXCEPT ![t] = TRUE] /\ UNCHANGED target
        BY <1>3, <2>3 DEF Ln
      <3>2. CASE waiting[t] = c
        BY <2>0, <3>1, <3>2, <2>3 DEF Goto
      <3>3. CASE waiting[t] # c
        BY <2>0, <3>1, <3>3, <2>3 DEF Goto
      <3> QED BY <3>2, <3>3
    <2> QED BY <2>0, <2>1, <2>2, <2>3
  <1>4. CASE RemoveAll(c)
    BY <1>4 DEF RemoveAll, Goto
  <1>5. CASE CommandFails(c)
    BY <1>5 DEF CommandFails, Return, Fault
  <1>6. CASE Answer(c)
    BY <1>6 DEF Answer, Return
  <1> QED BY <1>1, <1>2, <1>3, <1>4, <1>5, <1>6 DEF Handler

\* The invariant is inductive.
LEMMA NextInv == NodeInv /\ [Next]_vars => NodeInv'
  <1> SUFFICES ASSUME NodeInv, [Next]_vars PROVE NodeInv'
    OBVIOUS
  <1> USE DEF NodeInv, TypeOK, CallInv, PublishedIsLinked, TearDownInv,
              SettledInv, VolumeUntouched, Publishing, Steps, PublishSteps, nodeVars, kubeletVars, handlerVars
  <1>1. CASE Crash
    BY <1>1, FaultsAssumption, SentinelsAssumption DEF Crash, Fault
  <1>2. CASE MountChange
    BY <1>2, FaultsAssumption DEF MountChange, Fault
  <1>3. CASE UNCHANGED vars
    BY <1>3 DEF vars
  <1> QED
    BY <1>1, <1>2, <1>3, KubeletInv, HandlerInv DEF Next, Terminated

\* NodeInv holds in every state: handlers and kubelet agree on what is under
\* way at a target (nodeserver.go:80-116).
THEOREM NodeInvariance == Spec => []NodeInv
  BY InitInv, NextInv, PTL DEF Spec

\* A pod told that its volume is published finds the link at its target,
\* with any number of attempts and repeated calls beside each other.
THEOREM PublishedLinked == Spec => []PublishedIsLinked
  <1>1. NodeInv => PublishedIsLinked
    BY DEF NodeInv
  <1> QED BY <1>1, NodeInvariance, PTL

\* Nothing is left behind for a pod that was torn down, unless a publish for
\* it was still running then (nodeserver.go:113-116).
THEOREM GoneRemoved == Spec => []GoneIsRemoved
  <1>1. NodeInv => GoneIsRemoved
    BY DEF NodeInv, TearDownInv, GoneIsRemoved
  <1> QED BY <1>1, NodeInvariance, PTL

\* Publishing writes nothing into the volume as long as no publish outlives
\* its caller and no mount changes (nodeserver.go:80-89).
THEOREM Untouched == Spec => []VolumeUntouched
  <1>1. NodeInv => VolumeUntouched
    BY DEF NodeInv
  <1> QED BY <1>1, NodeInvariance, PTL

\* Handlers, targets and the kubelet's knowledge have their types.
THEOREM TypeCorrect == Spec => []TypeOK
  <1>1. NodeInv => TypeOK
    BY DEF NodeInv
  <1> QED BY <1>1, NodeInvariance, PTL
=============================================================================
