------------------------------- MODULE Rollout -------------------------------
(***************************************************************************)
(* What the operator promises whoever writes the custom resource: versions *)
(* of the configuration are rolled out one after the other and never taken *)
(* back; the pods are told of a version only when it is published; a driver *)
(* comes up only with the published version, if that is usable and at least *)
(* the one its pod was made for; and nothing is withdrawn before the        *)
(* resource is deleted, everything before it is gone.                      *)
(***************************************************************************)
EXTENDS Naturals

CONSTANTS
  Nodes,
  Versions,  \* of the configuration: numbers, the newer the greater
  Usable     \* those that a driver accepts

VARIABLES
  life,      \* of the resource
  target,    \* the version being rolled out; 0 if there never was any
  published, \* the version that drivers read; 0 if none
  template,  \* the version that new pods are made for; 0 if none
  expected,  \* the version each node's pod was made for; 0 if none
  serving    \* the version each node's driver runs with; 0 if none

centre == <<published, template>>
nodes  == <<expected, serving>>
vars   == <<life, target, centre, nodes>>

Init ==
  /\ life = "absent" /\ target = 0
  /\ published = 0 /\ template = 0
  /\ expected = [p \in Nodes |-> 0]
  /\ serving = [p \in Nodes |-> 0]

\* A later version may be taken up, never an earlier one.
Onward == target' = target \/ (target' \in Versions /\ target' > target)

\* After a deletion only a later version is written.
Write ==
  /\ life # "deleting"
  /\ life' = "present"
  /\ Onward
  /\ life = "absent" => target' # target
  /\ UNCHANGED <<centre, nodes>>

Retire ==
  /\ life = "present"
  /\ life' = "deleting"
  /\ UNCHANGED <<target, centre, nodes>>

Retarget ==
  /\ life # "absent"
  /\ Onward
  /\ UNCHANGED <<life, centre, nodes>>

Publish ==
  /\ life # "absent"
  /\ published' = target
  /\ UNCHANGED <<life, target, template, nodes>>

\* The next version may be taken up at once.
Roll ==
  /\ life # "absent"
  /\ published = target
  /\ template' = target
  /\ Onward
  /\ UNCHANGED <<life, published, nodes>>

Withdraw ==
  /\ life = "deleting"
  /\ template' = 0
  /\ UNCHANGED <<life, target, published, nodes>>

Unpublish ==
  /\ life = "deleting"
  /\ template = 0
  /\ published' = 0
  /\ UNCHANGED <<life, target, template, nodes>>

Forget ==
  /\ life = "deleting"
  /\ template = 0 /\ published = 0
  /\ life' = "absent"
  /\ Onward
  /\ UNCHANGED <<centre, nodes>>

Place(p) ==
  /\ expected' = [expected EXCEPT ![p] = template]
  /\ serving' = [serving EXCEPT ![p] = 0]
  /\ UNCHANGED <<life, target, centre>>

Serve(p) ==
  /\ expected[p] # 0 /\ serving[p] = 0
  /\ published \in Usable /\ published >= expected[p]
  /\ serving' = [serving EXCEPT ![p] = published]
  /\ UNCHANGED <<life, target, centre, expected>>

Stop(p) ==
  /\ serving' = [serving EXCEPT ![p] = 0]
  /\ UNCHANGED <<life, target, centre, expected>>

Next ==
  \/ Write \/ Retire \/ Retarget \/ Publish \/ Roll
  \/ Withdraw \/ Unpublish \/ Forget
  \/ \E p \in Nodes : Place(p) \/ Serve(p) \/ Stop(p)

Spec == Init /\ [][Next]_vars
=============================================================================
