--------------------------- MODULE VolumeContract ---------------------------
(***************************************************************************)
(* What the controller promises whoever creates and deletes volumes through *)
(* it: a volume only grows until it is complete, is reported created only   *)
(* then, stays complete until its deletion is requested, only shrinks from  *)
(* then on, and is reported deleted only when nothing of it is left.        *)
(***************************************************************************)
CONSTANT Volumes

VARIABLES
  life,   \* what its owner knows of a volume
  stored  \* how much of it the storage holds

vars == <<life, stored>>

Lives == {"creating", "bound", "deleting", "gone"}
Extents == {"nothing", "some", "all"}

\* The extents a volume of a given extent may shrink to.
Below == [nothing |-> {}, some |-> {"nothing"}, all |-> {"nothing", "some"}]

Init ==
  /\ life \in [Volumes -> {"creating", "gone"}]
  /\ stored = [v \in Volumes |-> "nothing"]

Enter(v, from, to) ==
  /\ life[v] = from
  /\ life' = [life EXCEPT ![v] = to]
  /\ UNCHANGED stored

Build(v) ==
  /\ life[v] = "creating"
  /\ \E x \in Extents : /\ stored[v] \in Below[x]
                        /\ stored' = [stored EXCEPT ![v] = x]
  /\ UNCHANGED life

Bind(v) == stored[v] = "all" /\ Enter(v, "creating", "bound")

Release(v) == Enter(v, "bound", "deleting")

Destroy(v) ==
  /\ life[v] = "deleting"
  /\ \E x \in Below[stored[v]] : stored' = [stored EXCEPT ![v] = x]
  /\ UNCHANGED life

Forget(v) == stored[v] = "nothing" /\ Enter(v, "deleting", "gone")

Next == \E v \in Volumes :
          Build(v) \/ Bind(v) \/ Release(v) \/ Destroy(v) \/ Forget(v)

Spec == Init /\ [][Next]_vars
=============================================================================
