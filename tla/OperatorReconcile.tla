-------------------------- MODULE OperatorReconcile --------------------------
(***************************************************************************)
(* The operator (operator/roles/csi-scale), its reconciliation of the      *)
(* custom resource, its watch of secrets, and the driver pods that read    *)
(* what it deploys, once, when they start (PluginConfig).                  *)
(*                                                                         *)
(* A reconciliation reads the secrets that the resource names one after    *)
(* the other and labels those that have no label by deleting and creating  *)
(* them again with the data it has read; then it applies its templates in  *)
(* order, the ConfigMap before the DaemonSet, whose pod template carries   *)
(* checksums of the configuration and of the secrets it has read.  The     *)
(* watch answers the creation of a labelled secret by increasing the       *)
(* resource's trigger, so that there is another reconciliation.            *)
(*                                                                         *)
(* External, modelled from how the role uses them: the Ansible operator    *)
(* (one run at a time per object, an event for every change of a           *)
(* resource's specification and every creation, all of them again after a  *)
(* restart, none for an update of a secret, none for the mere passing of   *)
(* time), Kubernetes, and users, who change a secret by deleting it and    *)
(* applying it with its label (docs/source/maintenance/secrets.rst).       *)
(*                                                                         *)
(* Abstractions.  A checksum is what it is computed from.  The templates   *)
(* are four: accounts and roles, ConfigMap, sidecars, DaemonSet.           *)
(***************************************************************************)
EXTENDS PluginConfig, FiniteSets

CONSTANTS
  Nodes,        \* nodes with a driver pod
  Secrets,      \* names of secrets
  Confs,        \* the versions of the clusters section, as a sequence
  MaxWrites,    \* bounds on the versions of the secrets' data
  Unlabelled,   \* secrets that may have no label in the beginning
  Cleared,      \* may a resource be deleted?
  MaxFaults,    \* bound on what goes wrong
  Triggers,     \* the values of the resource's trigger, which wraps: a bound
  None

Versions == DOMAIN Confs

ASSUME ConfsAssumption ==
  /\ Confs \in Seq(Seq([id : STRING, gui : STRING, secret : STRING,
                        cacert : STRING, fs : STRING, remote : STRING,
                        secure : BOOLEAN, primary : BOOLEAN]))
  /\ \A n \in Versions : \A i \in Indices(Confs[n]) :
       Confs[n][i].secret \in Secrets \cup {""}
ASSUME SecretsAssumption == Unlabelled \subseteq Secrets /\ "" \notin Secrets
ASSUME NoneAssumption ==
  None \notin Nat /\ None \notin [ver : Versions, sums : [Secrets -> Nat]]
ASSUME BoundsAssumption ==
  /\ MaxWrites \in [Secrets -> Nat \ {0}] /\ MaxFaults \in Nat
  /\ Triggers \in Nat \ {0, 1} /\ Cleared \in BOOLEAN

VARIABLES
  cr,        \* the custom resource
  crEvent,   \* is an event of it queued?
  secret,    \* the secrets: their data and whether they are labelled
  events,    \* secrets with an event queued
  run,       \* the reconciliation under way
  bump,      \* per secret, the trigger its watch run has read
  deployed,  \* the templates that are applied
  config,    \* the version in the ConfigMap
  daemon,    \* the DaemonSet's pod template
  pod,       \* the driver pods
  written,   \* the last version of each secret's data that its user wrote
  faults

clusterVars  == <<secret, deployed, config, daemon>>
operatorVars == <<crEvent, events, run, bump>>
vars == <<cr, clusterVars, operatorVars, pod, written, faults>>

Conf(n) == Confs[n]
SecretsOf(conf) == {conf[i].secret : i \in Indices(conf)} \ {""}

Idle == [pc |-> "idle", ver |-> 0, at |-> 0, read |-> None,
         sums |-> [s \in Secrets |-> 0], unread |-> FALSE]
NoPod == [st |-> "none", tmpl |-> None, ver |-> 0, data |-> [s \in Secrets |-> 0]]

\* main.yml, deploy_list; reversed when the state is absent.
DeployList == <<"roles", "config", "sidecars", "driver">>

Init ==
  /\ cr = [st |-> "absent", ver |-> 0, trigger |-> 0]
  /\ crEvent = FALSE
  /\ \E old \in SUBSET Secrets : \E bare \in SUBSET (Unlabelled \cap old) :
       /\ secret = [s \in Secrets |->
            IF s \in old THEN [data |-> 1, labelled |-> s \notin bare] ELSE None]
       /\ written = [s \in Secrets |-> IF s \in old THEN 1 ELSE 0]
       /\ events = old
  /\ run = Idle
  /\ bump = [s \in Secrets |-> None]
  /\ deployed = {}
  /\ config = 0
  /\ daemon = None
  /\ pod = [p \in Nodes |-> NoPod]
  /\ faults = 0

Fault ==
  /\ faults < MaxFaults
  /\ faults' = faults + 1

----------------------------------------------------------------------------
(* Users.                                                                  *)

WriteResource(n) ==
  /\ cr.st \in {"absent", "present"}
  /\ n > cr.ver
  /\ cr' = [cr EXCEPT !.st = "present", !.ver = n]
  /\ crEvent' = TRUE
  /\ UNCHANGED <<clusterVars, events, run, bump, pod, written, faults>>

\* It is marked; the finalizer keeps it until the role has run.
DeleteResource ==
  /\ Cleared
  /\ cr.st = "present"
  /\ cr' = [cr EXCEPT !.st = "deleting"]
  /\ crEvent' = TRUE
  /\ UNCHANGED <<clusterVars, events, run, bump, pod, written, faults>>

UserDeletesSecret(s) ==
  /\ secret[s] # None
  /\ written[s] < MaxWrites[s]
  /\ secret' = [secret EXCEPT ![s] = None]
  /\ UNCHANGED <<cr, deployed, config, daemon, operatorVars, pod, written, faults>>

\* kubectl apply, with the label.  To apply it over one that is there would be
\* an update, which the document excludes.
UserAppliesSecret(s) ==
  /\ secret[s] = None
  /\ written[s] < MaxWrites[s]
  /\ written' = [written EXCEPT ![s] = @ + 1]
  /\ secret' = [secret EXCEPT ![s] = [data |-> written[s] + 1, labelled |-> TRUE]]
  /\ events' = events \cup {s}
  /\ UNCHANGED <<cr, deployed, config, daemon, crEvent, run, bump, pod, faults>>

----------------------------------------------------------------------------
(* Reconciliation of the resource: main.yml.                               *)

\* The secret of the cluster a run is at.
SecretAt(r) == Conf(r.ver)[r.at].secret

\* The next cluster, or the templates.
NextCluster(r) ==
  IF r.at < Len(Conf(r.ver)) THEN [r EXCEPT !.pc = "check", !.at = @ + 1, !.read = None]
  ELSE [r EXCEPT !.pc = "apply", !.at = 1, !.read = None]

StartRun ==
  LET r == [Idle EXCEPT !.ver = cr.ver] IN
  /\ crEvent
  /\ run.pc = "idle"
  /\ cr.st # "absent"
  /\ crEvent' = FALSE
  /\ run' = IF cr.st = "present" THEN NextCluster(r)
            ELSE [r EXCEPT !.pc = "clear", !.at = Len(DeployList)]
  /\ UNCHANGED <<cr, clusterVars, events, bump, pod, written, faults>>

\* Mutant of NeedsLabel: every secret is created again.
NeedsAny(x) == TRUE

NeedsLabel(x) == ~x.labelled

\* cluster_check.yml: a secret that is not there or not named ("" stands for a
\* key that is missing, which fails the task, and that is ignored) ends the
\* run, one without the label is labelled first.  The checksum is of what is
\* read here.
CheckCluster ==
  LET s == SecretAt(run) IN
  /\ run.pc = "check"
  /\ \/ /\ s = "" \/ secret[s] = None
        /\ run' = Idle
     \/ /\ s # "" /\ secret[s] # None
        /\ LET r == [run EXCEPT !.sums[s] = secret[s].data, !.read = secret[s].data] IN
           run' = IF NeedsLabel(secret[s]) THEN [r EXCEPT !.pc = "relabel"]
                                           ELSE NextCluster(r)
  /\ UNCHANGED <<cr, clusterVars, crEvent, events, bump, pod, written, faults>>

\* The same task fails to read a secret that is there.  The error is ignored
\* and there are no resources then, which ends the run as if the secret were
\* not there: it has not failed, and is not repeated.
SecretUnread ==
  LET s == SecretAt(run) IN
  /\ run.pc = "check"
  /\ s # "" /\ secret[s] # None
  /\ Fault
  /\ run' = [Idle EXCEPT !.unread = TRUE]
  /\ UNCHANGED <<cr, clusterVars, crEvent, events, bump, pod, written>>

\* password_label.yml, first task.  It names no namespace: the secret goes if
\* the one it then means is the operator's.
RemoveSecret ==
  LET s == SecretAt(run) IN
  /\ run.pc = "relabel"
  /\ secret' \in {secret, [secret EXCEPT ![s] = None]}
  /\ run' = [run EXCEPT !.pc = "recreate"]
  /\ UNCHANGED <<cr, deployed, config, daemon, crEvent, events, bump, pod,
                 written, faults>>

\* ... and second: created, or brought to the data that was read.
CreateSecret ==
  LET s == SecretAt(run) IN
  /\ run.pc = "recreate"
  /\ secret' = [secret EXCEPT ![s] = [data |-> run.read, labelled |-> TRUE]]
  /\ events' = IF secret[s] = None THEN events \cup {s} ELSE events
  /\ run' = NextCluster(run)
  /\ UNCHANGED <<cr, deployed, config, daemon, crEvent, bump, pod, written,
                 faults>>

\* Mutant of Order: the DaemonSet is applied first.
OrderReversed == <<"driver", "sidecars", "config", "roles">>

Order == DeployList

\* template_applicator.yml, state present.
ApplyTemplate ==
  LET t == Order[run.at] IN
  /\ run.pc = "apply"
  /\ deployed' = deployed \cup {t}
  /\ config' = IF t = "config" THEN run.ver ELSE config
  /\ daemon' = IF t = "driver" THEN [ver |-> run.ver, sums |-> run.sums] ELSE daemon
  /\ run' = IF run.at < Len(Order) THEN [run EXCEPT !.at = @ + 1] ELSE Idle
  /\ UNCHANGED <<cr, secret, crEvent, events, bump, pod, written, faults>>

\* Mutant of Released: the clusters are checked here too, and a secret that
\* is missing ends the run without an error.
ReleasedByEndPlay ==
  run.at = 1 \/ \E s \in SecretsOf(Conf(run.ver)) : secret[s] = None

\* The finalizer is removed when the run has succeeded.
Released == run.at = 1

\* ... state absent.
ClearTemplate ==
  LET t == Order[run.at] IN
  /\ run.pc = "clear"
  /\ deployed' = deployed \ {t}
  /\ config' = IF t = "config" THEN 0 ELSE config
  /\ daemon' = IF t = "driver" THEN None ELSE daemon
  /\ IF Released
     THEN run' = Idle /\ cr' = [cr EXCEPT !.st = "absent", !.trigger = 0]
     ELSE run' = [run EXCEPT !.at = @ - 1] /\ UNCHANGED cr
  /\ UNCHANGED <<secret, crEvent, events, bump, pod, written, faults>>

----------------------------------------------------------------------------
(* The watch of secrets: secret_watch.yml.                                 *)

\* Mutant of Watched: only secrets without the label.
WatchedUnlabelled(s) ==
  secret[s] # None /\ ~secret[s].labelled /\ cr.st # "absent"
    /\ s \in SecretsOf(Conf(cr.ver))

Watched(s) ==
  secret[s] # None /\ secret[s].labelled /\ cr.st # "absent"
    /\ s \in SecretsOf(Conf(cr.ver))

StartWatch(s) ==
  /\ s \in events
  /\ bump[s] = None
  /\ events' = events \ {s}
  /\ bump' = IF Watched(s) THEN [bump EXCEPT ![s] = cr.trigger] ELSE bump
  /\ UNCHANGED <<cr, clusterVars, crEvent, run, pod, written, faults>>

\* A resource that is gone meanwhile is not created: it lacks its host path.
\* Writing the value that is there already is no change and no event.
BumpTrigger(s) ==
  /\ bump[s] # None
  /\ bump' = [bump EXCEPT ![s] = None]
  /\ LET next == (bump[s] + 1) % Triggers IN
     IF cr.st # "absent" /\ cr.trigger # next
     THEN cr' = [cr EXCEPT !.trigger = next] /\ crEvent' = TRUE
     ELSE UNCHANGED <<cr, crEvent>>
  /\ UNCHANGED <<clusterVars, events, run, pod, written, faults>>

----------------------------------------------------------------------------
(* Failures of the operator.                                               *)

\* A task fails, other than the one whose errors are ignored (SecretUnread):
\* the run is repeated.
RunFails ==
  /\ run.pc # "idle"
  /\ Fault
  /\ run' = Idle
  /\ crEvent' = TRUE
  /\ UNCHANGED <<cr, clusterVars, events, bump, pod, written>>

\* It restarts, and hears of everything that is there.
OperatorRestarts ==
  /\ Fault
  /\ run' = Idle
  /\ bump' = [s \in Secrets |-> None]
  /\ crEvent' = TRUE
  /\ events' = {s \in Secrets : secret[s] # None}
  /\ UNCHANGED <<cr, clusterVars, pod, written>>

\* An event of what is not there any more.
DropEvent ==
  /\ crEvent
  /\ run.pc = "idle"
  /\ cr.st = "absent"
  /\ crEvent' = FALSE
  /\ UNCHANGED <<cr, clusterVars, events, run, bump, pod, written, faults>>

----------------------------------------------------------------------------
(* The pods.                                                               *)

SameTemplate(t, u) ==
  IF t = None \/ u = None THEN t = u
  ELSE Conf(t.ver) = Conf(u.ver) /\ t.sums = u.sums

\* The DaemonSet's controller replaces, creates and deletes pods.
ReplacePod(p) ==
  /\ ~SameTemplate(pod[p].tmpl, daemon)
  /\ pod' = [pod EXCEPT ![p] = IF daemon = None THEN NoPod
               ELSE [NoPod EXCEPT !.st = "starting", !.tmpl = daemon]]
  /\ UNCHANGED <<cr, clusterVars, operatorVars, written, faults>>

\* The secrets that the template mounts.
MountedIn(p) == SecretsOf(Conf(pod[p].tmpl.ver))

Loaded(p) == LoadScaleConfigSettings(Conf(config), MountedIn(p), {})

\* Mutant of StartDriver: the configuration is not validated.
StartDriverUnchecked(p) ==
  /\ pod[p].st = "starting"
  /\ config # 0
  /\ \A s \in MountedIn(p) : secret[s] # None
  /\ pod' = [pod EXCEPT ![p].st = "running", ![p].ver = config,
       ![p].data = [s \in Secrets |-> IF s \in MountedIn(p) THEN secret[s].data ELSE 0]]
  /\ UNCHANGED <<cr, clusterVars, operatorVars, written, faults>>

\* Mutant of StartDriver: it does not wait for its configuration.
StartDriverUnread(p) ==
  /\ pod[p].st = "starting"
  /\ \A s \in MountedIn(p) : secret[s] # None
  /\ pod' = [pod EXCEPT ![p].st = "running", ![p].ver = config]
  /\ UNCHANGED <<cr, clusterVars, operatorVars, written, faults>>

\* A driver reads its configuration and secrets when it starts; one that is
\* not valid ends it, and it is started again.
StartDriver(p) ==
  /\ pod[p].st = "starting"
  /\ config # 0
  /\ \A s \in MountedIn(p) : secret[s] # None
  /\ Valid(Loaded(p))
  /\ pod' = [pod EXCEPT ![p].st = "running", ![p].ver = config,
       ![p].data = [s \in Secrets |-> IF s \in MountedIn(p) THEN secret[s].data ELSE 0]]
  /\ UNCHANGED <<cr, clusterVars, operatorVars, written, faults>>

DriverDies(p) ==
  /\ pod[p].st = "running"
  /\ Fault
  /\ pod' = [pod EXCEPT ![p].st = "starting"]
  /\ UNCHANGED <<cr, clusterVars, operatorVars, written>>

----------------------------------------------------------------------------
User ==
  \/ \E n \in Versions : WriteResource(n)
  \/ DeleteResource
  \/ \E s \in Secrets : UserDeletesSecret(s) \/ UserAppliesSecret(s)
Reconcile ==
  \/ StartRun \/ CheckCluster \/ RemoveSecret \/ CreateSecret
  \/ ApplyTemplate \/ ClearTemplate \/ DropEvent
Watch(s) == StartWatch(s) \/ BumpTrigger(s)
Pod(p) == ReplacePod(p) \/ StartDriver(p)

Next ==
  \/ User \/ Reconcile \/ SecretUnread \/ RunFails \/ OperatorRestarts
  \/ \E s \in Secrets : Watch(s)
  \/ \E p \in Nodes : Pod(p) \/ DriverDies(p)

\* The operator, Kubernetes and the drivers go on; users need not.
Fairness ==
  /\ WF_vars(Reconcile)
  /\ \A s \in Secrets : WF_vars(Watch(s))
  /\ \A p \in Nodes : WF_vars(Pod(p))

Spec == Init /\ [][Next]_vars /\ Fairness

----------------------------------------------------------------------------
(* Properties.                                                             *)

Templates == [ver : Versions, sums : [Secrets -> Nat]]

RunType ==
  [pc : {"idle", "check", "relabel", "recreate", "apply", "clear"},
   ver : Versions \cup {0}, at : Nat, read : Nat \cup {None}, sums : [Secrets -> Nat],
   unread : BOOLEAN]

RunOK(r) ==
  /\ r \in RunType
  /\ r.pc # "idle" => r.ver \in Versions /\ r.at # 0
  /\ r.pc \in {"check", "relabel", "recreate"} => r.at <= Len(Conf(r.ver))
  /\ r.pc \in {"relabel", "recreate"} => r.read \in Nat /\ SecretAt(r) \in Secrets
  /\ r.pc \in {"apply", "clear"} => r.at <= Len(Order)

\* Every variable has its type.
TypeOK ==
  /\ cr \in [st : {"absent", "present", "deleting"}, ver : Versions \cup {0},
             trigger : 0..(Triggers - 1)]
  /\ cr.st # "absent" => cr.ver # 0
  /\ crEvent \in BOOLEAN
  /\ secret \in [Secrets -> [data : Nat, labelled : BOOLEAN] \cup {None}]
  /\ events \subseteq Secrets
  /\ RunOK(run)
  /\ bump \in [Secrets -> 0..(Triggers - 1) \cup {None}]
  /\ deployed \subseteq {"roles", "config", "sidecars", "driver"}
  /\ config \in Versions \cup {0}
  /\ daemon \in Templates \cup {None}
  /\ pod \in [Nodes -> [st : {"none", "starting", "running"},
                        tmpl : Templates \cup {None}, ver : Versions \cup {0},
                        data : [Secrets -> Nat]]]
  /\ \A p \in Nodes :
       /\ pod[p].st # "none" => pod[p].tmpl # None
       /\ pod[p].st = "running" => pod[p].ver # 0
  /\ written \in [Secrets -> Nat]
  /\ \A s \in Secrets : written[s] <= MaxWrites[s]
  /\ faults \in 0..MaxFaults

\* While there is a DaemonSet there is all that its pods need, and the
\* configuration is at least as new as the checksum in its template: whatever
\* run died between which templates, in either order (main.yml:95-102).
DaemonHasItsConfig ==
  daemon # None =>
    /\ deployed = {"roles", "config", "sidecars", "driver"}
    /\ config >= daemon.ver

\* No driver serves with a configuration older than the one its template
\* stands for: nothing would ever restart it (csi-plugin.yaml.j2:79-88).
NoPodBehind ==
  \A p \in Nodes : pod[p].st = "running" => pod[p].ver >= pod[p].tmpl.ver

\* A driver that serves has every connector that it uses without asking
\* whether it is there (gpfs.go:245-255, 413-485).
ServingHasConnectors ==
  \A p \in Nodes : pod[p].st = "running" =>
    Needed(Conf(pod[p].ver)) \subseteq Connectors(Conf(pod[p].ver))

\* Nothing is left of a resource that is gone.
NothingLeft == cr.st = "absent" => deployed = {} /\ config = 0 /\ daemon = None

Complete ==
  /\ cr.st = "present"
  /\ \A s \in SecretsOf(Conf(cr.ver)) : secret[s] # None
  /\ Valid(Conf(cr.ver))

Runs(p, n, data) ==
  /\ pod[p].st = "running"
  /\ Conf(pod[p].ver) = Conf(n)
  /\ \A s \in SecretsOf(Conf(n)) : pod[p].data[s] = data[s]

\* The data of the secrets there are.
SecretData == [s \in Secrets |-> IF secret[s] = None THEN 0 ELSE secret[s].data]

\* In the end every driver runs with the resource and the secrets there are,
\* whatever was changed while runs were under way and whichever of them failed
\* (secret_watch.yml:23-35); unless the last run could not read a secret, and
\* ended with no error (cluster_check.yml:8-13).
DriversConverge ==
  <>[](Complete /\ ~run.unread => \A p \in Nodes : Runs(p, cr.ver, SecretData))

\* Labelling secrets does not keep the operator busy for ever: the secret it
\* creates triggers a run that creates none (cluster_check.yml:15-20).
OperatorSettles == <>[](run.pc = "idle" /\ ~crEvent /\ events = {})

\* "To update the secret and have the operator apply it": the drivers end up
\* with what the user last applied (docs/source/maintenance/secrets.rst:12-44).
UpdateApplied ==
  <>[](Complete => \A p \in Nodes : Runs(p, cr.ver, written))

\* The newest version that a template can be of.
Newest == IF run.pc = "idle" THEN cr.ver ELSE run.ver

TemplateVersion(t) == IF t = None THEN 0 ELSE t.ver
ServedVersion(p) == IF pod[p].st = "running" THEN pod[p].ver ELSE 0
Expected == [p \in Nodes |-> TemplateVersion(pod[p].tmpl)]
Serving == [p \in Nodes |-> ServedVersion(p)]

\* The operator, Kubernetes and the drivers together implement the promise of
\* Rollout, whatever runs fail, templates are left half applied and secrets
\* change (main.yml:84-102, csi-plugin.yaml.j2:79-88, gpfs.go:172-185).
Deployment == INSTANCE Rollout WITH
  life <- cr.st,
  target <- Newest,
  published <- config,
  template <- TemplateVersion(daemon),
  expected <- Expected,
  serving <- Serving,
  Usable <- {n \in Versions : Valid(Conf(n))}

RolloutKept == Deployment!Spec

----------------------------------------------------------------------------
(* What the safety properties rest on: an invariant that every step keeps. *)

RunInv ==
  /\ run.pc # "idle" => run.ver <= cr.ver /\ cr.st # "absent"
  /\ run.pc = "clear" =>
       /\ cr.st = "deleting"
       /\ deployed \subseteq {Order[i] : i \in 1..run.at}
       /\ run.at < 4 => daemon = None
       /\ run.at < 2 => config = 0
  /\ run.pc = "apply" =>
       /\ {Order[i] : i \in 1..(run.at - 1)} \subseteq deployed
       /\ run.at > 2 => config = run.ver

PodInv(p) ==
  /\ pod[p].tmpl # None =>
       /\ pod[p].tmpl.ver <= Newest
       /\ config # 0 => config >= pod[p].tmpl.ver
  /\ pod[p].st = "running" =>
       /\ pod[p].ver >= pod[p].tmpl.ver
       /\ Valid(Conf(pod[p].ver))

OperatorInv ==
  /\ TypeOK
  /\ config <= Newest
  /\ RunInv
  /\ DaemonHasItsConfig
  /\ NothingLeft
  /\ \A p \in Nodes : PodInv(p)
=============================================================================
