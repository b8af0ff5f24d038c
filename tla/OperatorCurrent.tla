--------------------------- MODULE OperatorCurrent ---------------------------
(***************************************************************************)
(* When the operator, Kubernetes and the drivers have come to rest, is all *)
(* that runs what was asked for?  The property, and the invariant it rests *)
(* on: whatever a run has read or applied of a resource that nobody has an *)
(* event of, is either what is there or about to be noticed.               *)
(***************************************************************************)
EXTENDS OperatorReconcile

\* Nothing is queued or under way, and no pod is to be replaced or started.
Settled ==
  /\ run.pc = "idle" /\ ~crEvent
  /\ events = {} /\ \A s \in Secrets : bump[s] = None
  /\ \A p \in Nodes : pod[p].st = "running" /\ SameTemplate(pod[p].tmpl, daemon)

\* Then every driver runs with the resource and the secrets there are: no
\* change is missed, whichever run, watch and start it met half done
\* (secret_watch.yml:23-35, cluster_check.yml:2-25, csi-plugin.yaml.j2:79-88),
\* unless the last run is one that ended with no error because it could not
\* read a secret (cluster_check.yml:8-13): then nothing starts another.
SettledIsCurrent ==
  Settled /\ Complete /\ ~run.unread => \A p \in Nodes : Runs(p, cr.ver, SecretData)

\* A version that says the same as another, earlier one: a template does not
\* tell them apart, and a driver that has started in between goes on.
Reverts == \E m, n \in Versions : m # n /\ Conf(m) = Conf(n)

----------------------------------------------------------------------------
\* The secrets that a run has read.
Reading(r) == r.pc \in {"check", "relabel", "recreate", "apply"}
Relabelling(r) == r.pc \in {"relabel", "recreate"}
Passed(r, i) == r.pc = "apply" \/ i < r.at \/ (i = r.at /\ Relabelling(r))
Visited(r) ==
  {Conf(r.ver)[i].secret : i \in {j \in Indices(Conf(r.ver)) : Passed(r, j)}}

Mounts(t) == IF t = None THEN {} ELSE SecretsOf(Conf(t.ver))

\* It has no label, or is being given one.
Bare(s) ==
  \/ secret[s] # None /\ ~secret[s].labelled
  \/ Relabelling(run) /\ s = SecretAt(run)

\* A secret is labelled before anything mounts it.
LabelInv ==
  /\ Reading(run) =>
       /\ Visited(run) \subseteq Secrets
       /\ \A s \in Visited(run) : Bare(s) => Relabelling(run) /\ s = SecretAt(run)
  /\ \A s \in Secrets : Bare(s) =>
       /\ s \notin Mounts(daemon)
       /\ \A p \in Nodes : s \notin Mounts(pod[p].tmpl)

\* No data are older than those that were read before.
AtMost(s, n) == n <= written[s] /\ (secret[s] # None => n <= secret[s].data)

DataInv ==
  /\ \A s \in Secrets : secret[s] # None => secret[s].data <= written[s]
  /\ Reading(run) => \A s \in Visited(run) : AtMost(s, run.sums[s])
  /\ Relabelling(run) => run.read = run.sums[SecretAt(run)]
  /\ \A s \in Mounts(daemon) : AtMost(s, daemon.sums[s])

\* A driver has read what its template stands for, or something later.
ReadInv(p) ==
  /\ \A s \in Mounts(pod[p].tmpl) : AtMost(s, pod[p].tmpl.sums[s])
  /\ pod[p].st = "running" =>
       /\ pod[p].ver <= cr.ver
       /\ \A s \in Mounts(pod[p].tmpl) :
            pod[p].tmpl.sums[s] <= pod[p].data[s] /\ AtMost(s, pod[p].data[s])

\* The watch is about to raise the trigger, or will when the secret is back.
Noticed(s) ==
  \/ secret[s] = None
  \/ s \in events /\ secret[s].labelled
  \/ bump[s] # None /\ bump[s] = cr.trigger

Fresh(s, sums) == Noticed(s) \/ sums[s] = secret[s].data

\* The run that ended has brought everything up to date, or could not.
UpToDate ==
  LET conf == Conf(cr.ver) IN
  \/ \E i \in Indices(conf) : conf[i].secret = ""
  \/ \E s \in SecretsOf(conf) : Noticed(s)
  \/ /\ daemon # None /\ daemon.ver = cr.ver
     /\ \A s \in SecretsOf(conf) : Fresh(s, daemon.sums)

NoticeInv ==
  ~crEvent =>
    /\ Reading(run) => /\ cr.st = "present" /\ run.ver = cr.ver
                       /\ \A s \in Visited(run) : Fresh(s, run.sums)
    /\ run.pc = "idle" /\ cr.st = "present" => run.unread \/ UpToDate

CurrentInv ==
  /\ LabelInv
  /\ DataInv
  /\ \A p \in Nodes : ReadInv(p)
  /\ NoticeInv
=============================================================================
