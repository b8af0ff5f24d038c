------------------------ MODULE OperatorCurrentProofs ------------------------
(***************************************************************************)
(* Proof that what has come to rest is current, for any nodes, secrets and *)
(* versions that differ, and any number of faults.                         *)
(***************************************************************************)
EXTENDS OperatorCurrent, OperatorReconcileProofs

----------------------------------------------------------------------------
(* Types.                                                                  *)

\* The data that are compared are numbers.
LEMMA DataNumbers ==
  ASSUME TypeOK
  PROVE  /\ \A s \in Secrets : /\ written[s] \in Nat
                               /\ run.sums[s] \in Nat
                               /\ secret[s] # None => secret[s].data \in Nat
         /\ daemon # None => daemon \in Templates
         /\ \A p \in Nodes : pod[p].tmpl # None => pod[p].tmpl \in Templates
         /\ \A t \in Templates : \A s \in Secrets : t.sums[s] \in Nat
         /\ \A p \in Nodes : \A s \in Secrets : pod[p].data[s] \in Nat
<1>1. \A s \in Secrets : written[s] \in Nat /\ (secret[s] # None => secret[s].data \in Nat)
  BY DEF TypeOK
<1>2. run.sums \in [Secrets -> Nat]
  BY DEF TypeOK, RunOK, RunType
<1>3. \A p \in Nodes : /\ pod[p].tmpl # None => pod[p].tmpl \in Templates
                       /\ pod[p].data \in [Secrets -> Nat]
  BY DEF TypeOK
<1>4. daemon # None => daemon \in Templates
  BY DEF TypeOK
<1>5. \A t \in Templates : t.sums \in [Secrets -> Nat]
  BY DEF Templates
<1> QED
  BY <1>1, <1>2, <1>3, <1>4, <1>5

\* What a version names are secrets.
LEMMA Named ==
  ASSUME NEW n \in Versions
  PROVE  SecretsOf(Conf(n)) \subseteq Secrets
BY SecretNamed, ConfTypes DEF SecretsOf, Indices

\* What a template mounts are secrets.
LEMMA MountsSecrets ==
  ASSUME NEW t \in Templates \cup {None}
  PROVE  Mounts(t) \subseteq Secrets
BY Named DEF Mounts, Templates

----------------------------------------------------------------------------
(* What a step does to a secret.                                           *)

Stays(s) == secret'[s] = secret[s] /\ written'[s] = written[s]
Goes(s) == secret'[s] = None /\ written'[s] = written[s]
Comes(s) ==
  /\ secret[s] = None
  /\ written'[s] = written[s] + 1
  /\ secret'[s] = [data |-> written[s] + 1, labelled |-> TRUE]
  /\ s \in events'
Returns(s) ==
  /\ CreateSecret /\ s = SecretAt(run)
  /\ written'[s] = written[s]
  /\ secret'[s] = [data |-> run.read, labelled |-> TRUE]
  /\ secret[s] = None => s \in events'

\* It stays, goes, comes from its user, or comes back from a run.
LEMMA SecretMoves ==
  ASSUME OperatorInv, [Next]_vars, NEW s \in Secrets
  PROVE  Stays(s) \/ Goes(s) \/ Comes(s) \/ Returns(s)
<1>0. TypeOK
  BY DEF OperatorInv
<1>1. CASE UNCHANGED <<secret, written>>
  BY <1>1 DEF Stays
<1>2. ASSUME NEW x \in Secrets, UserDeletesSecret(x) \/ UserAppliesSecret(x)
      PROVE  Stays(s) \/ Goes(s) \/ Comes(s)
  <2>1. CASE UserDeletesSecret(x)
    BY <1>0, <2>1 DEF UserDeletesSecret, TypeOK, Stays, Goes
  <2>2. CASE UserAppliesSecret(x)
    <3>1. CASE s = x
      BY <1>0, <2>2, <3>1 DEF UserAppliesSecret, TypeOK, Comes
    <3>2. CASE s # x
      BY <1>0, <2>2, <3>2 DEF UserAppliesSecret, TypeOK, Stays
    <3> QED
      BY <3>1, <3>2
  <2> QED
    BY <1>2, <2>1, <2>2
<1>3. CASE RemoveSecret
  BY <1>0, <1>3 DEF RemoveSecret, TypeOK, Stays, Goes
<1>4. CASE CreateSecret
  <2>1. CASE s = SecretAt(run)
    BY <1>0, <1>4, <2>1 DEF CreateSecret, TypeOK, Returns
  <2>2. CASE s # SecretAt(run)
    BY <1>0, <1>4, <2>2 DEF CreateSecret, TypeOK, Stays
  <2> QED
    BY <2>1, <2>2
<1>5. CASE User
  BY <1>1, <1>2, <1>5 DEF User, WriteResource, DeleteResource, clusterVars
<1>6. CASE Reconcile
  BY <1>1, <1>3, <1>4, <1>6
  DEF Reconcile, StartRun, CheckCluster, ApplyTemplate, ClearTemplate, DropEvent, clusterVars
<1>7. CASE SecretUnread \/ RunFails \/ OperatorRestarts
  BY <1>1, <1>7 DEF SecretUnread, RunFails, OperatorRestarts, clusterVars
<1>8. CASE \E x \in Secrets : Watch(x)
  BY <1>1, <1>8 DEF Watch, StartWatch, BumpTrigger, clusterVars
<1>9. CASE \E p \in Nodes : Pod(p) \/ DriverDies(p)
  BY <1>1, <1>9 DEF Pod, ReplacePod, StartDriver, DriverDies, clusterVars
<1>10. CASE UNCHANGED vars
  BY <1>1, <1>10 DEF vars, clusterVars
<1> QED
  BY <1>5, <1>6, <1>7, <1>8, <1>9, <1>10 DEF Next

----------------------------------------------------------------------------
(* What a step does to the run.                                            *)

\* The clusters up to the one that a run is at.
UpTo(r) == {Conf(r.ver)[i].secret : i \in {j \in Indices(Conf(r.ver)) : j <= r.at}}

\* A run that goes to the next cluster has read those up to the last.
LEMMA NextVisited ==
  ASSUME NEW r \in RunType, r.ver \in Versions
  PROVE  /\ Visited(NextCluster(r)) = UpTo(r)
         /\ ~Relabelling(NextCluster(r)) /\ Reading(NextCluster(r))
         /\ NextCluster(r).ver = r.ver /\ NextCluster(r).sums = r.sums
<1>1. /\ Len(Conf(r.ver)) \in Nat /\ Indices(Conf(r.ver)) = 1..Len(Conf(r.ver))
      /\ r.at \in Nat
  BY ConfTypes DEF RunType, Indices
<1> DEFINE n == NextCluster(r)
<1>2. CASE r.at < Len(Conf(r.ver))
  <2>1. /\ n.pc = "check" /\ n.at = r.at + 1 /\ n.ver = r.ver /\ n.sums = r.sums
    BY <1>2 DEF NextCluster, RunType
  <2> HIDE DEF n
  <2>2. \A j \in Indices(Conf(r.ver)) : Passed(n, j) <=> j <= r.at
    BY <1>1, <2>1 DEF Passed, Relabelling
  <2>3. Visited(n) = UpTo(r)
    BY <2>1, <2>2 DEF Visited, UpTo
  <2> QED
    BY <2>1, <2>3 DEF n, Relabelling, Reading
<1>3. CASE ~(r.at < Len(Conf(r.ver)))
  <2>1. n.pc = "apply" /\ n.at = 1 /\ n.ver = r.ver /\ n.sums = r.sums
    BY <1>3 DEF NextCluster, RunType
  <2> HIDE DEF n
  <2>2. \A j \in Indices(Conf(r.ver)) : Passed(n, j) <=> j <= r.at
    BY <1>1, <1>3, <2>1 DEF Passed, Relabelling
  <2>3. Visited(n) = UpTo(r)
    BY <2>1, <2>2 DEF Visited, UpTo
  <2> QED
    BY <2>1, <2>3 DEF n, Relabelling, Reading
<1> QED
  BY <1>2, <1>3

\* It reads nothing any more: it is over, or clears.
RunRests == ~Reading(run')

\* It takes up the resource.
RunBegins ==
  /\ StartRun /\ cr.st = "present"
  /\ run'.ver = cr.ver
  /\ Visited(run') = {} /\ Reading(run') /\ ~Relabelling(run')

\* It has read one more secret, with its label or without.
RunReads(s) ==
  /\ CheckCluster /\ Reading(run) /\ Reading(run')
  /\ s \in Secrets /\ secret[s] # None
  /\ run'.ver = run.ver
  /\ Visited(run') = Visited(run) \cup {s}
  /\ run'.sums = [run.sums EXCEPT ![s] = secret[s].data]
  /\ IF Relabelling(run') THEN /\ SecretAt(run') = s /\ run'.read = secret[s].data
                               /\ ~secret[s].labelled
                          ELSE secret[s].labelled

\* It goes on with what it has read.
RunGoesOn ==
  /\ Reading(run) /\ Reading(run')
  /\ run'.ver = run.ver /\ run'.sums = run.sums
  /\ Visited(run') = Visited(run)
  /\ Relabelling(run') => /\ Relabelling(run)
                          /\ SecretAt(run') = SecretAt(run) /\ run'.read = run.read
  /\ Relabelling(run) /\ ~Relabelling(run') => secret'[SecretAt(run)].labelled

\* A run that reads is at a cluster of a version.
LEMMA RunAt ==
  ASSUME TypeOK, Reading(run)
  PROVE  /\ run \in RunType /\ run.ver \in Versions /\ run.at \in Nat
         /\ run.pc # "apply" => run.at \in 1..Len(Conf(run.ver))
         /\ Indices(Conf(run.ver)) = 1..Len(Conf(run.ver))
         /\ SecretAt(run) # "" /\ run.pc # "apply" => SecretAt(run) \in Secrets
<1>1. RunOK(run) /\ run.pc # "idle" /\ run.at \in Nat
  BY Numbers DEF TypeOK, Reading
<1>2. /\ run \in RunType /\ run.ver \in Versions /\ run.at \in Nat
      /\ run.at # 0
      /\ run.pc # "apply" => run.at <= Len(Conf(run.ver))
  BY <1>1 DEF RunOK, Reading
<1>3. Len(Conf(run.ver)) \in Nat /\ Indices(Conf(run.ver)) = 1..Len(Conf(run.ver))
  BY <1>2, ConfTypes DEF Indices
<1>4. run.pc # "apply" => run.at \in 1..Len(Conf(run.ver))
  BY <1>2, <1>3
<1>5. SecretAt(run) # "" /\ run.pc # "apply" => SecretAt(run) \in Secrets
  BY <1>2, <1>4, SecretNamed DEF SecretAt
<1> QED
  BY <1>2, <1>3, <1>4, <1>5

\* What it has read when it is done with its cluster.
LEMMA UpToRun ==
  ASSUME TypeOK, Reading(run), run.pc # "apply"
  PROVE  /\ UpTo(run) = Visited(run) \cup {SecretAt(run)}
         /\ Relabelling(run) => UpTo(run) = Visited(run)
<1>1. run.at \in 1..Len(Conf(run.ver)) /\ Indices(Conf(run.ver)) = 1..Len(Conf(run.ver))
  BY RunAt
<1>2. \A j \in Indices(Conf(run.ver)) : j <= run.at <=> Passed(run, j) \/ j = run.at
  BY <1>1 DEF Passed
<1>3. Relabelling(run) => Passed(run, run.at)
  BY DEF Passed
<1> QED
  BY <1>1, <1>2, <1>3 DEF UpTo, Visited, SecretAt

\* A run that starts clears a deleted resource, or begins with nothing read.
LEMMA StartMoves ==
  ASSUME OperatorInv, StartRun
  PROVE  run'.pc = "clear" \/ RunBegins
<1> DEFINE r == [Idle EXCEPT !.ver = cr.ver]
<1>1. /\ r \in RunType /\ r.ver = cr.ver /\ r.at = 0
      /\ cr.ver \in Versions /\ cr.st # "absent"
  BY DEF Idle, RunType, StartRun, OperatorInv, TypeOK
<1>2. CASE cr.st = "present"
  <2>1. run' = NextCluster(r)
    BY <1>2 DEF StartRun
  <2> HIDE DEF r
  <2>2. UpTo(r) = {}
    <3>1. \A j \in Indices(Conf(r.ver)) : ~(j <= r.at)
      BY <1>1, ConfTypes DEF Indices
    <3> QED
      BY <3>1 DEF UpTo
  <2> QED
    BY <1>1, <1>2, <2>1, <2>2, NextVisited DEF RunBegins
<1>3. CASE cr.st # "present"
  BY <1>1, <1>3 DEF StartRun, Idle
<1> QED
  BY <1>2, <1>3

\* cluster_check.yml ends the run where a secret is missing, and reads it otherwise.
LEMMA CheckMoves ==
  ASSUME OperatorInv, CheckCluster
  PROVE  \/ run' = Idle /\ (SecretAt(run) = "" \/ secret[SecretAt(run)] = None)
         \/ RunReads(SecretAt(run))
<1> DEFINE s == SecretAt(run)
           r == [run EXCEPT !.sums[s] = secret[s].data, !.read = secret[s].data]
           q == [r EXCEPT !.pc = "relabel"]
<1>0. TypeOK /\ run.pc = "check" /\ Reading(run)
  BY DEF OperatorInv, CheckCluster, Reading
<1>1. CASE s # "" /\ secret[s] # None
  <2>1. /\ run \in RunType /\ run.ver \in Versions
        /\ s \in Secrets /\ secret[s].data \in Nat
        /\ UpTo(run) = Visited(run) \cup {s}
        /\ run.sums \in [Secrets -> Nat]
    <3>1. run \in RunType /\ run.ver \in Versions /\ s \in Secrets
      BY <1>0, <1>1, RunAt
    <3> QED
      BY <1>0, <1>1, <3>1, UpToRun, DataNumbers DEF RunType
  <2>2. /\ r \in RunType /\ r.ver = run.ver /\ r.at = run.at
        /\ r.sums = [run.sums EXCEPT ![s] = secret[s].data]
    BY <2>1 DEF RunType
  <2>3. /\ q.pc = "relabel" /\ q.ver = run.ver /\ q.at = run.at
        /\ q.sums = [run.sums EXCEPT ![s] = secret[s].data]
        /\ q.read = secret[s].data
    BY <2>1 DEF RunType
  <2>4. run' = IF NeedsLabel(secret[s]) THEN q ELSE NextCluster(r)
    BY <1>1 DEF CheckCluster
  <2>5. UpTo(r) = UpTo(run)
    BY <2>2 DEF UpTo
  <2> HIDE DEF s, r, q
  <2>6. CASE ~secret[s].labelled
    <3>1. run' = q
      BY <2>4, <2>6 DEF NeedsLabel
    <3>2. \A j \in Indices(Conf(run.ver)) : Passed(q, j) <=> j <= run.at
      <4>1. Indices(Conf(run.ver)) \subseteq Nat /\ run.at \in Nat
        <5>1. Indices(Conf(run.ver)) = 1..Len(Conf(run.ver)) /\ run.at \in Nat
          BY <1>0, RunAt
        <5>2. Len(Conf(run.ver)) \in Nat
          BY <2>1, ConfTypes
        <5> QED
          BY <5>1, <5>2
      <4> QED
        BY <2>3, <4>1 DEF Passed, Relabelling
    <3>3. Visited(q) = UpTo(run)
      BY <2>3, <3>2 DEF Visited, UpTo
    <3>4. SecretAt(q) = s /\ Relabelling(q) /\ Reading(q)
      BY <2>3 DEF SecretAt, Relabelling, Reading, s
    <3> QED
      BY <1>0, <1>1, <2>1, <2>3, <2>6, <3>1, <3>3, <3>4 DEF RunReads, s
  <2>7. CASE secret[s].labelled
    <3>1. run' = NextCluster(r)
      BY <2>4, <2>7 DEF NeedsLabel
    <3> QED
      BY <1>0, <1>1, <2>1, <2>2, <2>5, <2>7, <3>1, NextVisited DEF RunReads, s
  <2> QED
    BY <2>6, <2>7
<1> QED
  BY <1>1 DEF CheckCluster

\* Between the two tasks, and after the second.
LEMMA RelabelMoves ==
  ASSUME OperatorInv, RemoveSecret \/ CreateSecret
  PROVE  RunGoesOn
<1>0. TypeOK /\ Reading(run) /\ Relabelling(run) /\ run.pc # "apply"
  BY DEF OperatorInv, RemoveSecret, CreateSecret, Reading, Relabelling
<1>1. run \in RunType /\ run.ver \in Versions /\ SecretAt(run) \in Secrets
  <2>1. SecretAt(run) \in Secrets
    BY <1>0 DEF TypeOK, RunOK, Relabelling
  <2> QED
    BY <1>0, <2>1, RunAt
<1>2. CASE RemoveSecret
  <2>1. /\ run'.pc = "recreate" /\ run'.ver = run.ver /\ run'.at = run.at
        /\ run'.sums = run.sums /\ run'.read = run.read
    BY <1>1, <1>2 DEF RemoveSecret, RunType
  <2>2. Relabelling(run') /\ Reading(run') /\ SecretAt(run') = SecretAt(run)
    BY <2>1 DEF Relabelling, Reading, SecretAt
  <2>3. \A j : Passed(run', j) <=> Passed(run, j)
    BY <1>0, <2>1, <2>2 DEF Passed
  <2>4. Visited(run') = Visited(run)
    BY <2>1, <2>3 DEF Visited
  <2> QED
    BY <1>0, <2>1, <2>2, <2>4 DEF RunGoesOn
<1>3. CASE CreateSecret
  <2>1. run' = NextCluster(run)
    BY <1>3 DEF CreateSecret
  <2>2. secret'[SecretAt(run)] = [data |-> run.read, labelled |-> TRUE]
    BY <1>0, <1>1, <1>3 DEF CreateSecret, TypeOK
  <2> QED
    BY <1>0, <1>1, <2>1, <2>2, NextVisited, UpToRun DEF RunGoesOn
<1> QED
  BY <1>2, <1>3

\* The last template gives the DaemonSet what the run has read; the others leave it.
LEMMA ApplyMoves ==
  ASSUME OperatorInv, ApplyTemplate
  PROVE  \/ run' = Idle /\ daemon' = [ver |-> run.ver, sums |-> run.sums]
         \/ RunGoesOn /\ daemon' = daemon
<1>0. /\ TypeOK /\ run.pc = "apply" /\ Reading(run) /\ ~Relabelling(run) /\ run \in RunType
      /\ run.at \in 1..4
  <2>1. TypeOK /\ run.pc = "apply" /\ RunOK(run)
    BY DEF OperatorInv, TypeOK, ApplyTemplate
  <2> QED
    BY <2>1, OrderIs, Numbers DEF RunOK, Reading, Relabelling
<1>1. CASE run.at < Len(Order)
  <2>1. run' = [run EXCEPT !.at = run.at + 1] /\ daemon' = daemon
    BY <1>0, <1>1, OrderIs DEF ApplyTemplate
  <2>2. run'.pc = "apply" /\ run'.ver = run.ver /\ run'.sums = run.sums
    BY <1>0, <2>1 DEF RunType
  <2>3. \A j : Passed(run', j) <=> Passed(run, j)
    BY <1>0, <2>2 DEF Passed
  <2>4. Visited(run') = Visited(run) /\ Reading(run') /\ ~Relabelling(run')
    BY <2>2, <2>3 DEF Visited, Reading, Relabelling
  <2> QED
    BY <1>0, <2>1, <2>2, <2>4 DEF RunGoesOn
<1>2. CASE ~(run.at < Len(Order))
  BY <1>0, <1>2, OrderIs DEF ApplyTemplate
<1> QED
  BY <1>1, <1>2

\* A run that could not read a secret is over, and says so.
LEMMA UnreadIs == SecretUnread => run'.pc = "idle" /\ run'.unread
  BY DEF SecretUnread, Idle

\* A run rests, begins, reads one more secret or goes on.
LEMMA RunMoves ==
  ASSUME OperatorInv, [Next]_vars
  PROVE  RunRests \/ RunBegins \/ RunReads(SecretAt(run)) \/ RunGoesOn
<1>1. CASE UNCHANGED run
  <2>1. Visited(run') = Visited(run) /\ SecretAt(run') = SecretAt(run)
        /\ (Relabelling(run') <=> Relabelling(run)) /\ (Reading(run') <=> Reading(run))
    BY <1>1
  <2> QED
    BY <1>1, <2>1 DEF RunRests, RunGoesOn
<1>2. CASE run'.pc \in {"idle", "clear"}
  BY <1>2 DEF RunRests, Reading
<1>3. CASE User
  BY <1>1, <1>3
  DEF User, WriteResource, DeleteResource, UserDeletesSecret, UserAppliesSecret, operatorVars
<1>4. CASE Reconcile
  <2>1. CASE StartRun \/ CheckCluster \/ RemoveSecret \/ CreateSecret \/ ApplyTemplate
    BY <1>2, <2>1, StartMoves, CheckMoves, RelabelMoves, ApplyMoves, IdleOK
  <2>2. CASE ClearTemplate
    <3>1. run'.pc \in {"idle", "clear"}
      <4>1. run \in RunType /\ run.pc = "clear"
        BY <2>2 DEF OperatorInv, TypeOK, RunOK, ClearTemplate
      <4> QED
        BY <2>2, <4>1, IdleOK DEF ClearTemplate, RunType
    <3> QED
      BY <1>2, <3>1
  <2>3. CASE DropEvent
    BY <1>1, <2>3 DEF DropEvent
  <2> QED
    BY <1>4, <2>1, <2>2, <2>3 DEF Reconcile
<1>5. CASE RunFails \/ OperatorRestarts \/ SecretUnread
  BY <1>2, <1>5, IdleOK, UnreadIs DEF RunFails, OperatorRestarts
<1>6. CASE \E x \in Secrets : Watch(x)
  BY <1>1, <1>6 DEF Watch, StartWatch, BumpTrigger
<1>7. CASE \E p \in Nodes : Pod(p) \/ DriverDies(p)
  BY <1>1, <1>7 DEF Pod, ReplacePod, StartDriver, DriverDies, operatorVars
<1>8. CASE UNCHANGED vars
  BY <1>1, <1>8 DEF vars, operatorVars
<1> QED
  BY <1>3, <1>4, <1>5, <1>6, <1>7, <1>8 DEF Next

----------------------------------------------------------------------------
(* Labels.                                                                 *)

\* No secret is bare that was not before.
LEMMA BareShrinks ==
  ASSUME OperatorInv, [Next]_vars, NEW s \in Secrets, Bare(s)'
  PROVE  Bare(s)
<1>1. CASE secret'[s] # None /\ ~secret'[s].labelled
  <2>1. ~Comes(s) /\ ~Returns(s)
    BY <1>1 DEF Comes, Returns
  <2> QED
    BY <1>1, <2>1, SecretMoves DEF Stays, Goes, Bare
<1>2. CASE Relabelling(run') /\ s = SecretAt(run')
  BY <1>2, RunMoves
  DEF RunRests, RunBegins, RunReads, RunGoesOn, Bare, Reading, Relabelling
<1> QED
  BY <1>1, <1>2 DEF Bare

\* How the template changes: it is cleared, or is of a run that has read all.
LEMMA DaemonMoves ==
  ASSUME OperatorInv, [Next]_vars
  PROVE  \/ daemon' = daemon
         \/ ClearTemplate /\ daemon' = None
         \/ /\ run.pc = "apply" /\ run' = Idle
            /\ daemon' = [ver |-> run.ver, sums |-> run.sums]
<1>1. CASE ApplyTemplate
  BY <1>1, ApplyMoves DEF ApplyTemplate
<1>2. CASE ClearTemplate
  BY <1>2 DEF ClearTemplate
<1>3. CASE ~ApplyTemplate /\ ~ClearTemplate
  BY <1>3
  DEF Next, vars, clusterVars, operatorVars, User, WriteResource, DeleteResource,
      UserDeletesSecret, UserAppliesSecret, Reconcile, StartRun, CheckCluster, RemoveSecret,
      CreateSecret, DropEvent, SecretUnread, Watch, StartWatch, BumpTrigger, RunFails,
      OperatorRestarts, Pod, ReplacePod, StartDriver, DriverDies
<1> QED
  BY <1>1, <1>2, <1>3

\* A run that applies has read all that its version names.
LEMMA AllVisited ==
  ASSUME run.pc = "apply"
  PROVE  SecretsOf(Conf(run.ver)) \subseteq Visited(run)
BY DEF SecretsOf, Visited, Passed

\* How a pod changes: it stays, goes with its template or stops, is made for the
\* template there is, or reads what there is.
LEMMA PodMoves ==
  ASSUME OperatorInv, [Next]_vars, NEW p \in Nodes
  PROVE  \/ pod'[p] = pod[p]
         \/ pod'[p].st # "running" /\ pod'[p].tmpl = pod[p].tmpl
         \/ pod'[p].st # "running" /\ pod'[p].tmpl = daemon
         \/ /\ UNCHANGED <<secret, written, cr>>
            /\ config \in Versions
            /\ pod'[p].st = "running" /\ pod'[p].ver = config
            /\ pod[p].tmpl # None /\ pod'[p].tmpl = pod[p].tmpl
            /\ \A s \in Mounts(pod[p].tmpl) :
                 secret[s] # None /\ pod'[p].data[s] = secret[s].data
<1>0. TypeOK
  BY DEF OperatorInv
<1>1. CASE UNCHANGED pod
  BY <1>1
<1>2. ASSUME NEW n \in Nodes, Pod(n) \/ DriverDies(n), n # p
      PROVE  pod'[p] = pod[p]
  BY <1>0, <1>2 DEF Pod, ReplacePod, StartDriver, DriverDies, TypeOK
<1>3. CASE ReplacePod(p)
  <2>1. CASE daemon = None
    <3>1. pod'[p] = NoPod
      BY <1>0, <1>3, <2>1 DEF ReplacePod, TypeOK
    <3> QED
      BY <2>1, <3>1 DEF NoPod
  <2>2. CASE daemon # None
    <3>1. pod'[p] = [NoPod EXCEPT !.st = "starting", !.tmpl = daemon]
      BY <1>0, <1>3, <2>2 DEF ReplacePod, TypeOK
    <3> QED
      BY <3>1 DEF NoPod
  <2> QED
    BY <2>1, <2>2
<1>4. CASE StartDriver(p)
  <2> DEFINE d == [s \in Secrets |-> IF s \in MountedIn(p) THEN secret[s].data ELSE 0]
             q == [pod[p] EXCEPT !.st = "running", !.ver = config, !.data = d]
  <2>1. /\ pod[p].st = "starting" /\ config # 0 /\ pod' = [pod EXCEPT ![p] = q]
        /\ \A s \in MountedIn(p) : secret[s] # None
        /\ UNCHANGED <<secret, written, cr>>
    BY <1>4 DEF StartDriver, clusterVars
  <2>2. pod[p].tmpl \in Templates /\ pod[p].tmpl # None /\ config \in Versions
    BY <1>0, <2>1 DEF TypeOK
  <2>3. pod'[p] = q
    BY <1>0, <2>1 DEF TypeOK
  <2>4. Mounts(pod[p].tmpl) = MountedIn(p) /\ MountedIn(p) \subseteq Secrets
    BY <2>2, MountsSecrets DEF Mounts, MountedIn
  <2>5. \A s \in MountedIn(p) : d[s] = secret[s].data
    BY <2>4
  <2> HIDE DEF d
  <2>6. q.st = "running" /\ q.ver = config /\ q.tmpl = pod[p].tmpl /\ q.data = d
    BY <1>0 DEF TypeOK
  <2> HIDE DEF q
  <2> QED
    BY <2>1, <2>2, <2>3, <2>4, <2>5, <2>6
<1>5. CASE DriverDies(p)
  <2>1. pod'[p] = [pod[p] EXCEPT !.st = "starting"]
    BY <1>0, <1>5 DEF DriverDies, TypeOK
  <2> QED
    BY <1>0, <2>1 DEF TypeOK
<1>6. CASE \A n \in Nodes : ~Pod(n) /\ ~DriverDies(n)
  <2>1. UNCHANGED pod
    BY <1>6
    DEF Next, vars, User, WriteResource, DeleteResource,
        UserDeletesSecret, UserAppliesSecret, Reconcile, StartRun, CheckCluster, RemoveSecret,
        CreateSecret, ApplyTemplate, ClearTemplate, DropEvent, Watch, StartWatch, BumpTrigger,
        SecretUnread, RunFails, OperatorRestarts
  <2> QED
    BY <2>1
<1> QED
  BY <1>2, <1>3, <1>4, <1>5, <1>6 DEF Pod

\* A secret is labelled before anything mounts it.
LEMMA LabelStep ==
  ASSUME OperatorInv, LabelInv, [Next]_vars
  PROVE  LabelInv'
<1>1. ASSUME Reading(run')
      PROVE  /\ Visited(run') \subseteq Secrets
             /\ \A s \in Visited(run') : Bare(s)' => Relabelling(run') /\ s = SecretAt(run')
  <2>1. CASE RunBegins
    BY <2>1 DEF RunBegins
  <2>2. CASE RunReads(SecretAt(run))
    <3> DEFINE x == SecretAt(run)
    <3>1. /\ Visited(run') = Visited(run) \cup {x} /\ x \in Secrets
          /\ Visited(run) \subseteq Secrets
          /\ run.pc = "check"
      BY <2>2 DEF RunReads, LabelInv, CheckCluster
    <3>2. \A s \in Visited(run) : ~Bare(s)
      BY <2>2, <3>1 DEF LabelInv, RunReads, Relabelling
    <3>3. ~Relabelling(run') => ~Bare(x)
      BY <2>2, <3>1 DEF RunReads, Bare, Relabelling
    <3>4. Relabelling(run') => SecretAt(run') = x
      BY <2>2 DEF RunReads
    <3> QED
      BY <3>1, <3>2, <3>3, <3>4, BareShrinks
  <2>3. CASE RunGoesOn
    <3>1. /\ Visited(run') = Visited(run) /\ Visited(run) \subseteq Secrets
          /\ \A s \in Visited(run) : Bare(s) => Relabelling(run) /\ s = SecretAt(run)
      BY <2>3 DEF RunGoesOn, LabelInv
    <3>2. CASE Relabelling(run')
      BY <2>3, <3>1, <3>2, BareShrinks DEF RunGoesOn
    <3>3. CASE ~Relabelling(run')
      BY <2>3, <3>1, <3>3, BareShrinks DEF RunGoesOn, Bare
    <3> QED
      BY <3>2, <3>3
  <2> QED
    BY <1>1, <2>1, <2>2, <2>3, RunMoves DEF RunRests
<1>2. ASSUME NEW s \in Secrets, Bare(s)'
      PROVE  /\ s \notin Mounts(daemon')
             /\ \A p \in Nodes : s \notin Mounts(pod'[p].tmpl)
  <2>1. Bare(s)
    BY <1>2, BareShrinks
  <2>2. s \notin Mounts(daemon) /\ \A p \in Nodes : s \notin Mounts(pod[p].tmpl)
    BY <2>1 DEF LabelInv
  <2>3. s \notin Mounts(daemon')
    <3>1. CASE run.pc = "apply" /\ daemon' = [ver |-> run.ver, sums |-> run.sums]
      <4>1. s \notin Visited(run)
        BY <2>1, <3>1 DEF LabelInv, Reading, Relabelling
      <4> QED
        BY <3>1, <4>1, AllVisited DEF Mounts
    <3>2. CASE daemon' = None
      BY <3>2 DEF Mounts
    <3> QED
      BY <2>2, <3>1, <3>2, DaemonMoves
  <2>4. ASSUME NEW p \in Nodes
        PROVE  s \notin Mounts(pod'[p].tmpl)
    BY <2>2, PodMoves
  <2> QED
    BY <2>3, <2>4
<1> QED
  BY <1>1, <1>2 DEF LabelInv

----------------------------------------------------------------------------
(* Data.                                                                   *)

\* AtMost in the next state, of the same number.
AtMostNext(s, n) == n <= written'[s] /\ (secret'[s] # None => n <= secret'[s].data)

\* What is no newer than a secret stays so, unless a run brings it back.
LEMMA AtMostKept ==
  ASSUME OperatorInv, [Next]_vars, NEW s \in Secrets, ~Returns(s),
         NEW n \in Nat, AtMost(s, n)
  PROVE  AtMostNext(s, n)
<1>1. written[s] \in Nat
  BY DataNumbers DEF OperatorInv
<1> QED
  <2>1. CASE Stays(s) \/ Goes(s)
    BY <2>1 DEF AtMost, AtMostNext, Stays, Goes
  <2>2. CASE Comes(s)
    <3>1. secret'[s].data = written'[s] /\ written'[s] = written[s] + 1
      BY <2>2 DEF Comes
    <3>2. n <= written[s]
      BY DEF AtMost
    <3> QED
      BY <1>1, <3>1, <3>2 DEF AtMostNext
  <2> QED
    BY <2>1, <2>2, SecretMoves

\* What a run brings back it has read.
LEMMA ReturnsRead ==
  ASSUME OperatorInv, DataInv, NEW s \in Secrets, Returns(s)
  PROVE  /\ Reading(run) /\ Relabelling(run) /\ s \in Visited(run) /\ Bare(s)
         /\ secret'[s].data = run.sums[s] /\ run.sums[s] <= written'[s]
<1>1. /\ TypeOK /\ Reading(run) /\ Relabelling(run) /\ run.pc # "apply"
      /\ s = SecretAt(run)
  BY DEF OperatorInv, Returns, CreateSecret, Reading, Relabelling
<1>2. s \in Visited(run)
  BY <1>1, UpToRun
<1> QED
  BY <1>1, <1>2 DEF Bare, Returns, DataInv, AtMost

\* What is mounted is not brought back.
LEMMA MountedStays ==
  ASSUME OperatorInv, LabelInv, DataInv, NEW s \in Secrets, ~Bare(s)
  PROVE  ~Returns(s)
BY ReturnsRead

\* What a run has read is no newer than what is there.
LEMMA VisitedStep ==
  ASSUME OperatorInv, DataInv, [Next]_vars, LabelInv, Reading(run),
         NEW s \in Visited(run)
  PROVE  AtMostNext(s, run.sums[s])
<1>1. s \in Secrets /\ AtMost(s, run.sums[s]) /\ run.sums[s] \in Nat
  BY DataNumbers DEF OperatorInv, LabelInv, DataInv
<1>2. CASE Returns(s)
  <2>1. /\ secret'[s].data = run.sums[s] /\ run.sums[s] <= written'[s]
    BY <1>1, <1>2, ReturnsRead
  <2> QED
    BY <1>1, <2>1 DEF AtMostNext
<1>3. CASE ~Returns(s)
  BY <1>1, <1>3, AtMostKept
<1> QED
  BY <1>2, <1>3

\* The data of a template.
LEMMA TemplateStep ==
  ASSUME OperatorInv, DataInv, LabelInv, [Next]_vars, NEW t \in Templates, NEW s \in Mounts(t),
         ~Bare(s), AtMost(s, t.sums[s])
  PROVE  AtMostNext(s, t.sums[s])
<1>1. s \in Secrets /\ t.sums[s] \in Nat
  BY MountsSecrets DEF Templates
<1> QED
  BY <1>1, MountedStays, AtMostKept

\* No data are older than those that were read before.
LEMMA DataStep ==
  ASSUME OperatorInv, LabelInv, DataInv, [Next]_vars
  PROVE  DataInv'
<1>0. TypeOK
  BY DEF OperatorInv
<1>1. ASSUME NEW s \in Secrets, secret'[s] # None
      PROVE  secret'[s].data <= written'[s]
  <2>1. written[s] \in Nat
    BY <1>0, DataNumbers
  <2>2. CASE Returns(s)
    BY <2>2, ReturnsRead
  <2>3. CASE ~Returns(s)
    <3>1. CASE Stays(s) \/ Goes(s)
      BY <1>1, <3>1 DEF DataInv, Stays, Goes
    <3>2. CASE Comes(s)
      <4>1. secret'[s].data = written'[s] /\ written'[s] = written[s] + 1
        BY <3>2 DEF Comes
      <4> QED
        BY <2>1, <4>1
    <3> QED
      BY <2>3, <3>1, <3>2, SecretMoves
  <2> QED
    BY <2>2, <2>3
<1>2. ASSUME Reading(run')
      PROVE  /\ \A s \in Visited(run') : AtMostNext(s, run'.sums[s])
             /\ Relabelling(run') => run'.read = run'.sums[SecretAt(run')]
  <2>1. CASE RunBegins
    BY <2>1 DEF RunBegins
  <2>2. CASE RunReads(SecretAt(run))
    <3> DEFINE x == SecretAt(run)
    <3>1. /\ Reading(run) /\ x \in Secrets /\ secret[x] # None
          /\ Visited(run') = Visited(run) \cup {x}
          /\ run'.sums = [run.sums EXCEPT ![x] = secret[x].data]
          /\ Relabelling(run') => SecretAt(run') = x /\ run'.read = secret[x].data
          /\ UNCHANGED <<secret, written>>
      BY <2>2 DEF RunReads, CheckCluster, clusterVars
    <3>2. run.sums \in [Secrets -> Nat] /\ secret[x].data \in Nat
      BY <1>0, <3>1, DataNumbers, RunAt DEF RunType
    <3>3. Visited(run) \subseteq Secrets
      BY <3>1 DEF LabelInv
    <3> HIDE DEF x
    <3>4. run'.sums[x] = secret[x].data /\ \A s \in Secrets : s # x => run'.sums[s] = run.sums[s]
      BY <3>1, <3>2
    <3>5. AtMostNext(x, secret[x].data)
      BY <3>1, <3>2 DEF AtMostNext, DataInv
    <3>6. \A s \in Visited(run) : AtMostNext(s, run.sums[s])
      BY <3>1, VisitedStep
    <3> QED
      BY <3>1, <3>3, <3>4, <3>5, <3>6
  <2>3. CASE RunGoesOn
    BY <2>3, VisitedStep DEF RunGoesOn, DataInv
  <2> QED
    BY <1>2, <2>1, <2>2, <2>3, RunMoves DEF RunRests
<1>3. ASSUME NEW s \in Mounts(daemon')
      PROVE  AtMostNext(s, daemon'.sums[s])
  <2>1. CASE daemon' = daemon
    <3>1. daemon \in Templates /\ s \in Mounts(daemon) /\ s \in Secrets
      BY <1>0, <1>3, <2>1, MountsSecrets, DataNumbers DEF Mounts
    <3>2. ~Bare(s) /\ AtMost(s, daemon.sums[s])
      BY <3>1 DEF LabelInv, DataInv
    <3> QED
      BY <2>1, <3>1, <3>2, TemplateStep
  <2>2. CASE daemon' = None
    BY <1>3, <2>2 DEF Mounts
  <2>3. CASE run.pc = "apply" /\ daemon' = [ver |-> run.ver, sums |-> run.sums]
    <3>1. s \in Visited(run)
      BY <1>3, <2>3, AllVisited DEF Mounts
    <3>2. AtMostNext(s, run.sums[s])
      BY <2>3, <3>1, VisitedStep DEF Reading
    <3> QED
      BY <2>3, <3>2
  <2> QED
    BY <2>1, <2>2, <2>3, DaemonMoves
<1>4. (Relabelling(run) => Reading(run))'
  BY DEF Relabelling, Reading
<1> QED
  BY <1>1, <1>2, <1>3, <1>4 DEF DataInv, AtMost, AtMostNext

\* Versions of the resource go up.
LEMMA VersionGrows ==
  ASSUME OperatorInv, [Next]_vars
  PROVE  cr.ver \in Nat /\ cr'.ver \in Nat /\ cr.ver <= cr'.ver
<1>0. TypeOK /\ cr.ver \in Nat
  BY Numbers DEF OperatorInv
<1>1. CASE cr' = cr
  BY <1>0, <1>1
<1>2. ASSUME NEW n \in Versions, WriteResource(n)
      PROVE  cr'.ver \in Nat /\ cr.ver <= cr'.ver
  <2>1. cr'.ver = n /\ n > cr.ver /\ n \in Nat
    BY <1>0, <1>2, ConfTypes DEF WriteResource, TypeOK
  <2> QED
    BY <1>0, <2>1
<1>3. CASE DeleteResource \/ ClearTemplate \/ \E s \in Secrets : BumpTrigger(s)
  <2>1. cr'.ver = cr.ver
    BY <1>0, <1>3 DEF DeleteResource, ClearTemplate, BumpTrigger, TypeOK
  <2> QED
    BY <1>0, <2>1
<1>4. CASE /\ \A n \in Versions : ~WriteResource(n)
           /\ ~DeleteResource /\ ~ClearTemplate /\ \A s \in Secrets : ~BumpTrigger(s)
  <2>1. cr' = cr
    BY <1>4
    DEF Next, vars, User, UserDeletesSecret, UserAppliesSecret, Reconcile, StartRun,
        CheckCluster, RemoveSecret, CreateSecret, ApplyTemplate, DropEvent, Watch, StartWatch,
        SecretUnread, RunFails, OperatorRestarts, Pod, ReplacePod, StartDriver, DriverDies
  <2> QED
    BY <1>1, <2>1
<1> QED
  BY <1>0, <1>2, <1>3, <1>4

\* A driver has read what its template stands for, or something later.
LEMMA ReadStep ==
  ASSUME OperatorInv, LabelInv, DataInv, [Next]_vars, NEW p \in Nodes, ReadInv(p)
  PROVE  ReadInv(p)'
<1>0. TypeOK
  BY DEF OperatorInv
<1>1. ASSUME NEW t \in Templates \cup {None},
             \A s \in Mounts(t) : ~Bare(s) /\ AtMost(s, t.sums[s])
      PROVE  \A s \in Mounts(t) : AtMostNext(s, t.sums[s])
  BY <1>1, TemplateStep DEF Mounts
<1>2. /\ pod[p].tmpl \in Templates \cup {None} /\ daemon \in Templates \cup {None}
      /\ Mounts(pod[p].tmpl) \subseteq Secrets /\ Mounts(daemon) \subseteq Secrets
  BY <1>0, DataNumbers, MountsSecrets
<1>3. /\ \A s \in Mounts(pod[p].tmpl) : AtMostNext(s, pod[p].tmpl.sums[s])
      /\ \A s \in Mounts(daemon) : AtMostNext(s, daemon.sums[s])
  BY <1>1, <1>2 DEF LabelInv, DataInv, ReadInv
<1>4. CASE pod'[p] = pod[p]
  <2>1. ASSUME pod[p].st = "running"
        PROVE  pod[p].ver <= cr'.ver
    BY <1>0, <2>1, VersionGrows, Numbers DEF ReadInv
  <2>2. ASSUME pod[p].st = "running", NEW s \in Mounts(pod[p].tmpl)
        PROVE  pod[p].tmpl.sums[s] <= pod[p].data[s] /\ AtMostNext(s, pod[p].data[s])
    <3>1. s \in Secrets /\ ~Bare(s) /\ pod[p].data[s] \in Nat
      BY <1>0, <1>2, <2>2, DataNumbers DEF LabelInv
    <3>2. pod[p].tmpl.sums[s] <= pod[p].data[s] /\ AtMost(s, pod[p].data[s])
      BY <2>2 DEF ReadInv
    <3> QED
      BY <3>1, <3>2, MountedStays, AtMostKept
  <2> QED
    BY <1>3, <1>4, <2>1, <2>2 DEF ReadInv, AtMost, AtMostNext
<1>5. CASE pod'[p].st # "running" /\ pod'[p].tmpl \in {pod[p].tmpl, daemon}
  BY <1>3, <1>5 DEF ReadInv, AtMost, AtMostNext
<1>6. CASE /\ UNCHANGED <<secret, written, cr>>
           /\ config \in Versions
           /\ pod'[p].st = "running" /\ pod'[p].ver = config
           /\ pod[p].tmpl # None /\ pod'[p].tmpl = pod[p].tmpl
           /\ \A s \in Mounts(pod[p].tmpl) :
                secret[s] # None /\ pod'[p].data[s] = secret[s].data
  <2>1. config <= cr'.ver
    <3>1. config <= Newest /\ (run.pc # "idle" => run.ver <= cr.ver)
      BY DEF OperatorInv, RunInv
    <3>2. config \in Nat /\ run.ver \in Nat /\ cr.ver \in Nat
      BY <1>0, Numbers
    <3> QED
      BY <1>6, <3>1, <3>2 DEF Newest
  <2>2. ASSUME NEW s \in Mounts(pod[p].tmpl)
        PROVE  /\ pod[p].tmpl.sums[s] <= pod'[p].data[s]
               /\ AtMostNext(s, pod'[p].data[s])
    <3>1. s \in Secrets /\ secret[s] # None /\ pod'[p].data[s] = secret[s].data
          /\ secret[s].data \in Nat /\ secret[s].data <= written[s]
      BY <1>0, <1>2, <1>6, <2>2, DataNumbers DEF DataInv
    <3>2. pod[p].tmpl.sums[s] <= secret[s].data
      BY <2>2, <3>1 DEF ReadInv, AtMost
    <3> QED
      BY <1>6, <3>1, <3>2 DEF AtMostNext
  <2> QED
    BY <1>3, <1>6, <2>1, <2>2 DEF ReadInv, AtMost, AtMostNext
<1> QED
  BY <1>4, <1>5, <1>6, PodMoves

----------------------------------------------------------------------------
(* Notice.                                                                 *)

\* A step that leaves no event of the resource, and found none: it changes no
\* resource that is present, and is none of these.
LEMMA Quiet ==
  ASSUME OperatorInv, [Next]_vars, ~crEvent, ~crEvent', cr.st = "present"
  PROVE  /\ cr' = cr
         /\ ~StartRun /\ ~ClearTemplate
         /\ ~RunFails /\ ~OperatorRestarts
         /\ \A s \in Secrets : bump[s] # None /\ bump[s] = cr.trigger => bump'[s] = bump[s]
<1>0. TypeOK
  BY DEF OperatorInv
<1>1. ~StartRun /\ ~ClearTemplate /\ ~RunFails /\ ~OperatorRestarts
  BY DEF StartRun, ClearTemplate, RunFails, OperatorRestarts, OperatorInv, RunInv
<1>2. ~DeleteResource /\ \A n \in Versions : ~WriteResource(n)
  BY DEF DeleteResource, WriteResource
<1>3. CASE \E s \in Secrets : BumpTrigger(s)
  <2>1. PICK x \in Secrets : BumpTrigger(x)
    BY <1>3
  <2>2. cr' = cr /\ cr.trigger = (bump[x] + 1) % Triggers
    BY <2>1 DEF BumpTrigger
  <2>3. bump[x] \in 0..(Triggers - 1)
    BY <1>0, <2>1 DEF BumpTrigger, TypeOK
  <2>4. bump[x] # (bump[x] + 1) % Triggers
    BY <2>3, BoundsAssumption
  <2>5. \A s \in Secrets : s # x => bump'[s] = bump[s]
    BY <1>0, <2>1 DEF BumpTrigger, TypeOK
  <2> QED
    BY <1>1, <2>2, <2>4, <2>5
<1>4. CASE \E s \in Secrets : StartWatch(s)
  <2>1. PICK x \in Secrets : StartWatch(x)
    BY <1>4
  <2>2. cr' = cr /\ bump[x] = None /\ \A s \in Secrets : s # x => bump'[s] = bump[s]
    BY <1>0, <2>1 DEF StartWatch, TypeOK
  <2> QED
    BY <1>1, <2>2
<1>5. CASE \A s \in Secrets : ~BumpTrigger(s) /\ ~StartWatch(s)
  <2>1. UNCHANGED <<cr, bump>>
    BY <1>1, <1>2, <1>5
    DEF Next, vars, operatorVars, User, UserDeletesSecret, UserAppliesSecret, Reconcile,
        CheckCluster, RemoveSecret, CreateSecret, ApplyTemplate, DropEvent, SecretUnread, Watch, Pod,
        ReplacePod, StartDriver, DriverDies
  <2> QED
    BY <1>1, <2>1
<1> QED
  BY <1>3, <1>4, <1>5

\* An event of a secret is there until it is watched.
LEMMA EventsKept ==
  ASSUME OperatorInv, [Next]_vars, ~crEvent, ~crEvent', cr.st = "present",
         NEW s \in Secrets, s \in events
  PROVE  s \in events' \/ StartWatch(s)
<1>1. ~StartRun /\ ~ClearTemplate /\ ~RunFails /\ ~OperatorRestarts
      /\ ~DeleteResource /\ \A n \in Versions : ~WriteResource(n)
  BY Quiet DEF DeleteResource, WriteResource
<1> QED
  BY <1>1
  DEF Next, vars, operatorVars, User, UserDeletesSecret, UserAppliesSecret, Reconcile,
      CheckCluster, RemoveSecret, CreateSecret, ApplyTemplate, DropEvent, SecretUnread, Watch,
      StartWatch, BumpTrigger, Pod, ReplacePod, StartDriver, DriverDies

\* What is noticed stays so, until there is an event of the resource.
LEMMA NoticedKept ==
  ASSUME OperatorInv, [Next]_vars, ~crEvent, ~crEvent', cr.st = "present",
         NEW s \in SecretsOf(Conf(cr.ver)), Noticed(s)
  PROVE  Noticed(s)'
<1>0. TypeOK /\ s \in Secrets /\ cr' = cr
  <2>1. cr.ver \in Versions
    BY DEF OperatorInv, TypeOK
  <2> QED
    BY <2>1, Named, Quiet DEF OperatorInv
<1>1. Stays(s) \/ Goes(s) \/ Comes(s) \/ Returns(s)
  BY <1>0, SecretMoves
<1>2. CASE Goes(s) \/ Comes(s)
  BY <1>2 DEF Goes, Comes, Noticed
<1>3. CASE secret[s] = None
  BY <1>1, <1>2, <1>3 DEF Stays, Returns, Noticed
<1>4. CASE bump[s] # None /\ bump[s] = cr.trigger
  BY <1>0, <1>4, Quiet DEF Noticed
<1>5. CASE secret[s] # None /\ s \in events /\ secret[s].labelled
  <2>1. CASE StartWatch(s)
    <3>1. Watched(s) /\ bump'[s] = cr.trigger
      BY <1>0, <1>5, <2>1 DEF StartWatch, Watched, TypeOK
    <3>2. cr.trigger \in Nat
      BY <1>0, BoundsAssumption DEF TypeOK
    <3> QED
      BY <1>0, <3>1, <3>2, NoneAssumption DEF Noticed
  <2>2. CASE s \in events'
    BY <1>1, <1>2, <1>5, <2>2 DEF Stays, Returns, Noticed
  <2> QED
    BY <1>0, <1>5, <2>1, <2>2, EventsKept
<1> QED
  BY <1>3, <1>4, <1>5 DEF Noticed

\* And what a run has read, or a template is made of.
LEMMA FreshKept ==
  ASSUME OperatorInv, [Next]_vars, ~crEvent, ~crEvent', cr.st = "present",
         NEW s \in SecretsOf(Conf(cr.ver)), NEW sums, Fresh(s, sums),
         Returns(s) => sums[s] = run.read
  PROVE  Noticed(s)' \/ sums[s] = secret'[s].data
<1>0. s \in Secrets
  <2>1. cr.ver \in Versions
    BY DEF OperatorInv, TypeOK
  <2> QED
    BY <2>1, Named
<1>1. CASE Noticed(s)
  BY <1>1, NoticedKept
<1>2. CASE sums[s] = secret[s].data
  <2>1. CASE Stays(s) \/ Returns(s)
    BY <1>2, <2>1 DEF Stays, Returns
  <2>2. CASE Goes(s) \/ Comes(s)
    BY <2>2 DEF Goes, Comes, Noticed
  <2> QED
    BY <1>0, <2>1, <2>2, SecretMoves
<1> QED
  BY <1>1, <1>2 DEF Fresh

\* How a run ends of which nobody has an event.
LEMMA RunEnds ==
  ASSUME OperatorInv, [Next]_vars, ~crEvent, ~crEvent', cr.st = "present",
         run.pc # "idle", run'.pc = "idle"
  PROVE  CheckCluster \/ ApplyTemplate \/ SecretUnread
<1>1. ~StartRun /\ ~ClearTemplate /\ ~RunFails /\ ~OperatorRestarts
  BY Quiet
<1>2. ~RemoveSecret /\ ~CreateSecret
  BY RelabelMoves DEF RunGoesOn, Reading
<1> QED
  BY <1>1, <1>2
  DEF Next, vars, operatorVars, User, WriteResource, DeleteResource, UserDeletesSecret,
      UserAppliesSecret, Reconcile, DropEvent, Watch, StartWatch, BumpTrigger, Pod, ReplacePod,
      StartDriver, DriverDies

\* What a run has read, its version names.
LEMMA VisitedNamed ==
  ASSUME LabelInv, Reading(run)
  PROVE  Visited(run) \subseteq SecretsOf(Conf(run.ver))
<1>1. "" \notin Visited(run)
  BY SecretsAssumption DEF LabelInv
<1> QED
  BY <1>1 DEF Visited, SecretsOf

\* What a run has read is what is there, or noticed.
LEMMA ReadingStep ==
  ASSUME OperatorInv, LabelInv, DataInv, NoticeInv, [Next]_vars, ~crEvent, ~crEvent',
         Reading(run')
  PROVE  /\ cr'.st = "present" /\ run'.ver = cr'.ver
         /\ \A s \in Visited(run') : Noticed(s)' \/ run'.sums[s] = secret'[s].data
<1>1. RunReads(SecretAt(run)) \/ RunGoesOn
  BY RunMoves DEF RunRests, RunBegins, StartRun
<1>2. /\ Reading(run) /\ run'.ver = run.ver
      /\ cr.st = "present" /\ run.ver = cr.ver
      /\ \A s \in Visited(run) : Fresh(s, run.sums)
  BY <1>1 DEF RunReads, RunGoesOn, NoticeInv
<1>3. cr' = cr
  BY <1>2, Quiet
<1>4. \A s \in Visited(run) : Returns(s) => run.sums[s] = run.read
  BY DEF Returns, DataInv, Relabelling, CreateSecret
<1>5. \A s \in Visited(run) : Noticed(s)' \/ run.sums[s] = secret'[s].data
  BY <1>2, <1>4, VisitedNamed, FreshKept
<1>6. CASE RunGoesOn
  BY <1>2, <1>3, <1>5, <1>6 DEF RunGoesOn
<1>7. CASE RunReads(SecretAt(run))
  <2> DEFINE x == SecretAt(run)
  <2>1. /\ x \in Secrets /\ secret' = secret
        /\ Visited(run') = Visited(run) \cup {x}
        /\ run'.sums = [run.sums EXCEPT ![x] = secret[x].data]
    BY <1>7 DEF RunReads, CheckCluster, clusterVars
  <2>2. run.sums \in [Secrets -> Nat] /\ Visited(run) \subseteq Secrets
    BY <1>2, RunAt DEF OperatorInv, RunType, LabelInv
  <2> HIDE DEF x
  <2>3. run'.sums[x] = secret'[x].data /\ \A s \in Secrets : s # x => run'.sums[s] = run.sums[s]
    BY <2>1, <2>2
  <2> QED
    BY <1>2, <1>3, <1>5, <2>1, <2>2, <2>3
<1> QED
  BY <1>1, <1>6, <1>7

\* No run is under way and none starts.
LEMMA IdleStays ==
  ASSUME OperatorInv, [Next]_vars, ~crEvent, ~crEvent', cr.st = "present",
         run.pc = "idle"
  PROVE  run' = run
<1>1. ~StartRun /\ ~ClearTemplate /\ ~RunFails /\ ~OperatorRestarts
  BY Quiet
<1> QED
  BY <1>1
  DEF Next, vars, operatorVars, User, WriteResource, DeleteResource, UserDeletesSecret,
      UserAppliesSecret, Reconcile, CheckCluster, RemoveSecret, CreateSecret, ApplyTemplate,
      DropEvent, SecretUnread, Watch, StartWatch, BumpTrigger, Pod, ReplacePod, StartDriver,
      DriverDies

\* When a run is over, all is up to date, or it could not be.
LEMMA RestStep ==
  ASSUME OperatorInv, LabelInv, DataInv, NoticeInv, [Next]_vars, ~crEvent, ~crEvent',
         cr.st = "present", run'.pc = "idle"
  PROVE  run'.unread \/ UpToDate'
<1>0. TypeOK /\ cr.ver \in Versions /\ cr' = cr
  BY Quiet DEF OperatorInv, TypeOK
<1>1. CASE run.pc = "idle" /\ run.unread
  BY <1>1, IdleStays
<1>2. CASE run.pc = "idle" /\ ~run.unread
  <2>1. UpToDate
    BY <1>2 DEF NoticeInv
  <2>2. \A s : ~Returns(s)
    BY <1>2 DEF Returns, CreateSecret
  <2>3. daemon' = daemon
    BY <1>2, Quiet, DaemonMoves
  <2>4. CASE \E i \in Indices(Conf(cr.ver)) : Conf(cr.ver)[i].secret = ""
    BY <1>0, <2>4 DEF UpToDate
  <2>5. CASE \E s \in SecretsOf(Conf(cr.ver)) : Noticed(s)
    BY <1>0, <2>5, NoticedKept DEF UpToDate
  <2>6. CASE /\ daemon # None /\ daemon.ver = cr.ver
             /\ \A s \in SecretsOf(Conf(cr.ver)) : Fresh(s, daemon.sums)
    <3>1. \A s \in SecretsOf(Conf(cr.ver)) : Noticed(s)' \/ daemon.sums[s] = secret'[s].data
      BY <2>2, <2>6, FreshKept
    <3> QED
      BY <1>0, <2>3, <2>6, <3>1 DEF UpToDate, Fresh
  <2> QED
    BY <2>1, <2>4, <2>5, <2>6 DEF UpToDate
<1>3. CASE run.pc # "idle"
  <2>1. CASE CheckCluster
    <3>1. /\ Reading(run) /\ run.pc # "apply"
          /\ SecretAt(run) = "" \/ secret[SecretAt(run)] = None
          /\ secret' = secret
      BY <2>1, CheckMoves DEF CheckCluster, RunReads, Reading, clusterVars
    <3>2. run.ver = cr.ver
      BY <3>1 DEF NoticeInv
    <3>3. run.at \in Indices(Conf(cr.ver)) /\ SecretAt(run) = Conf(cr.ver)[run.at].secret
      BY <1>0, <3>1, <3>2, RunAt DEF SecretAt
    <3>4. CASE SecretAt(run) = ""
      BY <1>0, <3>3, <3>4 DEF UpToDate
    <3>5. CASE SecretAt(run) # ""
      <4>1. SecretAt(run) \in SecretsOf(Conf(cr.ver))
        BY <3>3, <3>5 DEF SecretsOf
      <4>2. secret'[SecretAt(run)] = None
        BY <3>1, <3>5
      <4>3. \E s \in SecretsOf(Conf(cr.ver)) : secret'[s] = None
        BY <4>1, <4>2
      <4> QED
        BY <1>0, <4>3 DEF UpToDate, Noticed
    <3> QED
      BY <3>4, <3>5
  <2>2. CASE ApplyTemplate
    <3>1. /\ run.pc = "apply" /\ Reading(run)
          /\ daemon' = [ver |-> run.ver, sums |-> run.sums]
      BY <2>2, ApplyMoves DEF ApplyTemplate, Reading, RunGoesOn
    <3>2. run.ver = cr.ver /\ \A s \in Visited(run) : Fresh(s, run.sums)
      BY <3>1 DEF NoticeInv
    <3>3. \A s : ~Returns(s)
      BY <3>1 DEF Returns, CreateSecret
    <3>4. \A s \in SecretsOf(Conf(cr.ver)) : Noticed(s)' \/ run.sums[s] = secret'[s].data
      BY <3>1, <3>2, <3>3, AllVisited, FreshKept
    <3>5. daemon' # None
      BY <1>0, <3>1, RunAt, NoneAssumption DEF RunType
    <3> QED
      BY <1>0, <3>1, <3>2, <3>4, <3>5 DEF UpToDate, Fresh
  <2> QED
    BY <1>3, <2>1, <2>2, RunEnds, UnreadIs
<1> QED
  BY <1>1, <1>2, <1>3

\* What a run or a DaemonSet has of a secret stays true to it or is about to be noticed.
LEMMA NoticeStep ==
  ASSUME OperatorInv, LabelInv, DataInv, NoticeInv, [Next]_vars
  PROVE  NoticeInv'
<1>0. TypeOK
  BY DEF OperatorInv
<1>1. SUFFICES ASSUME ~crEvent'
      PROVE  /\ Reading(run') =>
                  /\ cr'.st = "present" /\ run'.ver = cr'.ver
                  /\ \A s \in Visited(run') : Noticed(s)' \/ run'.sums[s] = secret'[s].data
             /\ run'.pc = "idle" /\ cr'.st = "present" => run'.unread \/ UpToDate'
  BY DEF NoticeInv, Fresh
<1>2. CASE crEvent
  <2>1. StartRun \/ DropEvent
    BY <1>1, <1>2
    DEF Next, vars, operatorVars, User, WriteResource, DeleteResource, UserDeletesSecret,
        UserAppliesSecret, Reconcile, CheckCluster, RemoveSecret, CreateSecret, ApplyTemplate,
        ClearTemplate, SecretUnread, Watch, StartWatch, BumpTrigger, RunFails, OperatorRestarts, Pod,
        ReplacePod, StartDriver, DriverDies
  <2>2. CASE StartRun
    <3>1. cr' = cr
      BY <2>2 DEF StartRun
    <3>2. run'.pc = "clear" \/ RunBegins
      BY <2>2, StartMoves
    <3> QED
      BY <3>1, <3>2 DEF RunBegins, Reading
  <2>3. CASE DropEvent
    BY <2>3 DEF DropEvent, Reading
  <2> QED
    BY <2>1, <2>2, <2>3
<1>3. CASE ~crEvent
  <2>1. ASSUME cr'.st = "present"
        PROVE  cr.st = "present"
    <3>1. \A n \in Versions : ~WriteResource(n)
      BY <1>1 DEF WriteResource
    <3>2. CASE ClearTemplate \/ DeleteResource \/ \E s \in Secrets : BumpTrigger(s)
      BY <1>0, <2>1, <3>2 DEF ClearTemplate, DeleteResource, BumpTrigger, TypeOK
    <3>3. CASE /\ ~ClearTemplate /\ ~DeleteResource
               /\ \A s \in Secrets : ~BumpTrigger(s)
      <4>1. cr' = cr
        BY <3>1, <3>3
        DEF Next, vars, User, UserDeletesSecret, UserAppliesSecret, Reconcile, StartRun,
            CheckCluster, RemoveSecret, CreateSecret, ApplyTemplate, DropEvent, Watch,
            StartWatch, SecretUnread, RunFails, OperatorRestarts, Pod, ReplacePod, StartDriver,
            DriverDies
      <4> QED
        BY <2>1, <4>1
    <3> QED
      BY <3>2, <3>3
  <2> QED
    BY <1>1, <1>3, <2>1, ReadingStep, RestStep
<1> QED
  BY <1>2, <1>3

----------------------------------------------------------------------------
(* The invariant and what follows from it.                                 *)

\* Nothing is read or deployed at the beginning.
LEMMA InitCurrent == Init => CurrentInv
<1> SUFFICES ASSUME Init PROVE CurrentInv
  OBVIOUS
<1>1. ~Reading(run) /\ ~Relabelling(run) /\ cr.st = "absent"
  BY DEF Init, Idle, Reading, Relabelling
<1>2. Mounts(daemon) = {} /\ \A p \in Nodes : Mounts(pod[p].tmpl) = {} /\ pod[p].st = "none"
  BY DEF Init, NoPod, Mounts
<1>3. ASSUME NEW s \in Secrets, secret[s] # None
      PROVE  secret[s].data <= written[s]
  BY <1>3 DEF Init
<1> QED
  BY <1>1, <1>2, <1>3 DEF CurrentInv, LabelInv, DataInv, ReadInv, NoticeInv

\* The invariant: secrets are labelled before anything mounts them, no data
\* are older than those read before, and what a run has read of a resource
\* that nobody has an event of is there still, or about to be noticed, unless
\* that run could not read a secret and ended with no error
\* (cluster_check.yml:2-25, password_label.yml:2-23, secret_watch.yml:11-35).
THEOREM CurrentInvariant == Spec => []CurrentInv
<1>1. OperatorInv /\ CurrentInv /\ [Next]_vars => CurrentInv'
  BY LabelStep, DataStep, ReadStep, NoticeStep DEF CurrentInv
<1> QED
  BY <1>1, InitCurrent, OperatorInvariant, PTL DEF Spec

\* What has settled is up to date.
LEMMA SettledUpToDate ==
  ASSUME OperatorInv, CurrentInv, Settled, Complete, ~run.unread
  PROVE  /\ daemon # None /\ daemon.ver = cr.ver /\ cr.ver \in Versions
         /\ \A s \in SecretsOf(Conf(cr.ver)) :
              /\ s \in Secrets /\ secret[s] # None
              /\ daemon.sums[s] = secret[s].data
<1>1. cr.ver \in Versions
  BY DEF OperatorInv, TypeOK, Complete
<1>2. \A s \in SecretsOf(Conf(cr.ver)) : s \in Secrets /\ ~Noticed(s)
  BY <1>1, Named DEF Settled, Complete, Noticed
<1>3. \A i \in Indices(Conf(cr.ver)) : Conf(cr.ver)[i].secret # ""
  BY DEF Complete, Valid
<1>4. UpToDate
  BY DEF CurrentInv, NoticeInv, Settled, Complete
<1> QED
  BY <1>1, <1>2, <1>3, <1>4 DEF UpToDate, Fresh, Complete

\* When the operator, Kubernetes and the drivers have come to rest, every
\* driver runs with the resource and the secrets there are, whatever changed
\* while runs, watches and starts were under way and whichever of them failed,
\* except a last run that could not read a secret and ended with no error
\* (secret_watch.yml:23-35, cluster_check.yml:2-25, csi-plugin.yaml.j2:79-88).
THEOREM RestIsCurrent ==
  ASSUME ~Reverts
  PROVE  Spec => []SettledIsCurrent
<1>1. ASSUME OperatorInv, CurrentInv, Settled, Complete, ~run.unread, NEW p \in Nodes
      PROVE  Runs(p, cr.ver, SecretData)
  <2>1. TypeOK /\ pod[p].st = "running" /\ SameTemplate(pod[p].tmpl, daemon)
    BY <1>1 DEF OperatorInv, Settled
  <2>2. pod[p].tmpl \in Templates /\ daemon \in Templates
        /\ Conf(pod[p].tmpl.ver) = Conf(cr.ver) /\ pod[p].tmpl.sums = daemon.sums
        /\ pod[p].tmpl # None /\ cr.ver \in Versions
    BY <1>1, <2>1, SettledUpToDate, DataNumbers DEF SameTemplate, TypeOK
  <2>3. pod[p].tmpl.ver = cr.ver
    BY <2>2 DEF Reverts, Templates
  <2>4. pod[p].ver = cr.ver
    <3>1. pod[p].ver >= pod[p].tmpl.ver /\ pod[p].ver <= cr.ver
      BY <1>1, <2>1 DEF OperatorInv, PodInv, CurrentInv, ReadInv
    <3> QED
      BY <2>1, <2>3, <3>1, Numbers
  <2>5. ASSUME NEW s \in SecretsOf(Conf(cr.ver))
        PROVE  pod[p].data[s] = SecretData[s]
    <3>1. /\ s \in Secrets /\ secret[s] # None
          /\ daemon.sums[s] = secret[s].data
          /\ s \in Mounts(pod[p].tmpl)
      BY <1>1, <2>2, <2>5, SettledUpToDate DEF Mounts
    <3>2. daemon.sums[s] <= pod[p].data[s] /\ pod[p].data[s] <= secret[s].data
      BY <1>1, <2>1, <2>2, <3>1 DEF CurrentInv, ReadInv, AtMost
    <3>3. pod[p].data[s] \in Nat /\ secret[s].data \in Nat
      BY <2>1, <3>1, DataNumbers
    <3> QED
      BY <3>1, <3>2, <3>3 DEF SecretData
  <2> QED
    BY <2>1, <2>4, <2>5 DEF Runs
<1>2. OperatorInv /\ CurrentInv => SettledIsCurrent
  BY <1>1 DEF SettledIsCurrent
<1> QED
  BY <1>2, OperatorInvariant, CurrentInvariant, PTL
=============================================================================
