----------------------- MODULE OperatorReconcileProofs -----------------------
(***************************************************************************)
(* Proofs about OperatorReconcile and PluginConfig, for any nodes, any     *)
(* secrets, any versions of the configuration and any number of faults.    *)
(***************************************************************************)
EXTENDS OperatorReconcile, TLAPS

----------------------------------------------------------------------------
(* The configuration.                                                      *)

\* What the validation accepts has every connector that is used unseen, though
\* it looks for the remote cluster among other clusters than the ones that the
\* connectors are made of (gpfs.go:449-485, 186-255).
THEOREM ValidHasConnectors ==
  \A conf : Valid(conf) => Needed(conf) \subseteq Connectors(conf)
  BY DEF Valid, Needed, Connectors, RemoteClusterDefined

\* Versions are numbers, and their clusters sections sequences.
LEMMA ConfTypes ==
  /\ Versions \subseteq Nat \ {0}
  /\ \A n \in Versions : /\ Len(Conf(n)) \in Nat
                         /\ DOMAIN Conf(n) = 1..Len(Conf(n))
  <1>1. Confs \in Seq(Seq([id : STRING, gui : STRING, secret : STRING,
                           cacert : STRING, fs : STRING, remote : STRING,
                           secure : BOOLEAN, primary : BOOLEAN]))
    BY ConfsAssumption
  <1> DEFINE C == [id : STRING, gui : STRING, secret : STRING,
                   cacert : STRING, fs : STRING, remote : STRING,
                   secure : BOOLEAN, primary : BOOLEAN]
  <1> HIDE DEF C
  <1>2. Confs \in Seq(Seq(C))
    BY <1>1 DEF C
  <1>3. Versions = 1..Len(Confs) /\ Len(Confs) \in Nat
    BY <1>2 DEF Versions
  <1>4. \A n \in Versions : Confs[n] \in Seq(C)
    BY <1>2, <1>3
  <1> QED BY <1>3, <1>4 DEF Conf

\* The secret of a cluster that names one is among the secrets.
LEMMA SecretNamed ==
  ASSUME NEW n \in Versions, NEW i \in 1..Len(Conf(n)), Conf(n)[i].secret # ""
  PROVE  Conf(n)[i].secret \in Secrets
  BY ConfTypes, ConfsAssumption DEF Conf, Indices

\* The four templates, in the order main.yml names them.
LEMMA OrderIs ==
  /\ Len(Order) = 4 /\ Len(DeployList) = 4
  /\ Order[1] = "roles" /\ Order[2] = "config" /\ Order[3] = "sidecars" /\ Order[4] = "driver"
  BY DEF Order, DeployList

----------------------------------------------------------------------------
(* Runs.                                                                   *)

\* No run is a well-formed run.
LEMMA IdleOK == RunOK(Idle) /\ Idle.pc = "idle"
  BY DEF RunOK, RunType, Idle

\* The next cluster is one of the section, and after the last come the templates.
LEMMA NextClusterOK ==
  ASSUME NEW r \in RunType, r.ver \in Versions
  PROVE  /\ RunOK(NextCluster(r)) /\ NextCluster(r).ver = r.ver
         /\ NextCluster(r).pc = "check" \/ (NextCluster(r).pc = "apply" /\ NextCluster(r).at = 1)
  <1>1. Len(Conf(r.ver)) \in Nat
    BY ConfTypes
  <1>2. r.at \in Nat
    BY DEF RunType
  <1>3. CASE r.at < Len(Conf(r.ver))
    <2>1. PICK n \in Nat : n = r.at + 1
      BY <1>2
    <2> DEFINE q == [r EXCEPT !.pc = "check", !.at = n, !.read = None]
    <2>2. q \in RunType /\ q.pc = "check" /\ q.at = n /\ q.ver = r.ver
      BY DEF RunType
    <2>3. NextCluster(r) = q
      BY <1>3, <2>1 DEF NextCluster
    <2> HIDE DEF q
    <2> QED BY <1>1, <1>2, <1>3, <2>1, <2>2, <2>3 DEF RunOK
  <1>4. CASE ~(r.at < Len(Conf(r.ver)))
    <2> DEFINE q == [r EXCEPT !.pc = "apply", !.at = 1, !.read = None]
    <2>1. /\ q \in RunType /\ q.pc = "apply" /\ q.at = 1 /\ q.ver = r.ver
      BY DEF RunType
    <2>2. NextCluster(r) = q
      BY <1>4 DEF NextCluster
    <2> HIDE DEF q
    <2> QED BY <2>1, <2>2, OrderIs DEF RunOK
  <1> QED BY <1>3, <1>4

----------------------------------------------------------------------------
(* What keeps the invariant.                                               *)

\* The versions that are compared are numbers.
LEMMA Numbers ==
  ASSUME TypeOK
  PROVE  /\ cr.ver \in Nat /\ run.ver \in Nat /\ run.at \in Nat /\ config \in Nat
         /\ Newest \in Nat
         /\ daemon # None => daemon.ver \in Nat
         /\ \A p \in Nodes : pod[p].ver \in Nat /\ (pod[p].tmpl # None => pod[p].tmpl.ver \in Nat)
  <1>1. Versions \cup {0} \subseteq Nat
    BY ConfTypes
  <1>2. cr.ver \in Nat /\ config \in Nat
    BY <1>1 DEF TypeOK
  <1>3. run.ver \in Nat /\ run.at \in Nat
    BY <1>1 DEF TypeOK, RunOK, RunType
  <1>4. \A t \in Templates : t.ver \in Nat
    BY <1>1 DEF Templates
  <1>5. daemon # None => daemon.ver \in Nat
    BY <1>4 DEF TypeOK
  <1>6. ASSUME NEW p \in Nodes
        PROVE  pod[p].ver \in Nat /\ (pod[p].tmpl # None => pod[p].tmpl \in Templates)
    BY <1>1 DEF TypeOK
  <1> QED BY <1>2, <1>3, <1>4, <1>5, <1>6 DEF Newest

\* Versions are numbers after a step, too.
LEMMA NumbersNext ==
  ASSUME TypeOK'
  PROVE  cr'.ver \in Nat /\ run'.ver \in Nat /\ Newest' \in Nat
  <1>1. Versions \cup {0} \subseteq Nat
    BY ConfTypes
  <1>2. cr'.ver \in Nat
    BY <1>1 DEF TypeOK
  <1>3. run'.ver \in Nat
    BY <1>1 DEF TypeOK, RunOK, RunType
  <1> QED BY <1>2, <1>3 DEF Newest

\* A change of the resource, as long as it is not taken from under a run.
LEMMA ResourceFrame ==
  ASSUME OperatorInv, TypeOK', UNCHANGED <<run, deployed, config, daemon, pod>>,
         cr.ver <= cr'.ver, cr'.st # "absent" \/ cr'.st = cr.st,
         run.pc = "clear" => cr'.st = "deleting"
  PROVE  OperatorInv'
  <1> USE DEF OperatorInv
  <1>1. Newest <= Newest' /\ Newest' \in Nat
    BY Numbers, NumbersNext DEF Newest
  <1>2. RunInv'
    BY Numbers, NumbersNext DEF RunInv
  <1>3. \A p \in Nodes : PodInv(p)'
    BY <1>1, Numbers DEF PodInv
  <1>4. config' <= Newest' /\ DaemonHasItsConfig' /\ NothingLeft'
    BY <1>1, Numbers DEF DaemonHasItsConfig, NothingLeft
  <1> QED BY <1>2, <1>3, <1>4

\* A step of a run that applies and clears nothing.
LEMMA RunFrame ==
  ASSUME OperatorInv, TypeOK', UNCHANGED <<cr, deployed, config, daemon, pod>>,
         Newest <= Newest',
         run'.pc # "idle" => run'.ver <= cr.ver /\ cr.st # "absent",
         run'.pc = "clear" => cr.st = "deleting" /\ run'.at = 4,
         run'.pc = "apply" => run'.at = 1
  PROVE  OperatorInv'
  <1> USE DEF OperatorInv
  <1>1. RunInv'
    <2>1. deployed \subseteq {Order[i] : i \in 1..4}
      BY OrderIs DEF TypeOK
    <2>2. {Order[i] : i \in 1..(1 - 1)} = {}
      OBVIOUS
    <2> QED BY <2>1, <2>2 DEF RunInv
  <1>2. \A p \in Nodes : PodInv(p)'
    BY Numbers, NumbersNext DEF PodInv
  <1>3. config' <= Newest' /\ DaemonHasItsConfig' /\ NothingLeft'
    BY Numbers, NumbersNext DEF DaemonHasItsConfig, NothingLeft
  <1> QED BY <1>1, <1>2, <1>3

\* A step of a pod.
LEMMA PodFrame ==
  ASSUME OperatorInv, TypeOK', UNCHANGED <<cr, run, deployed, config, daemon>>,
         \A p \in Nodes : PodInv(p)'
  PROVE  OperatorInv'
  BY DEF OperatorInv, RunInv, Newest, DaemonHasItsConfig, NothingLeft

----------------------------------------------------------------------------
(* The steps.                                                              *)

\* Users write no more than they may and touch nothing deployed.
LEMMA UserInv ==
  ASSUME OperatorInv, User
  PROVE  OperatorInv'
  <1>0. TypeOK
    BY DEF OperatorInv
  <1>1. ASSUME NEW n \in Versions, WriteResource(n)
        PROVE  OperatorInv'
    <2>0. /\ cr' \in [st : {"absent", "present", "deleting"}, ver : Versions \cup {0},
                       trigger : 0..(Triggers - 1)]
          /\ cr'.st = "present" /\ cr'.ver = n
      BY <1>0, <1>1 DEF WriteResource, TypeOK
    <2>1. TypeOK'
      BY <1>0, <1>1, <2>0, ConfTypes DEF WriteResource, TypeOK, clusterVars
    <2>2. cr'.st = "present" /\ cr'.ver = n /\ cr.ver <= n /\ run.pc # "clear"
      BY <1>0, <1>1, <2>0, Numbers, ConfTypes DEF WriteResource, OperatorInv, RunInv
    <2> QED BY <1>1, <2>1, <2>2, ResourceFrame DEF WriteResource, clusterVars
  <1>2. CASE DeleteResource
    <2>1. TypeOK'
      BY <1>0, <1>2 DEF DeleteResource, TypeOK, clusterVars
    <2>2. cr'.st = "deleting" /\ cr'.ver = cr.ver
      BY <1>0, <1>2 DEF DeleteResource, TypeOK
    <2> QED BY <1>0, <1>2, <2>1, <2>2, Numbers, ResourceFrame DEF DeleteResource, clusterVars
  <1>3. ASSUME NEW s \in Secrets, UserDeletesSecret(s) \/ UserAppliesSecret(s)
        PROVE  OperatorInv'
    <2>1. CASE UserDeletesSecret(s)
      <3>1. TypeOK'
        BY <1>0, <2>1 DEF UserDeletesSecret, TypeOK, operatorVars
      <3> QED BY <1>0, <2>1, <3>1, Numbers, ResourceFrame
              DEF UserDeletesSecret, operatorVars, OperatorInv, RunInv
    <2>2. CASE UserAppliesSecret(s)
      <3>1. secret' \in [Secrets -> [data : Nat, labelled : BOOLEAN] \cup {None}]
        BY <1>0, <2>2 DEF UserAppliesSecret, TypeOK
      <3>2. written' \in [Secrets -> Nat] /\ \A x \in Secrets : written'[x] <= MaxWrites[x]
        <4>1. PICK w \in Nat : w = written[s] + 1
          BY <1>0 DEF TypeOK
        <4>2. written[s] < MaxWrites[s]
          BY <2>2 DEF UserAppliesSecret
        <4>3. written[s] \in Nat /\ MaxWrites[s] \in Nat
          BY <1>0, BoundsAssumption DEF TypeOK
        <4>4. w <= MaxWrites[s]
          BY <4>1, <4>2, <4>3
        <4>5. written' = [written EXCEPT ![s] = w]
          BY <2>2, <4>1 DEF UserAppliesSecret
        <4> QED BY <1>0, <4>4, <4>5 DEF TypeOK
      <3>3. TypeOK'
        BY <1>0, <2>2, <3>1, <3>2 DEF UserAppliesSecret, TypeOK
      <3> QED BY <1>0, <2>2, <3>3, Numbers, ResourceFrame
              DEF UserAppliesSecret, OperatorInv, RunInv
    <2> QED BY <1>3, <2>1, <2>2
  <1> QED BY <1>1, <1>2, <1>3 DEF User

\* A run starts with no template behind it, or with all that a deletion has to clear.
LEMMA StartRunInv ==
  ASSUME OperatorInv, StartRun
  PROVE  OperatorInv'
  <1> DEFINE r == [Idle EXCEPT !.ver = cr.ver]
  <1>0. TypeOK /\ cr.st # "absent" /\ run.pc = "idle" /\ cr.ver \in Versions
    BY DEF OperatorInv, StartRun, TypeOK
  <1>1. r \in RunType /\ r.ver = cr.ver
    BY <1>0 DEF Idle, RunType
  <1>2. CASE cr.st = "present"
    <2>1. run' = NextCluster(r)
      BY <1>2 DEF StartRun
    <2> HIDE DEF r
    <2>2. /\ RunOK(run') /\ run'.ver = cr.ver /\ run'.pc # "clear" /\ run'.pc # "idle"
          /\ run'.pc = "apply" => run'.at = 1
      BY <1>0, <1>1, <2>1, NextClusterOK
    <2>3. TypeOK'
      BY <1>0, <2>2 DEF StartRun, TypeOK, clusterVars
    <2>4. Newest' = Newest
      BY <1>0, <2>2 DEF Newest, StartRun
    <2> QED BY <1>0, <2>2, <2>3, <2>4, Numbers, RunFrame DEF StartRun, clusterVars
  <1>3. CASE cr.st = "deleting"
    <2> DEFINE q == [r EXCEPT !.pc = "clear", !.at = 4]
    <2>1. run' = q
      BY <1>3, OrderIs DEF StartRun
    <2>2. q \in RunType /\ q.pc = "clear" /\ q.at = 4 /\ q.ver = cr.ver
      BY <1>0, <1>1 DEF RunType
    <2> HIDE DEF r, q
    <2>3. RunOK(run')
      BY <1>0, <2>1, <2>2, OrderIs DEF RunOK
    <2>4. TypeOK'
      BY <1>0, <2>3 DEF StartRun, TypeOK, clusterVars
    <2>5. Newest' = Newest
      BY <1>0, <2>1, <2>2 DEF Newest, StartRun
    <2>6. UNCHANGED <<cr, deployed, config, daemon, pod>>
      BY DEF StartRun, clusterVars
    <2>7. Newest <= Newest'
      BY <1>0, <2>5, Numbers
    <2> QED BY <1>0, <1>3, <2>1, <2>2, <2>4, <2>6, <2>7, Numbers, RunFrame
  <1>4. cr.st \in {"absent", "present", "deleting"}
    BY <1>0 DEF TypeOK
  <1> QED BY <1>0, <1>2, <1>3, <1>4

\* A secret that was read, labelled or not found.
LEMMA CheckInv ==
  ASSUME OperatorInv, CheckCluster \/ RemoveSecret \/ CreateSecret
  PROVE  OperatorInv'
  <1> DEFINE s == SecretAt(run)
  <1>0. /\ TypeOK /\ run \in RunType /\ run.ver \in Versions /\ run.at \in 1..Len(Conf(run.ver))
        /\ run.pc \in {"check", "relabel", "recreate"}
        /\ run.pc # "check" => run.read \in Nat /\ s \in Secrets
        /\ run.ver <= cr.ver /\ cr.st # "absent"
    <2>1. TypeOK /\ RunOK(run) /\ run.pc \in {"check", "relabel", "recreate"}
      BY DEF OperatorInv, TypeOK, CheckCluster, RemoveSecret, CreateSecret
    <2>2. run.ver <= cr.ver /\ cr.st # "absent"
      BY <2>1 DEF OperatorInv, RunInv
    <2> QED BY <2>1, <2>2, Numbers, ConfTypes DEF RunOK
  <1>1. s # "" => s \in Secrets
    BY <1>0, SecretNamed DEF SecretAt
  <1> HIDE DEF s
  <1>2. UNCHANGED <<cr, deployed, config, daemon, pod>>
    BY DEF CheckCluster, RemoveSecret, CreateSecret, clusterVars
  <1>3. ASSUME RunOK(run'), run'.pc # "idle" => run'.ver = run.ver,
               run'.pc # "clear", run'.pc = "apply" => run'.at = 1,
               secret' \in [Secrets -> [data : Nat, labelled : BOOLEAN] \cup {None}],
               events' \subseteq Secrets, UNCHANGED <<crEvent, bump, written, faults>>
        PROVE  OperatorInv'
    <2>1. TypeOK'
      BY <1>0, <1>2, <1>3 DEF TypeOK
    <2>2. Newest <= Newest'
      BY <1>0, <1>2, <1>3, <2>1, Numbers, NumbersNext DEF Newest
    <2> QED BY <1>0, <1>2, <1>3, <2>1, <2>2, Numbers, RunFrame
  <1>4. CASE CheckCluster
    <2>1. UNCHANGED <<secret, crEvent, events, bump, written, faults>>
      BY <1>4 DEF CheckCluster, clusterVars
    <2>2. CASE run' = Idle
      BY <1>0, <1>3, <2>1, <2>2, IdleOK DEF TypeOK
    <2>3. CASE s # "" /\ secret[s] # None
      <3> DEFINE r == [run EXCEPT !.sums[s] = secret[s].data, !.read = secret[s].data]
                 q == [r EXCEPT !.pc = "relabel"]
      <3>1. secret[s].data \in Nat
        BY <1>0, <1>1, <2>3 DEF TypeOK
      <3>2. /\ r \in RunType /\ r.ver = run.ver /\ r.at = run.at
            /\ r.read = secret[s].data
        BY <1>0, <1>1, <2>3, <3>1 DEF RunType
      <3>3. q \in RunType /\ q.pc = "relabel" /\ q.ver = run.ver /\ q.at = run.at /\ q.read \in Nat
        BY <3>1, <3>2 DEF RunType
      <3>4. run' = IF NeedsLabel(secret[s]) THEN q ELSE NextCluster(r)
        BY <1>4, <2>3 DEF CheckCluster, s
      <3> HIDE DEF r, q
      <3>5. CASE run' = q
        <4>a. SecretAt(q) = s
          BY <3>3 DEF SecretAt, s
        <4>b. RunOK(q)
          <5>1. q.ver \in Versions /\ q.at # 0 /\ q.at <= Len(Conf(q.ver))
            BY <1>0, <3>3, ConfTypes
          <5>2. SecretAt(q) \in Secrets
            BY <1>1, <2>3, <4>a
          <5> QED BY <3>3, <5>1, <5>2 DEF RunOK
        <4>1. RunOK(run')
          BY <3>5, <4>b
        <4> QED BY <1>0, <1>3, <2>1, <3>3, <3>5, <4>1 DEF TypeOK
      <3>6. CASE run' = NextCluster(r)
        <4>1. /\ RunOK(run') /\ run'.ver = run.ver /\ run'.pc # "clear"
              /\ run'.pc = "apply" => run'.at = 1
          BY <1>0, <3>2, <3>6, NextClusterOK
        <4> QED BY <1>0, <1>3, <2>1, <4>1 DEF TypeOK
      <3> QED BY <3>4, <3>5, <3>6
    <2> QED BY <1>4, <2>2, <2>3 DEF CheckCluster, s
  <1>5. CASE RemoveSecret
    <2> DEFINE q == [run EXCEPT !.pc = "recreate"]
    <2>1. run' = q /\ run.pc = "relabel" /\ UNCHANGED <<crEvent, events, bump, written, faults>>
      BY <1>5 DEF RemoveSecret
    <2>2. q \in RunType /\ q.pc = "recreate" /\ q.ver = run.ver /\ q.at = run.at /\ q.read = run.read
      BY <1>0 DEF RunType
    <2> HIDE DEF q
    <2>3. RunOK(run')
      BY <1>0, <2>1, <2>2 DEF RunOK, SecretAt, s
    <2>4. secret' \in [Secrets -> [data : Nat, labelled : BOOLEAN] \cup {None}]
      BY <1>0, <1>5 DEF RemoveSecret, TypeOK
    <2> QED BY <1>0, <1>3, <2>1, <2>2, <2>3, <2>4 DEF TypeOK
  <1>6. CASE CreateSecret
    <2>1. run.pc = "recreate" /\ run' = NextCluster(run) /\ UNCHANGED <<crEvent, bump, written, faults>>
      BY <1>6 DEF CreateSecret
    <2>2. /\ RunOK(run') /\ run'.ver = run.ver /\ run'.pc # "clear"
          /\ run'.pc = "apply" => run'.at = 1
      BY <1>0, <2>1, NextClusterOK
    <2>3. secret' = [secret EXCEPT ![s] = [data |-> run.read, labelled |-> TRUE]]
      BY <1>6 DEF CreateSecret, s
    <2>4. secret' \in [Secrets -> [data : Nat, labelled : BOOLEAN] \cup {None}]
      BY <1>0, <2>1, <2>3 DEF TypeOK
    <2>5. events' \subseteq Secrets
      BY <1>0, <1>1, <1>6, <2>1 DEF CreateSecret, TypeOK, s
    <2> QED BY <1>3, <2>1, <2>2, <2>4, <2>5
  <1> QED BY <1>4, <1>5, <1>6

\* A template that is applied joins those behind the run.
LEMMA ApplyTemplateInv ==
  ASSUME OperatorInv, ApplyTemplate
  PROVE  OperatorInv'
  <1>0. /\ TypeOK /\ run \in RunType /\ run.ver \in Versions /\ run.at \in 1..4
        /\ run.pc = "apply" /\ run.ver <= cr.ver /\ cr.st # "absent"
        /\ {Order[i] : i \in 1..(run.at - 1)} \subseteq deployed
        /\ run.at > 2 => config = run.ver
        /\ config <= run.ver
    <2>1. TypeOK /\ run.pc = "apply" /\ RunOK(run)
      BY DEF OperatorInv, TypeOK, ApplyTemplate
    <2> QED BY <2>1, OrderIs, Numbers DEF OperatorInv, RunOK, RunInv, Newest
  <1>1. UNCHANGED <<cr, pod, secret, crEvent, events, bump, written, faults>>
    BY DEF ApplyTemplate
  <1>2. /\ run.at = 1 => Order[run.at] = "roles"
        /\ run.at = 2 => Order[run.at] = "config"
        /\ run.at = 3 => Order[run.at] = "sidecars"
        /\ run.at = 4 => Order[run.at] = "driver"
    BY OrderIs
  <1>3. /\ deployed' = deployed \cup {Order[run.at]}
        /\ config' = IF run.at = 2 THEN run.ver ELSE config
        /\ daemon' = IF run.at = 4 THEN [ver |-> run.ver, sums |-> run.sums] ELSE daemon
    BY <1>0, <1>2 DEF ApplyTemplate
  <1>4. \/ run.at < 4 /\ run' = [run EXCEPT !.at = run.at + 1]
        \/ run.at = 4 /\ run' = Idle
    BY <1>0, OrderIs DEF ApplyTemplate
  <1>5. /\ RunOK(run')
        /\ \/ run.at < 4 /\ run'.at = run.at + 1 /\ run'.ver = run.ver /\ run'.pc = "apply"
           \/ run.at = 4 /\ run'.pc = "idle"
    <2>1. CASE run.at < 4
      <3>1. PICK n \in Nat : n = run.at + 1
        BY <1>0
      <3> DEFINE q == [run EXCEPT !.at = n]
      <3>2. run' = q
        BY <1>0, <1>4, <2>1, <3>1
      <3>3. q \in RunType /\ q.at = n /\ q.ver = run.ver /\ q.pc = "apply"
        BY <1>0 DEF RunType
      <3> HIDE DEF q
      <3> QED BY <1>0, <2>1, <3>1, <3>2, <3>3, OrderIs DEF RunOK
    <2>2. CASE run.at = 4
      BY <1>4, <2>2, IdleOK
    <2> QED BY <1>0, <2>1, <2>2
  <1>6. TypeOK'
    <2>1. deployed' \subseteq {"roles", "config", "sidecars", "driver"}
      <3>1. run.at = 1 \/ run.at = 2 \/ run.at = 3 \/ run.at = 4
        BY <1>0
      <3>2. Order[run.at] \in {"roles", "config", "sidecars", "driver"}
        BY <1>2, <3>1
      <3>3. deployed \subseteq {"roles", "config", "sidecars", "driver"}
        BY <1>0 DEF TypeOK
      <3> QED BY <1>3, <3>2, <3>3
    <2>2. [ver |-> run.ver, sums |-> run.sums] \in Templates
      BY <1>0 DEF Templates, RunType
    <2> QED BY <1>0, <1>1, <1>3, <1>5, <2>1, <2>2 DEF TypeOK
  <1>7. /\ run.ver \in Nat /\ config \in Nat /\ cr.ver \in Nat /\ run.at \in Nat
        /\ daemon # None => daemon.ver \in Nat
        /\ \A p \in Nodes : pod[p].tmpl # None => pod[p].tmpl.ver \in Nat
    BY <1>0, Numbers
  <1>8. /\ config <= config' /\ config' <= run.ver /\ (config = 0 \/ config' # 0)
        /\ config' # config => config' = run.ver
        /\ run.at >= 2 => config' = run.ver
        /\ Newest = run.ver /\ run.ver <= Newest'
    BY <1>0, <1>1, <1>3, <1>5, <1>7 DEF Newest
  <1>9. config' <= Newest'
    BY <1>7, <1>8, <1>6, NumbersNext, Numbers, <1>0
  <1>10. RunInv'
    <2>1. ASSUME run.at < 4
          PROVE  {Order[i] : i \in 1..(run'.at - 1)} \subseteq deployed'
      <3>1. \A i \in 1..(run'.at - 1) : i \in 1..(run.at - 1) \/ i = run.at
        BY <1>0, <1>5, <2>1
      <3> QED BY <1>0, <1>3, <3>1
    <2> QED BY <1>0, <1>1, <1>5, <1>8, <2>1 DEF RunInv
  <1>11. DaemonHasItsConfig'
    <2>1. CASE run.at = 4
      <3>1. {"roles", "config", "sidecars", "driver"} \subseteq deployed'
        <4>1. 1 \in 1..(run.at - 1) /\ 2 \in 1..(run.at - 1) /\ 3 \in 1..(run.at - 1)
          BY <2>1
        <4> QED BY <1>0, <1>2, <1>3, <2>1, <4>1, OrderIs
      <3>2. daemon'.ver = run.ver /\ config' = run.ver
        BY <1>3, <1>8, <2>1
      <3>3. deployed' \subseteq {"roles", "config", "sidecars", "driver"}
        BY <1>6 DEF TypeOK
      <3>4. deployed' = {"roles", "config", "sidecars", "driver"}
        BY <3>1, <3>3
      <3> QED BY <1>7, <3>2, <3>4 DEF DaemonHasItsConfig
    <2>2. CASE run.at # 4
      BY <1>2, <1>3, <1>6, <1>7, <1>8, <1>0, <2>2 DEF DaemonHasItsConfig, OperatorInv, TypeOK
    <2> QED BY <2>1, <2>2
  <1>12. NothingLeft'
    BY <1>0, <1>1 DEF NothingLeft
  <1>13. ASSUME NEW p \in Nodes
         PROVE  PodInv(p)'
    <2>1. PodInv(p)
      BY DEF OperatorInv
    <2>2. pod[p].tmpl # None => pod[p].tmpl.ver <= run.ver /\ pod[p].tmpl.ver <= Newest'
      BY <1>7, <1>8, <2>1, <1>6, NumbersNext DEF PodInv
    <2> QED BY <1>1, <1>7, <1>8, <2>1, <2>2 DEF PodInv
  <1> QED BY <1>6, <1>9, <1>10, <1>11, <1>12, <1>13 DEF OperatorInv

\* A template that is cleared was the next in reverse order.
LEMMA ClearTemplateInv ==
  ASSUME OperatorInv, ClearTemplate
  PROVE  OperatorInv'
  <1>0. /\ TypeOK /\ run \in RunType /\ run.ver \in Versions /\ run.at \in 1..4
        /\ run.pc = "clear" /\ run.ver <= cr.ver /\ cr.st = "deleting"
        /\ deployed \subseteq {Order[i] : i \in 1..run.at}
        /\ run.at < 4 => daemon = None
        /\ run.at < 2 => config = 0
    <2>1. TypeOK /\ run.pc = "clear" /\ RunOK(run)
      BY DEF OperatorInv, TypeOK, ClearTemplate
    <2> QED BY <2>1, OrderIs, Numbers DEF OperatorInv, RunOK, RunInv
  <1>1. UNCHANGED <<pod, secret, crEvent, events, bump, written, faults>>
    BY DEF ClearTemplate
  <1>2. /\ run.at = 1 => Order[run.at] = "roles"
        /\ run.at = 2 => Order[run.at] = "config"
        /\ run.at = 3 => Order[run.at] = "sidecars"
        /\ run.at = 4 => Order[run.at] = "driver"
    BY OrderIs
  <1>3. /\ deployed' = deployed \ {Order[run.at]}
        /\ config' = IF run.at = 2 THEN 0 ELSE config
        /\ daemon' = None
    BY <1>0, <1>2 DEF ClearTemplate
  <1>4. /\ run.at = 1 => run' = Idle /\ cr' = [cr EXCEPT !.st = "absent", !.trigger = 0]
        /\ run.at # 1 => run' = [run EXCEPT !.at = run.at - 1] /\ cr' = cr
    BY DEF ClearTemplate, Released
  <1>5. /\ RunOK(run')
        /\ run.at # 1 => run'.at = run.at - 1 /\ run'.ver = run.ver /\ run'.pc = "clear"
        /\ run.at = 1 => run'.pc = "idle"
    <2>1. CASE run.at # 1
      <3>1. PICK n \in Nat : n = run.at - 1 /\ n # 0 /\ n < 4
        BY <1>0, <2>1
      <3> DEFINE q == [run EXCEPT !.at = n]
      <3>2. run' = q
        BY <1>4, <2>1, <3>1
      <3>3. q \in RunType /\ q.at = n /\ q.ver = run.ver /\ q.pc = "clear"
        BY <1>0 DEF RunType
      <3> HIDE DEF q
      <3> QED BY <1>0, <2>1, <3>1, <3>2, <3>3, OrderIs DEF RunOK
    <2>2. CASE run.at = 1
      BY <1>4, <2>2, IdleOK
    <2> QED BY <2>1, <2>2
  <1>6. /\ cr' \in [st : {"absent", "present", "deleting"}, ver : Versions \cup {0},
                    trigger : 0..(Triggers - 1)]
        /\ cr'.ver = cr.ver /\ (cr'.st = IF run.at = 1 THEN "absent" ELSE "deleting")
    <2>1. cr \in [st : {"absent", "present", "deleting"}, ver : Versions \cup {0},
                  trigger : 0..(Triggers - 1)]
      BY <1>0 DEF TypeOK
    <2>2. 0 \in 0..(Triggers - 1)
      BY BoundsAssumption
    <2>3. CASE run.at = 1
      BY <1>4, <2>1, <2>2, <2>3
    <2>4. CASE run.at # 1
      BY <1>0, <1>4, <2>1, <2>4
    <2> QED BY <2>3, <2>4
  <1>7. TypeOK'
    <2>1. deployed' \subseteq {"roles", "config", "sidecars", "driver"} /\ config' \in Versions \cup {0}
      BY <1>0, <1>3 DEF TypeOK
    <2> QED BY <1>0, <1>1, <1>3, <1>5, <1>6, <2>1 DEF TypeOK
  <1>8. /\ run.ver \in Nat /\ config \in Nat /\ cr.ver \in Nat
        /\ \A p \in Nodes : pod[p].tmpl # None => pod[p].tmpl.ver \in Nat
        /\ config' \in {config, 0} /\ Newest = run.ver /\ Newest <= Newest' /\ Newest' \in Nat
    BY <1>0, <1>3, <1>5, <1>6, <1>7, Numbers, NumbersNext DEF Newest
  <1>9. config' <= Newest'
    BY <1>8 DEF OperatorInv
  <1>10. deployed' \subseteq {Order[i] : i \in 1..(run.at - 1)}
    <2>1. \A i \in 1..run.at : i \in 1..(run.at - 1) \/ i = run.at
      BY <1>0
    <2> QED BY <1>0, <1>3, <2>1
  <1>11. RunInv'
    <2>1. run.at = 2 => config' = 0
      BY <1>3
    <2>2. run.at # 1 /\ run.at - 1 < 2 => run.at = 2
      BY <1>0
    <2> QED BY <1>0, <1>3, <1>5, <1>6, <1>10, <2>1, <2>2 DEF RunInv
  <1>12. DaemonHasItsConfig'
    BY <1>3 DEF DaemonHasItsConfig
  <1>13. NothingLeft'
    <2>1. run.at = 1 => deployed' = {} /\ config' = 0
      BY <1>0, <1>3, <1>10
    <2> QED BY <1>3, <1>6, <2>1 DEF NothingLeft
  <1>14. ASSUME NEW p \in Nodes
         PROVE  PodInv(p)'
    <2>1. PodInv(p)
      BY DEF OperatorInv
    <2> QED BY <1>1, <1>8, <2>1 DEF PodInv
  <1> QED BY <1>7, <1>9, <1>11, <1>12, <1>13, <1>14 DEF OperatorInv

\* The watch of secrets changes the trigger and nothing deployed.
LEMMA WatchInv ==
  ASSUME OperatorInv, DropEvent \/ \E s \in Secrets : Watch(s)
  PROVE  OperatorInv'
  <1>0. TypeOK
    BY DEF OperatorInv
  <1>1. CASE DropEvent
    <2>1. TypeOK'
      BY <1>0, <1>1 DEF DropEvent, TypeOK, clusterVars
    <2> QED BY <1>0, <1>1, <2>1, Numbers, ResourceFrame DEF DropEvent, clusterVars
  <1>2. ASSUME NEW s \in Secrets, StartWatch(s)
        PROVE  OperatorInv'
    <2>1. cr.trigger \in 0..(Triggers - 1)
      BY <1>0 DEF TypeOK
    <2>2. bump' \in [Secrets -> 0..(Triggers - 1) \cup {None}] /\ events' \subseteq Secrets
      BY <1>0, <1>2, <2>1 DEF StartWatch, TypeOK
    <2>3. TypeOK'
      BY <1>0, <1>2, <2>2 DEF StartWatch, TypeOK, clusterVars
    <2> QED BY <1>0, <1>2, <2>3, Numbers, ResourceFrame
            DEF StartWatch, clusterVars, OperatorInv, RunInv
  <1>3. ASSUME NEW s \in Secrets, BumpTrigger(s)
        PROVE  OperatorInv'
    <2> DEFINE next == (bump[s] + 1) % Triggers
    <2>1. next \in 0..(Triggers - 1)
      <3>1. bump[s] \in 0..(Triggers - 1)
        BY <1>0, <1>3 DEF BumpTrigger, TypeOK
      <3> QED BY <3>1, BoundsAssumption
    <2>2. bump' \in [Secrets -> 0..(Triggers - 1) \cup {None}]
      BY <1>0, <1>3 DEF BumpTrigger, TypeOK
    <2>3. \/ UNCHANGED <<cr, crEvent>>
          \/ cr' = [cr EXCEPT !.trigger = next] /\ crEvent' = TRUE
      BY <1>3 DEF BumpTrigger
    <2> HIDE DEF next
    <2>4. /\ cr' \in [st : {"absent", "present", "deleting"}, ver : Versions \cup {0},
                      trigger : 0..(Triggers - 1)]
          /\ cr'.st = cr.st /\ cr'.ver = cr.ver /\ crEvent' \in BOOLEAN
      BY <1>0, <2>1, <2>3 DEF TypeOK
    <2>5. TypeOK'
      BY <1>0, <1>3, <2>2, <2>4 DEF BumpTrigger, TypeOK, clusterVars
    <2> QED BY <1>0, <1>3, <2>4, <2>5, Numbers, ResourceFrame
            DEF BumpTrigger, clusterVars, OperatorInv, RunInv
  <1> QED BY <1>1, <1>2, <1>3 DEF Watch

\* A run that fails leaves what it has applied, and an event to begin again.
LEMMA FailureInv ==
  ASSUME OperatorInv, RunFails \/ OperatorRestarts
  PROVE  OperatorInv'
  <1>0. TypeOK /\ run' = Idle /\ UNCHANGED <<cr, clusterVars, pod, written>>
    BY DEF OperatorInv, RunFails, OperatorRestarts
  <1>1. /\ crEvent' = TRUE /\ events' \subseteq Secrets /\ faults' \in 0..MaxFaults
        /\ bump' \in [Secrets -> 0..(Triggers - 1) \cup {None}]
    BY <1>0, BoundsAssumption DEF RunFails, OperatorRestarts, Fault, TypeOK
  <1>2. TypeOK'
    BY <1>0, <1>1, IdleOK DEF TypeOK, clusterVars
  <1>3. Newest <= Newest'
    BY <1>0, IdleOK, Numbers DEF Newest, OperatorInv, RunInv
  <1> QED BY <1>0, <1>2, <1>3, IdleOK, RunFrame DEF clusterVars

\* A run that could not read a secret leaves what there is.
LEMMA SecretUnreadInv ==
  ASSUME OperatorInv, SecretUnread
  PROVE  OperatorInv'
  <1>0. /\ TypeOK /\ run' = [Idle EXCEPT !.unread = TRUE]
        /\ UNCHANGED <<cr, clusterVars, crEvent, events, bump, pod, written>>
    BY DEF OperatorInv, SecretUnread
  <1>1. RunOK(run') /\ run'.pc = "idle"
    BY <1>0 DEF RunOK, RunType, Idle
  <1>2. faults' \in 0..MaxFaults
    <2>1. faults \in 0..MaxFaults /\ faults < MaxFaults /\ faults' = faults + 1
      BY DEF SecretUnread, Fault, OperatorInv, TypeOK
    <2> QED BY <2>1, BoundsAssumption
  <1>3. TypeOK'
    BY <1>0, <1>1, <1>2 DEF TypeOK, clusterVars
  <1>4. Newest <= Newest'
    BY <1>0, <1>1, Numbers DEF Newest, OperatorInv, RunInv
  <1> QED BY <1>0, <1>1, <1>3, <1>4, RunFrame DEF clusterVars

\* A driver that starts has read the ConfigMap there is, which is no older than its template.
LEMMA PodStepInv ==
  ASSUME OperatorInv, NEW n \in Nodes, Pod(n) \/ DriverDies(n)
  PROVE  OperatorInv'
  <1>0. TypeOK /\ UNCHANGED <<cr, clusterVars, operatorVars, written>>
    BY DEF OperatorInv, Pod, ReplacePod, StartDriver, DriverDies
  <1> DEFINE P == [st : {"none", "starting", "running"}, tmpl : Templates \cup {None},
                   ver : Versions \cup {0}, data : [Secrets -> Nat]]
  <1>1. pod \in [Nodes -> P]
    BY <1>0 DEF TypeOK
  <1>2. ASSUME NEW q \in P, pod' = [pod EXCEPT ![n] = q], faults' \in 0..MaxFaults,
               q.st # "none" => q.tmpl # None, q.st = "running" => q.ver # 0,
               q.tmpl # None => /\ q.tmpl.ver <= Newest
                                /\ config # 0 => config >= q.tmpl.ver,
               q.st = "running" => q.ver >= q.tmpl.ver /\ Valid(Conf(q.ver))
        PROVE  OperatorInv'
    <2> HIDE DEF P
    <2>1. pod' \in [Nodes -> P] /\ pod'[n] = q /\ \A p \in Nodes : p # n => pod'[p] = pod[p]
      BY <1>1, <1>2
    <2>2. TypeOK'
      BY <1>0, <1>2, <2>1 DEF TypeOK, clusterVars, operatorVars, P
    <2>3. \A p \in Nodes : PodInv(p)'
      BY <1>0, <1>2, <2>1 DEF OperatorInv, PodInv, Newest, clusterVars, operatorVars
    <2> QED BY <1>0, <2>2, <2>3, PodFrame DEF clusterVars, operatorVars
  <1>3. PodInv(n) /\ pod[n] \in P /\ (pod[n].st # "none" => pod[n].tmpl # None)
    BY <1>0, <1>1 DEF OperatorInv, TypeOK
  <1>4. CASE ReplacePod(n)
    <2>1. NoPod \in P /\ NoPod.st = "none" /\ NoPod.tmpl = None
      BY DEF NoPod
    <2>2. faults' \in 0..MaxFaults
      BY <1>0, <1>4 DEF ReplacePod, TypeOK
    <2>3. CASE daemon = None
      <3>1. pod' = [pod EXCEPT ![n] = NoPod]
        BY <1>4, <2>3 DEF ReplacePod
      <3> QED BY <1>2, <2>1, <2>2, <3>1
    <2>4. CASE daemon # None
      <3> DEFINE q == [NoPod EXCEPT !.st = "starting", !.tmpl = daemon]
      <3>1. daemon \in Templates
        BY <1>0, <2>4 DEF TypeOK
      <3>2. q \in P /\ q.st = "starting" /\ q.tmpl = daemon
        BY <3>1 DEF NoPod
      <3>3. pod' = [pod EXCEPT ![n] = q]
        BY <1>4, <2>4 DEF ReplacePod
      <3>4. daemon.ver <= config /\ config <= Newest
        BY <2>4 DEF OperatorInv, DaemonHasItsConfig
      <3>5. daemon.ver <= Newest
        BY <1>0, <2>4, <3>4, Numbers
      <3> HIDE DEF q, P
      <3> QED BY <1>2, <2>2, <2>4, <3>2, <3>3, <3>4, <3>5
    <2> QED BY <2>3, <2>4
  <1>5. CASE StartDriver(n)
    <2> DEFINE d == [s \in Secrets |-> IF s \in MountedIn(n) THEN secret[s].data ELSE 0]
               q == [pod[n] EXCEPT !.st = "running", !.ver = config, !.data = d]
    <2>1. /\ pod[n].st = "starting" /\ config # 0 /\ pod' = [pod EXCEPT ![n] = q]
          /\ faults' \in 0..MaxFaults
      BY <1>0, <1>5 DEF StartDriver, TypeOK
    <2>2. d \in [Secrets -> Nat]
      BY <1>0, <1>5 DEF StartDriver, TypeOK
    <2> HIDE DEF d
    <2>3. config \in Versions
      BY <1>0, <2>1 DEF TypeOK
    <2>4. q \in P /\ q.st = "running" /\ q.ver = config /\ q.tmpl = pod[n].tmpl
      BY <1>3, <2>2, <2>3
    <2>5. Valid(Conf(config))
      BY <1>5 DEF StartDriver, Loaded, LoadScaleConfigSettings, Valid
    <2>6. pod[n].tmpl # None /\ config >= pod[n].tmpl.ver /\ pod[n].tmpl.ver <= Newest
      BY <1>3, <2>1 DEF PodInv
    <2> HIDE DEF q, P
    <2> QED BY <1>2, <2>1, <2>4, <2>5, <2>6
  <1>6. CASE DriverDies(n)
    <2> DEFINE q == [pod[n] EXCEPT !.st = "starting"]
    <2>1. pod[n].st = "running" /\ pod' = [pod EXCEPT ![n] = q] /\ faults' \in 0..MaxFaults
      BY <1>0, <1>6, BoundsAssumption DEF DriverDies, Fault, TypeOK
    <2>2. q \in P /\ q.st = "starting" /\ q.tmpl = pod[n].tmpl
      BY <1>3
    <2> HIDE DEF q, P
    <2> QED BY <1>2, <1>3, <2>1, <2>2 DEF PodInv
  <1> QED BY <1>4, <1>5, <1>6 DEF Pod

----------------------------------------------------------------------------
(* The invariant and what follows from it.                                 *)

\* Nothing is deployed at the beginning.
LEMMA InitInv == Init => OperatorInv
  <1> SUFFICES ASSUME Init PROVE OperatorInv
    OBVIOUS
  <1>1. run = Idle /\ run.pc = "idle" /\ RunOK(run)
    BY IdleOK DEF Init
  <1>2. /\ cr = [st |-> "absent", ver |-> 0, trigger |-> 0]
        /\ deployed = {} /\ config = 0 /\ daemon = None /\ faults = 0 /\ crEvent = FALSE
        /\ bump = [s \in Secrets |-> None]
    BY DEF Init
  <1>3. 0 \in 0..(Triggers - 1) /\ 0 \in 0..MaxFaults
    BY BoundsAssumption
  <1>4. \A p \in Nodes : pod[p] = NoPod
    BY DEF Init
  <1>5. NoPod \in [st : {"none", "starting", "running"}, tmpl : Templates \cup {None},
                   ver : Versions \cup {0}, data : [Secrets -> Nat]]
    BY DEF NoPod
  <1>6. NoPod.st = "none" /\ NoPod.tmpl = None
    BY DEF NoPod
  <1>7. /\ secret \in [Secrets -> [data : Nat, labelled : BOOLEAN] \cup {None}]
        /\ events \subseteq Secrets /\ written \in [Secrets -> Nat]
        /\ \A s \in Secrets : written[s] <= MaxWrites[s]
    BY BoundsAssumption DEF Init
  <1>8. pod \in [Nodes -> [st : {"none", "starting", "running"}, tmpl : Templates \cup {None},
                          ver : Versions \cup {0}, data : [Secrets -> Nat]]]
    BY <1>5 DEF Init
  <1>9. TypeOK
    BY <1>1, <1>2, <1>3, <1>4, <1>6, <1>7, <1>8 DEF TypeOK
  <1>10. \A p \in Nodes : PodInv(p)
    BY <1>4, <1>6 DEF PodInv
  <1> QED BY <1>1, <1>2, <1>9, <1>10
          DEF OperatorInv, RunInv, Newest, DaemonHasItsConfig, NothingLeft

\* Every step keeps the invariant.
LEMMA NextInv == OperatorInv /\ [Next]_vars => OperatorInv'
  <1> SUFFICES ASSUME OperatorInv, [Next]_vars PROVE OperatorInv'
    OBVIOUS
  <1>1. CASE User
    BY <1>1, UserInv
  <1>2. CASE Reconcile
    BY <1>2, StartRunInv, CheckInv, ApplyTemplateInv, ClearTemplateInv, WatchInv DEF Reconcile
  <1>3. CASE RunFails \/ OperatorRestarts \/ SecretUnread
    BY <1>3, FailureInv, SecretUnreadInv
  <1>4. CASE \E s \in Secrets : Watch(s)
    BY <1>4, WatchInv
  <1>5. CASE \E p \in Nodes : Pod(p) \/ DriverDies(p)
    BY <1>5, PodStepInv
  <1>6. CASE UNCHANGED vars
    <2>1. UNCHANGED <<cr, crEvent, secret, events, run, bump, deployed, config, daemon, pod,
                      written, faults>>
      BY <1>6 DEF vars, clusterVars, operatorVars
    <2>2. TypeOK'
      BY <2>1 DEF OperatorInv, TypeOK
    <2> QED BY <2>1, <2>2 DEF OperatorInv, RunInv, PodInv, Newest, DaemonHasItsConfig, NothingLeft
  <1> QED BY <1>1, <1>2, <1>3, <1>4, <1>5, <1>6 DEF Next

\* The invariant: what a run has applied or cleared so far, that the ConfigMap
\* is never behind a template that a pod was made of, and that what a driver
\* serves with was validated (main.yml:95-102, gpfs.go:413-485).
THEOREM OperatorInvariant == Spec => []OperatorInv
  BY InitInv, NextInv, PTL DEF Spec

\* Every variable has its type (main.yml, csi-plugin.yaml.j2).
THEOREM TypeCorrect == Spec => []TypeOK
  <1>1. OperatorInv => TypeOK
    BY DEF OperatorInv
  <1> QED BY <1>1, OperatorInvariant, PTL

\* Whatever run died between which templates, in either order, a DaemonSet has
\* what its pods need, in a version at least as new (main.yml:95-102).
THEOREM DaemonHasItsConfigHolds == Spec => []DaemonHasItsConfig
  <1>1. OperatorInv => DaemonHasItsConfig
    BY DEF OperatorInv
  <1> QED BY <1>1, OperatorInvariant, PTL

\* Nothing is left of a resource that is gone, whatever went wrong meanwhile
\* (main.yml:95-102, watches.yaml:7-10).
THEOREM NothingLeftHolds == Spec => []NothingLeft
  <1>1. OperatorInv => NothingLeft
    BY DEF OperatorInv
  <1> QED BY <1>1, OperatorInvariant, PTL

\* No driver serves with a configuration older than the one its template
\* stands for (csi-plugin.yaml.j2:79-88).
THEOREM NoPodBehindHolds == Spec => []NoPodBehind
  <1>1. OperatorInv => NoPodBehind
    BY DEF OperatorInv, PodInv, NoPodBehind
  <1> QED BY <1>1, OperatorInvariant, PTL

\* A driver that serves has every connector it uses unseen (gpfs.go:245-255,
\* 413-485).
THEOREM ServingHasConnectorsHolds == Spec => []ServingHasConnectors
  <1>1. OperatorInv => ServingHasConnectors
    BY ValidHasConnectors DEF OperatorInv, PodInv, ServingHasConnectors
  <1> QED BY <1>1, OperatorInvariant, PTL

----------------------------------------------------------------------------
(* The promise that the operator implements: Rollout.                      *)

Refines == [Deployment!Next]_(Deployment!vars)

\* Pods that stay as they are expect and serve what they did.
LEMMA SamePods ==
  ASSUME UNCHANGED pod
  PROVE  Expected' = Expected /\ Serving' = Serving
  BY DEF Expected, Serving, TemplateVersion, ServedVersion

\* A step that applies and clears nothing, changes no pod and leaves the state
\* of the resource, may at most take up a later version.
LEMMA AsideRefines ==
  ASSUME UNCHANGED <<cr.st, config, daemon, pod>>,
         Newest' = Newest \/ (cr.st # "absent" /\ Newest' \in Versions /\ Newest' > Newest)
  PROVE  Refines
<1>1. Expected' = Expected /\ Serving' = Serving
      /\ TemplateVersion(daemon)' = TemplateVersion(daemon)
  BY SamePods DEF TemplateVersion
<1>2. CASE Newest' = Newest
  BY <1>1, <1>2 DEF Refines, Deployment!vars, Deployment!centre, Deployment!nodes
<1>3. CASE cr.st # "absent" /\ Newest' \in Versions /\ Newest' > Newest
  <2>1. Deployment!Retarget
    BY <1>1, <1>3 DEF Deployment!Retarget, Deployment!Onward, Deployment!centre,
                      Deployment!nodes
  <2> QED
    BY <2>1 DEF Refines, Deployment!Next
<1> QED
  BY <1>2, <1>3

\* A run that ends leaves the resource's own version the newest.
LEMMA EndOnward ==
  ASSUME OperatorInv, run'.pc = "idle", cr'.ver = cr.ver
  PROVE  /\ Newest' = Newest \/ (Newest' \in Versions /\ Newest' > Newest)
         /\ cr.st = "absent" => Newest' = Newest
<1>1. CASE run.pc = "idle"
  BY <1>1 DEF Newest
<1>2. CASE run.pc # "idle"
  <2>1. /\ run.ver <= cr.ver /\ cr.st # "absent"
        /\ cr.ver \in Versions
        /\ cr.ver \in Nat /\ run.ver \in Nat
    BY <1>2, Numbers DEF OperatorInv, RunInv, TypeOK
  <2> QED
    BY <1>2, <2>1 DEF Newest
<1> QED
  BY <1>1, <1>2

\* Users write and delete the resource; its secrets are none of its state.
LEMMA UserRefines ==
  ASSUME OperatorInv, User
  PROVE  Refines
<1>0. TypeOK
  BY DEF OperatorInv
<1>1. ASSUME NEW n \in Versions, WriteResource(n)
      PROVE  Refines
  <2>1. /\ cr.st \in {"absent", "present"} /\ n > cr.ver
        /\ cr'.st = "present" /\ cr'.ver = n
        /\ UNCHANGED <<config, daemon, run, pod>>
    BY <1>0, <1>1 DEF WriteResource, clusterVars, TypeOK
  <2>2. \/ run.pc # "idle" /\ cr.st # "absent" /\ Newest' = Newest
        \/ run.pc = "idle" /\ Newest = cr.ver /\ Newest' = n
    BY <2>1 DEF OperatorInv, RunInv, Newest
  <2>3. n \in Nat /\ cr.ver \in Nat
    BY <1>0, ConfTypes, Numbers
  <2>4. Expected' = Expected /\ Serving' = Serving
        /\ TemplateVersion(daemon)' = TemplateVersion(daemon)
    BY <2>1, SamePods DEF TemplateVersion
  <2>5. Deployment!Write
    BY <2>1, <2>2, <2>3, <2>4 DEF Deployment!Write, Deployment!Onward,
                                  Deployment!centre, Deployment!nodes
  <2> QED
    BY <2>5 DEF Refines, Deployment!Next
<1>2. CASE DeleteResource
  <2>1. /\ cr.st = "present" /\ cr'.st = "deleting" /\ cr'.ver = cr.ver
        /\ UNCHANGED <<config, daemon, run, pod>>
    BY <1>0, <1>2 DEF DeleteResource, clusterVars, TypeOK
  <2>2. Expected' = Expected /\ Serving' = Serving /\ Newest' = Newest
        /\ TemplateVersion(daemon)' = TemplateVersion(daemon)
    BY <2>1, SamePods DEF TemplateVersion, Newest
  <2>3. Deployment!Retire
    BY <2>1, <2>2 DEF Deployment!Retire, Deployment!centre, Deployment!nodes
  <2> QED
    BY <2>3 DEF Refines, Deployment!Next
<1>3. ASSUME NEW s \in Secrets, UserDeletesSecret(s) \/ UserAppliesSecret(s)
      PROVE  Refines
  <2>1. UNCHANGED <<cr, run, config, daemon, pod>>
    BY <1>3 DEF UserDeletesSecret, UserAppliesSecret, operatorVars
  <2>2. Newest' = Newest
    BY <2>1 DEF Newest
  <2> QED
    BY <2>1, <2>2, AsideRefines
<1> QED
  BY <1>1, <1>2, <1>3 DEF User

\* A run that begins, looks at a secret, labels it, ends early or fails.
LEMMA RunRefines ==
  ASSUME OperatorInv,
         \/ StartRun \/ CheckCluster \/ RemoveSecret \/ CreateSecret \/ DropEvent
         \/ SecretUnread \/ RunFails \/ OperatorRestarts
  PROVE  Refines
<1>0. TypeOK /\ UNCHANGED <<cr, config, daemon, pod>>
  BY DEF OperatorInv, StartRun, CheckCluster, RemoveSecret, CreateSecret, DropEvent,
         SecretUnread, RunFails, OperatorRestarts, clusterVars
<1>1. \/ run'.pc = "idle"
      \/ Newest' = Newest
  <2>1. CASE StartRun
    <3> DEFINE r == [Idle EXCEPT !.ver = cr.ver]
    <3>1. r \in RunType /\ r.ver = cr.ver /\ cr.ver \in Versions
      BY <1>0, <2>1 DEF Idle, RunType, StartRun, TypeOK
    <3>2. CASE cr.st = "present"
      <4>1. run' = NextCluster(r)
        BY <2>1, <3>2 DEF StartRun
      <4> HIDE DEF r
      <4> QED
        BY <1>0, <2>1, <3>1, <4>1, NextClusterOK DEF StartRun, Newest
    <3>3. CASE cr.st # "present"
      BY <1>0, <2>1, <3>3 DEF StartRun, Newest, Idle
    <3> QED
      BY <3>2, <3>3
  <2>2. CASE CheckCluster \/ RemoveSecret \/ CreateSecret
    <3>1. run \in RunType /\ run.ver \in Versions /\ run.pc # "idle"
      BY <1>0, <2>2 DEF TypeOK, RunOK, CheckCluster, RemoveSecret, CreateSecret
    <3>2. run'.ver = run.ver \/ run'.pc = "idle"
      <4>1. CASE CheckCluster
        <5> DEFINE s == SecretAt(run)
                   r == [run EXCEPT !.sums[s] = secret[s].data, !.read = secret[s].data]
        <5>1. CASE run' = Idle
          BY <5>1, IdleOK
        <5>2. CASE s # "" /\ secret[s] # None
          <6>1. s \in Secrets /\ secret[s].data \in Nat
            <7>1. run.at \in 1..Len(Conf(run.ver))
              <8>1. run.pc = "check" /\ RunOK(run)
                BY <1>0, <4>1 DEF TypeOK, CheckCluster
              <8>2. run.at \in Nat /\ run.at # 0 /\ run.at <= Len(Conf(run.ver))
                BY <1>0, <8>1, Numbers DEF RunOK
              <8> QED
                BY <3>1, <8>2, ConfTypes
            <7>2. s \in Secrets
              BY <3>1, <5>2, <7>1, SecretNamed DEF SecretAt
            <7> QED
              BY <1>0, <5>2, <7>2 DEF TypeOK
          <6>2. r \in RunType /\ r.ver = run.ver
            BY <3>1, <6>1 DEF RunType
          <6>3. run' = [r EXCEPT !.pc = "relabel"] \/ run' = NextCluster(r)
            BY <4>1, <5>2 DEF CheckCluster
          <6> HIDE DEF r, s
          <6>4. [r EXCEPT !.pc = "relabel"].ver = run.ver
            BY <6>2 DEF RunType
          <6> QED
            BY <3>1, <6>2, <6>3, <6>4, NextClusterOK
        <5> QED
          BY <4>1, <5>1, <5>2 DEF CheckCluster
      <4>2. CASE RemoveSecret
        BY <3>1, <4>2 DEF RemoveSecret, RunType
      <4>3. CASE CreateSecret
        BY <3>1, <4>3, NextClusterOK DEF CreateSecret
      <4> QED
        BY <2>2, <4>1, <4>2, <4>3
    <3> QED
      BY <3>1, <3>2 DEF Newest
  <2>3. CASE DropEvent
    BY <2>3 DEF DropEvent, Newest
  <2>4. CASE RunFails \/ OperatorRestarts
    BY <2>4, IdleOK DEF RunFails, OperatorRestarts
  <2>5. CASE SecretUnread
    BY <2>5 DEF SecretUnread, Idle
  <2> QED
    BY <2>1, <2>2, <2>3, <2>4, <2>5
<1>2. CASE run'.pc = "idle"
  BY <1>0, <1>2, EndOnward, AsideRefines
<1>3. CASE Newest' = Newest
  BY <1>0, <1>3, AsideRefines
<1> QED
  BY <1>1, <1>2, <1>3

\* The templates of the ConfigMap and of the DaemonSet publish a version and
\* roll it out; the other two are none of the promise.
LEMMA ApplyRefines ==
  ASSUME OperatorInv, ApplyTemplate
  PROVE  Refines
<1>0. /\ TypeOK /\ run \in RunType /\ run.at \in 1..4 /\ run.pc = "apply"
      /\ cr.st # "absent"
      /\ run.at > 2 => config = run.ver
  <2>1. TypeOK /\ run.pc = "apply" /\ RunOK(run)
    BY DEF OperatorInv, TypeOK, ApplyTemplate
  <2> QED
    BY <2>1, OrderIs, Numbers DEF OperatorInv, RunOK, RunInv
<1>1. /\ UNCHANGED <<cr, pod>>
      /\ config' = IF run.at = 2 THEN run.ver ELSE config
      /\ daemon' = IF run.at = 4 THEN [ver |-> run.ver, sums |-> run.sums] ELSE daemon
      /\ run' = IF run.at < 4 THEN [run EXCEPT !.at = run.at + 1] ELSE Idle
  BY <1>0, OrderIs DEF ApplyTemplate
<1>2. Newest = run.ver /\ (run.at < 4 => Newest' = run.ver)
  BY <1>0, <1>1 DEF Newest, RunType
<1>3. Expected' = Expected /\ Serving' = Serving
  BY <1>1, SamePods
<1>4. CASE run.at \in {1, 3}
  BY <1>1, <1>2, <1>4, AsideRefines
<1>5. CASE run.at = 2
  <2>1. config' = Newest /\ daemon' = daemon /\ Newest' = Newest
        /\ TemplateVersion(daemon)' = TemplateVersion(daemon)
    BY <1>1, <1>2, <1>5 DEF TemplateVersion
  <2>2. Deployment!Publish
    BY <1>0, <1>1, <1>3, <2>1 DEF Deployment!Publish, Deployment!nodes
  <2> QED
    BY <2>2 DEF Refines, Deployment!Next
<1>6. CASE run.at = 4
  <2>1. /\ config = Newest /\ config' = config /\ run'.pc = "idle"
        /\ TemplateVersion(daemon)' = Newest
    <3>1. daemon' = [ver |-> run.ver, sums |-> run.sums]
      BY <1>1, <1>6
    <3>2. daemon' # None
      BY <1>0, <3>1, NoneAssumption DEF TypeOK, RunOK, RunType
    <3> QED
      BY <1>0, <1>1, <1>2, <1>6, <3>1, <3>2, IdleOK DEF TemplateVersion
  <2>2. Newest' = Newest \/ (Newest' \in Versions /\ Newest' > Newest)
    BY <1>1, <2>1, EndOnward
  <2>3. Deployment!Roll
    BY <1>0, <1>1, <1>3, <2>1, <2>2 DEF Deployment!Roll, Deployment!Onward,
                                        Deployment!nodes
  <2> QED
    BY <2>3 DEF Refines, Deployment!Next
<1> QED
  BY <1>0, <1>4, <1>5, <1>6

\* In the reverse order they are withdrawn, and at last the resource goes.
LEMMA ClearRefines ==
  ASSUME OperatorInv, ClearTemplate
  PROVE  Refines
<1>0. /\ TypeOK /\ run \in RunType /\ run.at \in 1..4 /\ run.pc = "clear"
      /\ cr.st = "deleting"
      /\ run.at < 4 => daemon = None
      /\ run.at < 2 => config = 0
  <2>1. TypeOK /\ run.pc = "clear" /\ RunOK(run)
    BY DEF OperatorInv, TypeOK, ClearTemplate
  <2> QED
    BY <2>1, OrderIs, Numbers DEF OperatorInv, RunOK, RunInv
<1>1. /\ UNCHANGED pod
      /\ config' = IF run.at = 2 THEN 0 ELSE config
      /\ daemon' = IF run.at = 4 THEN None ELSE daemon
      /\ run' = IF run.at = 1 THEN Idle ELSE [run EXCEPT !.at = run.at - 1]
      /\ cr' = IF run.at = 1 THEN [cr EXCEPT !.st = "absent", !.trigger = 0] ELSE cr
  BY <1>0, OrderIs DEF ClearTemplate, Released
<1>2. run.at > 1 => Newest' = Newest /\ cr'.st = cr.st
  BY <1>0, <1>1 DEF Newest, RunType
<1>3. Expected' = Expected /\ Serving' = Serving
  BY <1>1, SamePods
<1>4. CASE run.at = 3
  BY <1>1, <1>2, <1>4, AsideRefines
<1>5. CASE run.at = 4
  <2>1. TemplateVersion(daemon)' = 0 /\ config' = config /\ Newest' = Newest
        /\ cr'.st = cr.st
    BY <1>1, <1>2, <1>5 DEF TemplateVersion
  <2>2. Deployment!Withdraw
    BY <1>0, <1>3, <2>1 DEF Deployment!Withdraw, Deployment!nodes
  <2> QED
    BY <2>2 DEF Refines, Deployment!Next
<1>6. CASE run.at = 2
  <2>1. /\ TemplateVersion(daemon) = 0 /\ TemplateVersion(daemon)' = 0
        /\ config' = 0 /\ Newest' = Newest /\ cr'.st = cr.st
    BY <1>0, <1>1, <1>2, <1>6 DEF TemplateVersion
  <2>2. Deployment!Unpublish
    BY <1>0, <1>3, <2>1 DEF Deployment!Unpublish, Deployment!nodes
  <2> QED
    BY <2>2 DEF Refines, Deployment!Next
<1>7. CASE run.at = 1
  <2>1. /\ TemplateVersion(daemon) = 0 /\ TemplateVersion(daemon)' = 0
        /\ config = 0 /\ config' = 0
    BY <1>0, <1>1, <1>7 DEF TemplateVersion
  <2>2. cr'.st = "absent" /\ cr'.ver = cr.ver /\ run'.pc = "idle"
    BY <1>0, <1>1, <1>7, IdleOK DEF TypeOK
  <2>3. Newest' = Newest \/ (Newest' \in Versions /\ Newest' > Newest)
    BY <2>2, EndOnward
  <2>4. Deployment!Forget
    BY <1>0, <1>3, <2>1, <2>2, <2>3 DEF Deployment!Forget, Deployment!Onward,
                                        Deployment!centre, Deployment!nodes
  <2> QED
    BY <2>4 DEF Refines, Deployment!Next
<1> QED
  BY <1>0, <1>4, <1>5, <1>6, <1>7

\* The watch of secrets changes no version.
LEMMA WatchRefines ==
  ASSUME OperatorInv, NEW s \in Secrets, Watch(s)
  PROVE  Refines
<1>1. TypeOK /\ UNCHANGED <<run, config, daemon, pod>>
  BY DEF OperatorInv, Watch, StartWatch, BumpTrigger, clusterVars
<1>2. cr'.st = cr.st /\ cr'.ver = cr.ver
  BY <1>1 DEF Watch, StartWatch, BumpTrigger, TypeOK
<1>3. Newest' = Newest
  BY <1>1, <1>2 DEF Newest
<1> QED
  BY <1>1, <1>2, <1>3, AsideRefines

\* A pod is made for the template there is, and its driver comes up with the
\* published version or stops.
LEMMA PodRefines ==
  ASSUME OperatorInv, NEW n \in Nodes, Pod(n) \/ DriverDies(n)
  PROVE  Refines
<1>0. TypeOK /\ PodInv(n) /\ UNCHANGED <<cr, run, config, daemon>>
  BY DEF OperatorInv, Pod, ReplacePod, StartDriver, DriverDies, clusterVars, operatorVars
<1>1. /\ pod \in [Nodes -> [st : {"none", "starting", "running"},
                            tmpl : Templates \cup {None}, ver : Versions \cup {0},
                            data : [Secrets -> Nat]]]
      /\ pod[n].st # "none" => pod[n].tmpl # None
  BY <1>0 DEF TypeOK
<1>2. /\ Newest' = Newest /\ UNCHANGED <<cr.st, config>>
      /\ TemplateVersion(daemon)' = TemplateVersion(daemon)
  BY <1>0 DEF Newest, TemplateVersion
<1>3. ASSUME NEW q, pod' = [pod EXCEPT ![n] = q]
      PROVE  /\ Expected' = [Expected EXCEPT ![n] = TemplateVersion(q.tmpl)]
             /\ Serving' = [Serving EXCEPT ![n] = IF q.st = "running" THEN q.ver ELSE 0]
  <2>1. pod'[n] = q /\ \A p \in Nodes \ {n} : pod'[p] = pod[p]
    BY <1>1, <1>3
  <2>2. \A p \in Nodes : Expected'[p] =
          IF p = n THEN TemplateVersion(q.tmpl) ELSE Expected[p]
    BY <2>1 DEF Expected, TemplateVersion
  <2>3. \A p \in Nodes : Serving'[p] =
          IF p = n THEN (IF q.st = "running" THEN q.ver ELSE 0) ELSE Serving[p]
    BY <2>1 DEF Serving, ServedVersion
  <2>4. /\ Expected = [p \in Nodes |-> Expected[p]] /\ Expected' = [p \in Nodes |-> Expected'[p]]
        /\ Serving = [p \in Nodes |-> Serving[p]] /\ Serving' = [p \in Nodes |-> Serving'[p]]
    BY DEF Expected, Serving
  <2> QED
    BY <2>2, <2>3, <2>4
<1>4. CASE ReplacePod(n)
  <2>1. PICK q : /\ pod' = [pod EXCEPT ![n] = q]
                 /\ q.st # "running" /\ q.tmpl = daemon
    <3>1. CASE daemon = None
      <4>1. pod' = [pod EXCEPT ![n] = NoPod] /\ NoPod.st # "running" /\ NoPod.tmpl = daemon
        BY <1>4, <3>1 DEF ReplacePod, NoPod
      <4> QED
        BY <4>1
    <3>2. CASE daemon # None
      <4> DEFINE q == [NoPod EXCEPT !.st = "starting", !.tmpl = daemon]
      <4>1. pod' = [pod EXCEPT ![n] = q] /\ q.st # "running" /\ q.tmpl = daemon
        BY <1>4, <3>2 DEF ReplacePod, NoPod
      <4> QED
        BY <4>1
    <3> QED
      BY <3>1, <3>2
  <2>2. /\ Expected' = [Expected EXCEPT ![n] = TemplateVersion(daemon)]
        /\ Serving' = [Serving EXCEPT ![n] = 0]
    BY <1>3, <2>1
  <2>3. Deployment!Place(n)
    BY <1>2, <2>2 DEF Deployment!Place, Deployment!centre
  <2> QED
    BY <2>3 DEF Refines, Deployment!Next
<1>5. CASE StartDriver(n)
  <2> DEFINE d == [s \in Secrets |-> IF s \in MountedIn(n) THEN secret[s].data ELSE 0]
             q == [pod[n] EXCEPT !.st = "running", !.ver = config, !.data = d]
  <2>1. pod[n].st = "starting" /\ config # 0 /\ pod' = [pod EXCEPT ![n] = q]
    BY <1>5 DEF StartDriver
  <2> HIDE DEF d
  <2>2. q.st = "running" /\ q.ver = config /\ q.tmpl = pod[n].tmpl
    BY <1>1
  <2> HIDE DEF q
  <2>3. /\ Expected' = [Expected EXCEPT ![n] = TemplateVersion(pod[n].tmpl)]
        /\ Serving' = [Serving EXCEPT ![n] = config]
    BY <1>3, <2>1, <2>2
  <2>4. /\ Expected[n] = pod[n].tmpl.ver /\ Serving[n] = 0
        /\ TemplateVersion(pod[n].tmpl) = Expected[n]
        /\ pod[n].tmpl \in Templates
    BY <1>1, <2>1 DEF Expected, Serving, TemplateVersion, ServedVersion
  <2>5. Expected' = Expected
    BY <2>3, <2>4 DEF Expected
  <2>6. Expected[n] # 0
    BY <2>4, ConfTypes DEF Templates
  <2>7. config >= Expected[n]
    BY <1>0, <1>1, <2>1, <2>4 DEF PodInv
  <2>8. config \in {v \in Versions : Valid(Conf(v))}
    <3>1. Valid(Conf(config))
      BY <1>5 DEF StartDriver, Loaded, LoadScaleConfigSettings, Valid
    <3> QED
      BY <1>0, <2>1, <3>1 DEF TypeOK
  <2>9. Deployment!Serve(n)
    BY <1>2, <2>3, <2>4, <2>5, <2>6, <2>7, <2>8 DEF Deployment!Serve, Deployment!centre
  <2> QED
    BY <2>9 DEF Refines, Deployment!Next
<1>6. CASE DriverDies(n)
  <2> DEFINE q == [pod[n] EXCEPT !.st = "starting"]
  <2>1. pod' = [pod EXCEPT ![n] = q]
    BY <1>6 DEF DriverDies
  <2>2. q.st = "starting" /\ q.tmpl = pod[n].tmpl
    BY <1>1
  <2> HIDE DEF q
  <2>3. /\ Expected' = [Expected EXCEPT ![n] = TemplateVersion(pod[n].tmpl)]
        /\ Serving' = [Serving EXCEPT ![n] = 0]
    BY <1>3, <2>1, <2>2
  <2>4. Expected' = Expected
    BY <2>3 DEF Expected
  <2>5. Deployment!Stop(n)
    BY <1>2, <2>3, <2>4 DEF Deployment!Stop, Deployment!centre
  <2> QED
    BY <2>5 DEF Refines, Deployment!Next
<1> QED
  BY <1>4, <1>5, <1>6 DEF Pod

\* Nothing is rolled out in the beginning.
LEMMA InitRefines == Init => Deployment!Init
<1> SUFFICES ASSUME Init PROVE Deployment!Init
  OBVIOUS
<1>1. cr.st = "absent" /\ Newest = 0 /\ config = 0 /\ TemplateVersion(daemon) = 0
  BY DEF Init, Newest, Idle, TemplateVersion
<1>2. \A p \in Nodes : TemplateVersion(pod[p].tmpl) = 0 /\ ServedVersion(p) = 0
  BY DEF Init, NoPod, TemplateVersion, ServedVersion
<1>3. Expected = [p \in Nodes |-> 0] /\ Serving = [p \in Nodes |-> 0]
  BY <1>2 DEF Expected, Serving
<1> QED
  BY <1>1, <1>3 DEF Deployment!Init

\* Every step maps to a step of the promise or to none.
LEMMA NextRefines == OperatorInv /\ [Next]_vars => Refines
<1> SUFFICES ASSUME OperatorInv, [Next]_vars PROVE Refines
  OBVIOUS
<1>1. CASE User
  BY <1>1, UserRefines
<1>2. CASE Reconcile
  BY <1>2, RunRefines, ApplyRefines, ClearRefines DEF Reconcile
<1>3. CASE SecretUnread \/ RunFails \/ OperatorRestarts
  BY <1>3, RunRefines
<1>4. CASE \E s \in Secrets : Watch(s)
  BY <1>4, WatchRefines
<1>5. CASE \E p \in Nodes : Pod(p) \/ DriverDies(p)
  BY <1>5, PodRefines
<1>6. CASE UNCHANGED vars
  <2>1. UNCHANGED <<cr, run, config, daemon, pod>>
    BY <1>6 DEF vars, clusterVars, operatorVars
  <2>2. Newest' = Newest
    BY <2>1 DEF Newest
  <2> QED
    BY <2>1, <2>2, AsideRefines
<1> QED
  BY <1>1, <1>2, <1>3, <1>4, <1>5, <1>6 DEF Next

\* The operator, Kubernetes and the drivers keep what Rollout promises, for any
\* nodes, versions and secrets, however many runs fail and templates are left
\* half applied: a configuration that was written later is never taken back, a
\* driver comes up only with the published one, if it is valid and at least the
\* one its pod was made for, and nothing is withdrawn before the resource is
\* deleted (main.yml:84-102, csi-plugin.yaml.j2:79-88, gpfs.go:172-185).
THEOREM RolloutImplemented == Spec => RolloutKept
<1>1. Init => Deployment!Init
  BY InitRefines
<1>2. OperatorInv /\ [Next]_vars => [Deployment!Next]_(Deployment!vars)
  BY NextRefines DEF Refines
<1> QED
  BY <1>1, <1>2, OperatorInvariant, PTL DEF Spec, RolloutKept, Deployment!Spec
=============================================================================
