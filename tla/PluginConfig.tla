----------------------------- MODULE PluginConfig -----------------------------
(***************************************************************************)
(* The configuration of the driver: how it is read together with the       *)
(* secrets and certificates it names (driver/csiplugin/settings/           *)
(* scale_config.go), what is accepted of it, and the connectors that are   *)
(* made of what was accepted (driver/csiplugin/gpfs.go).                   *)
(*                                                                         *)
(* A configuration is a sequence of clusters with the fields               *)
(*   id, gui, secret, cacert   strings, "" when not given; gui stands for  *)
(*                             the host of the first restApi entry         *)
(*   secure                    secureSslMode                               *)
(*   primary                   a boolean: is there a primary section?      *)
(*   fs, remote                primaryFs and remoteCluster of that section *)
(***************************************************************************)
EXTENDS Naturals, Sequences

Indices(conf) == DOMAIN conf

\* HandleSecretsAndCerts: every secret and certificate that is named must be
\* there; if one is not, the driver goes on with no clusters at all.
LoadScaleConfigSettings(conf, secrets, certs) ==
  IF \A i \in Indices(conf) :
       /\ conf[i].secret # "" => conf[i].secret \in secrets
       /\ conf[i].secure /\ conf[i].cacert # "" => conf[i].cacert \in certs
  THEN conf ELSE <<>>

\* Mutant of RemoteClusterDefined: not looked for.
RemoteClusterTrusted(conf, i) == TRUE

\* Cluster ids are numbers in the end: ignoring case makes no difference.
\* The primary cluster itself is not among those that are looked at.
RemoteClusterDefined(conf, i) ==
  conf[i].remote # "" =>
    \E j \in Indices(conf) : ~conf[j].primary /\ conf[j].id = conf[i].remote

\* ValidateScaleConfigParameters.
Valid(conf) ==
  /\ conf # <<>>
  /\ \A i \in Indices(conf) :
       /\ conf[i].id # "" /\ conf[i].gui # "" /\ conf[i].secret # ""
       /\ conf[i].secure => conf[i].cacert # ""
       /\ conf[i].primary =>
            /\ conf[i].fs # ""
            /\ RemoteClusterDefined(conf, i)
            /\ \A j \in Indices(conf) : conf[j].primary => j = i
  /\ \E i \in Indices(conf) : conf[i].primary

\* The loop of PluginInitialize: a connector for every cluster, which must
\* report the id it is configured with, and one more for the primary.
Connectors(conf) ==
  {conf[i].id : i \in Indices(conf)}
    \cup {"primary" : i \in {j \in Indices(conf) : conf[j].primary}}

\* The connectors that are used unseen: nil when they are not there
\* (gpfs.go:246-255, 284-291 and every handler).
Needed(conf) ==
  {"primary"} \cup {conf[i].remote : i \in
     {j \in Indices(conf) : conf[j].primary /\ conf[j].remote # ""}}
=============================================================================
