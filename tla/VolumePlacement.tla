--------------------------- MODULE VolumePlacement ---------------------------
(***************************************************************************)
(* What a volume is made of and where: how CreateVolume takes the options  *)
(* of a storage class to a cluster, a filesystem, a fileset or directory   *)
(* and a symlink, what it writes into the volume ID, and how DeleteVolume  *)
(* finds them again from that ID (driver/csiplugin/gpfs_util.go,           *)
(* controllerserver.go, connectors/rest_v2.go).                            *)
(*                                                                         *)
(* An attempt may fail at every REST call, before or after the call took   *)
(* effect, and the next one continues from what is there.  Between         *)
(* attempts the class may be replaced by one of the same name and the      *)
(* driver restarted with another primary filesystem.  Handlers of several  *)
(* volumes run beside each other; those of one volume one after the other, *)
(* and of the GUI's jobs only the write of a quota, which others set too,  *)
(* outlives its handler (VolumeController has all of this overlap, with    *)
(* one filesystem and class).                                              *)
(*                                                                         *)
(* Abstractions.  A device is a filesystem at its owning cluster, and its  *)
(* UUID.  A path is a base directory ("" for a fileset's junction) and the *)
(* volume's name.  Requests that are refused before the first REST call    *)
(* that writes change nothing and are no steps.                            *)
(***************************************************************************)
EXTENDS SizeConversion, FiniteSets

CONSTANTS
  Volumes,         \* volume names
  PrimaryCluster,  \* the cluster of the primary connector
  LocalFs,         \* for each cluster with a connector, its own filesystems
  Mounted,         \* for each filesystem name of the primary cluster its device
  BlockSize,       \* block size of each device
  Classes,         \* for each volume, the options its class may give
  MaxClasses,      \* bound on the classes used for one volume
  Primaries,       \* filesystems that may be configured as the primary one
  Size,            \* the size requested for each volume, 0 for none
  FilesetIds,      \* ids the filesystem gives to filesets, and gives again
  ForeignQuotas,   \* quotas in KiB an administrator may set
  Legacy,          \* volumes that an earlier release may have created
  LegacyClass,     \* the options it created them with
  MaxFaults,       \* bound on what goes wrong
  Absent           \* no fileset, no ID, no class

Clusters == DOMAIN LocalFs
Devices  == UNION {{<<c, f>> : f \in LocalFs[c]} : c \in Clusters}
Names    == DOMAIN Mounted
Options  == UNION {Classes[v] : v \in Volumes}

ASSUME WorldAssumption ==
  /\ PrimaryCluster \in Clusters
  /\ \A f \in Names : Mounted[f] \in Devices
  /\ \A f \in LocalFs[PrimaryCluster] :
       f \in Names /\ Mounted[f] = <<PrimaryCluster, f>>
  /\ Primaries \subseteq Names
  /\ BlockSize \in [Devices -> Nat \ {0}]
ASSUME RequestAssumption ==
  /\ Size \in [Volumes -> Requests64]
  /\ DOMAIN Classes = Volumes
  /\ Legacy \subseteq Volumes
  /\ \A v \in Legacy : LegacyClass \in Classes[v]
  /\ \A q \in ForeignQuotas : q \in Nat \ {0} /\ q * KiB < WordSize
  /\ \A o \in Options : o.inodes \in Nat /\ o.parent # "new"
  /\ MaxFaults \in Nat /\ MaxClasses \in Nat
ASSUME IdAssumption ==
  /\ FilesetIds # {}
  /\ FilesetIds \cap Volumes = {}
  /\ Absent \notin Volumes \cup FilesetIds

VARIABLES
  primary,  \* the configured primary filesystem
  moved,    \* has it been another one before?
  pc,       \* the step of each volume's handler
  class,    \* the class of its creation
  asked,    \* all classes its creations were asked with
  found,    \* the fileset its deletion is about to delete
  fileset,  \* the filesets of each device
  dirs,     \* the data directories
  links,    \* the symlinks under the primary filesets
  quotaJobs, \* filesets with a write of their quota that outlived its handler
  overtaken, \* filesets whose quota others set while a write was on its way
  claim,    \* what the provisioner knows of each volume
  volId,    \* the volume ID it was given
  faults

handlerVars == <<pc, class, asked, found>>
storageVars == <<fileset, dirs, links>>
quotaVars   == <<quotaJobs, overtaken>>
clientVars  == <<claim, volId>>
vars == <<primary, moved, handlerVars, storageVars, quotaVars, clientVars, faults>>

----------------------------------------------------------------------------
(* Options of a storage class.                                             *)

FilesetBased(o) == o.dir = ""
FilesetType(o)  == IF o.type = "" THEN "independent" ELSE o.type

\* getScaleVolumeOptions; an inode limit of 0 stands for none given.
ValidOptions(o) ==
  /\ o.fs # ""
  /\ ~FilesetBased(o) => o.type = "" /\ o.parent = "" /\ o.inodes = 0
  /\ FilesetBased(o) =>
       \/ FilesetType(o) = "dependent" /\ o.inodes = 0
       \/ /\ FilesetType(o) = "independent" /\ o.parent = ""
          /\ o.inodes = 0 \/ o.inodes >= MinInodes

\* Mutant of Uid: a group alone does not imply a user.
UidAsGiven(o) == o.uid

Uid(o) == IF o.uid = "" /\ o.gid # "" THEN "0" ELSE o.uid

OrRoot(id) == IF id = "" THEN "0" ELSE id

\* Mutant of FilesetOwner: what the class leaves open is sent as it is.
FilesetOwnerAsGiven(o) == <<o.uid, o.gid>>

\* The owner in the request of CreateFileset: a group only with a user.
FilesetOwner(o) ==
  IF Uid(o) = "" THEN <<"0", "0">> ELSE <<Uid(o), OrRoot(o.gid)>>

DirectoryOwner(o) == <<OrRoot(Uid(o)), OrRoot(o.gid)>>

InodeSpace(o) ==
  CASE FilesetType(o) = "independent" -> "new"
    [] o.parent # "" -> o.parent
    [] OTHER -> "root"

InodeLimit(o, d, size) ==
  IF InodeSpace(o) # "new" THEN 0
  ELSE IF o.inodes # 0 THEN o.inodes ELSE DefaultInodes(size, BlockSize[d])

----------------------------------------------------------------------------
(* Where an option record leads.                                           *)

\* The cluster that is asked for a fileset.
ClusterId(o) ==
  IF FilesetBased(o) /\ o.cluster # "" THEN o.cluster ELSE PrimaryCluster

\* The last part of the remote device name, looked up at that cluster.
Device(o) ==
  IF FilesetBased(o) THEN <<ClusterId(o), Mounted[o.fs][2]>> ELSE Mounted[o.fs]

\* Mutant of Accepted: a class without a cluster ID goes to the primary one.
AcceptedAnyOwner(o) ==
  ValidOptions(o) /\ o.fs \in Names /\ Device(o) \in Devices

\* CreateVolume, up to the first step that writes.
Accepted(o) ==
  /\ ValidOptions(o)
  /\ o.fs \in Names
  /\ FilesetBased(o) /\ o.cluster = "" => Mounted[o.fs][1] = PrimaryCluster
  /\ Device(o) \in Devices

ASSUME LegacyAssumption ==
  \A v \in Legacy : Accepted(LegacyClass) /\ FilesetBased(LegacyClass)

\* generateVolID; an earlier release wrote the fileset's id, not its name.
VolId(v, o, key) ==
  [cluster |-> ClusterId(o), uuid |-> Mounted[o.fs],
   fset |-> IF FilesetBased(o) THEN key ELSE Absent, home |-> primary]

LinkOf(v, o) == [home |-> primary, vol |-> v, fs |-> o.fs, base |-> o.dir]

DirOf(v, o) ==
  [dev |-> Device(o), base |-> o.dir, vol |-> v, owner |-> DirectoryOwner(o)]

FilesetOf(v, o, id) ==
  [id |-> id, space |-> InodeSpace(o), owner |-> FilesetOwner(o),
   inodes |-> InodeLimit(o, Device(o), Size[v]), linked |-> FALSE, quota |-> 0]

----------------------------------------------------------------------------
CreateSteps ==
  {"CreateFileset", "LinkFileset", "ListFilesetQuota", "SetFilesetQuota",
   "MakeDirectory", "CreateSymLink"}
DeleteSteps == {"LookUp", "DeleteFileset", "DeleteDirectory", "DeleteSymLnk"}
Steps == {"idle"} \cup CreateSteps \cup DeleteSteps

\* An earlier release's volume, complete, with its ID.
InitOf(old, o) ==
  LET d == Device(o) IN
  /\ claim = [v \in Volumes |-> IF v \in old THEN "bound" ELSE "creating"]
  /\ asked = [v \in Volumes |-> IF v \in old THEN {o} ELSE {}]
  /\ volId = [v \in Volumes |->
       IF v \in old THEN VolId(v, o, CHOOSE i \in FilesetIds : TRUE) ELSE Absent]
  /\ fileset = [k \in Devices \X Volumes |->
       IF k[1] = d /\ k[2] \in old
       THEN [FilesetOf(k[2], o, CHOOSE i \in FilesetIds : TRUE) EXCEPT
               !.linked = TRUE, !.quota = Blocks(Size[k[2]])]
       ELSE Absent]
  /\ dirs = {DirOf(v, o) : v \in old}
  /\ links = {LinkOf(v, o) : v \in old}

Init ==
  /\ primary \in Primaries
  /\ moved = FALSE
  /\ pc = [v \in Volumes |-> "idle"]
  /\ class = [v \in Volumes |-> Absent]
  /\ found = [v \in Volumes |-> Absent]
  /\ \E old \in {{}} \cup {{v} : v \in Legacy} :
       InitOf(old, LegacyClass)
  /\ quotaJobs = {}
  /\ overtaken = {}
  /\ faults = 0

Fault ==
  /\ faults < MaxFaults
  /\ faults' = faults + 1

Goto(v, step) == pc' = [pc EXCEPT ![v] = step]

\* A call took effect: the handler goes on, or errs as the answer is lost.
Continue(v, step) ==
  \/ Goto(v, step) /\ UNCHANGED faults
  \/ Goto(v, "idle") /\ Fault

----------------------------------------------------------------------------
(* CreateVolume.                                                           *)

StartCreation(v, o) ==
  /\ claim[v] = "creating"
  /\ pc[v] = "idle"
  /\ Accepted(o)
  /\ Cardinality(asked[v] \cup {o}) <= MaxClasses
  /\ Goto(v, IF FilesetBased(o) THEN "CreateFileset" ELSE "MakeDirectory")
  /\ class' = [class EXCEPT ![v] = o]
  /\ asked' = [asked EXCEPT ![v] = @ \cup {o}]
  /\ UNCHANGED <<primary, moved, found, storageVars, quotaVars, clientVars, faults>>

Key(v) == <<Device(class[v]), v>>

FreeIds(d) ==
  {i \in FilesetIds : \A v \in Volumes :
     fileset[<<d, v>>] # Absent => fileset[<<d, v>>].id # i}

CreateFileset(v) ==
  /\ pc[v] = "CreateFileset"
  /\ IF fileset[Key(v)] = Absent
     THEN \E i \in FreeIds(Key(v)[1]) :
            fileset' = [fileset EXCEPT ![Key(v)] = FilesetOf(v, class[v], i)]
     ELSE UNCHANGED fileset
  /\ Continue(v, "LinkFileset")
  /\ UNCHANGED <<primary, moved, class, asked, found, dirs, links, quotaVars, clientVars>>

LinkFileset(v) ==
  /\ pc[v] = "LinkFileset"
  /\ fileset' = [fileset EXCEPT ![Key(v)].linked = TRUE]
  /\ Continue(v, IF Size[v] = 0 THEN "MakeDirectory" ELSE "ListFilesetQuota")
  /\ UNCHANGED <<primary, moved, class, asked, found, dirs, links, quotaVars, clientVars>>

\* Mutant of ListFilesetQuota: a quota that does not match is replaced.
ListFilesetQuotaAnyway(v) ==
  /\ pc[v] = "ListFilesetQuota"
  /\ Goto(v, "SetFilesetQuota")
  /\ UNCHANGED <<primary, moved, class, asked, found, storageVars, quotaVars, clientVars, faults>>

\* A quota that is set and does not match is not the driver's: an error.
ListFilesetQuota(v) ==
  LET listed == ConvertToBytes(fileset[Key(v)].quota) IN
  /\ pc[v] = "ListFilesetQuota"
  /\ \/ listed = Size[v] /\ Goto(v, "MakeDirectory")
     \/ listed = 0 /\ Goto(v, "SetFilesetQuota")
     \/ listed \notin {0, Size[v]} /\ Goto(v, "idle")
  /\ UNCHANGED <<primary, moved, class, asked, found, storageVars, quotaVars, clientVars, faults>>

\* The job that was asked for writes the quota, whatever is set by then.
SetFilesetQuota(v) ==
  /\ pc[v] = "SetFilesetQuota"
  /\ fileset' = [fileset EXCEPT ![Key(v)].quota = Blocks(Size[v])]
  /\ Continue(v, "MakeDirectory")
  /\ UNCHANGED <<primary, moved, class, asked, found, dirs, links, quotaVars, clientVars>>

\* The job cannot be asked after, and has yet to write.
AbandonQuotaJob(v) ==
  /\ pc[v] = "SetFilesetQuota"
  /\ Fault
  /\ Goto(v, "idle")
  /\ quotaJobs' = quotaJobs \cup {Key(v)}
  /\ UNCHANGED <<primary, moved, class, asked, found, storageVars, overtaken, clientVars>>

\* createDirectory: what exists is taken as it is.
MakeDirectory(v) ==
  LET new == DirOf(v, class[v]) IN
  /\ pc[v] = "MakeDirectory"
  /\ dirs' = IF \E x \in dirs : [x EXCEPT !.owner = new.owner] = new
             THEN dirs ELSE dirs \cup {new}
  /\ Continue(v, "CreateSymLink")
  /\ UNCHANGED <<primary, moved, class, asked, found, fileset, links, quotaVars, clientVars>>

\* createSoftlink, and the answer: the last step.
CreateSymLink(v) ==
  LET o == class[v] IN
  /\ pc[v] = "CreateSymLink"
  /\ links' = IF \E l \in links : l.home = primary /\ l.vol = v
              THEN links ELSE links \cup {LinkOf(v, o)}
  /\ Goto(v, "idle")
  /\ \/ /\ claim' = [claim EXCEPT ![v] = "bound"]
        /\ volId' = [volId EXCEPT ![v] = VolId(v, o, v)]
        /\ UNCHANGED faults
     \/ Fault /\ UNCHANGED clientVars
  /\ UNCHANGED <<primary, moved, class, asked, found, fileset, dirs, quotaVars>>

----------------------------------------------------------------------------
(* DeleteVolume.                                                           *)

Release(v) ==
  /\ claim[v] = "bound"
  /\ claim' = [claim EXCEPT ![v] = "deleting"]
  /\ UNCHANGED <<primary, moved, handlerVars, storageVars, quotaVars, volId, faults>>

\* Mutant of IdDevice: everything is looked for at the primary cluster.
IdDeviceAtPrimary(v) == <<PrimaryCluster, volId[v].uuid[2]>>

\* Where the ID leads: its cluster, and the name its UUID's filesystem has
\* at its owner.
IdDevice(v) == <<volId[v].cluster, volId[v].uuid[2]>>

StartDeletion(v) ==
  LET key == volId[v].fset IN
  /\ claim[v] = "deleting"
  /\ pc[v] = "idle"
  /\ \/ key = Absent /\ Goto(v, "DeleteDirectory") /\ UNCHANGED found
     \/ /\ key \in Volumes
        /\ Goto(v, "DeleteFileset")
        /\ found' = [found EXCEPT ![v] = key]
     \/ key \in FilesetIds /\ Goto(v, "LookUp") /\ UNCHANGED found
  /\ UNCHANGED <<primary, moved, class, asked, storageVars, quotaVars, clientVars, faults>>

NameFromId(d, i) ==
  IF \E w \in Volumes : fileset[<<d, w>>] # Absent /\ fileset[<<d, w>>].id = i
  THEN CHOOSE w \in Volumes : fileset[<<d, w>>] # Absent /\ fileset[<<d, w>>].id = i
  ELSE Absent

\* Mutant of IsOwn: the name from the path is not looked at.
IsAny(v, name) == name # Absent

\* "Confirm it is same fileset which was created for this PV"
IsOwn(v, name) == name = v

LookUp(v) ==
  LET name == NameFromId(IdDevice(v), volId[v].fset) IN
  /\ pc[v] = "LookUp"
  /\ IF IsOwn(v, name)
     THEN /\ Goto(v, "DeleteFileset")
          /\ found' = [found EXCEPT ![v] = name]
     ELSE Goto(v, "DeleteSymLnk") /\ UNCHANGED found
  /\ UNCHANGED <<primary, moved, class, asked, storageVars, quotaVars, clientVars, faults>>

\* With all that is in it; one that is not there is as good as deleted.
DeleteFileset(v) ==
  LET d == IdDevice(v) IN
  /\ pc[v] = "DeleteFileset"
  /\ fileset' = [fileset EXCEPT ![<<d, found[v]>>] = Absent]
  /\ dirs' = {x \in dirs : ~(x.dev = d /\ x.base = "" /\ x.vol = found[v])}
  /\ Continue(v, "DeleteSymLnk")
  /\ UNCHANGED <<primary, moved, class, asked, found, links, quotaVars, clientVars>>

\* The symlink as the path in the ID names it: with the mount point of
\* another primary filesystem the path leads nowhere.
IdLinks(v) == {l \in links : l.home = volId[v].home /\ l.home = primary /\ l.vol = v}

\* The directory of a lightweight volume is deleted through its symlink.
\* Whether the deletion of what is not there succeeds is up to the GUI.
DeleteDirectory(v) ==
  LET target == {x \in dirs : \E l \in IdLinks(v) :
                   x.dev = Mounted[l.fs] /\ x.base = l.base /\ x.vol = v} IN
  /\ pc[v] = "DeleteDirectory"
  /\ dirs' = dirs \ target
  /\ \/ Continue(v, "DeleteSymLnk")
     \/ target = {} /\ Goto(v, "idle") /\ UNCHANGED faults
  /\ UNCHANGED <<primary, moved, class, asked, found, fileset, links, quotaVars, clientVars>>

\* ... and the answer.
DeleteSymLnk(v) ==
  /\ pc[v] = "DeleteSymLnk"
  /\ links' = links \ IdLinks(v)
  /\ Goto(v, "idle")
  /\ \/ claim' = [claim EXCEPT ![v] = "gone"] /\ UNCHANGED faults
     \/ Fault /\ UNCHANGED claim
  /\ UNCHANGED <<primary, moved, class, asked, found, fileset, dirs, quotaVars, volId>>

----------------------------------------------------------------------------
(* Failures and other people.                                              *)

CallFails(v) ==
  /\ pc[v] # "idle"
  /\ Fault
  /\ Goto(v, "idle")
  /\ UNCHANGED <<primary, moved, class, asked, found, storageVars, quotaVars, clientVars>>

\* The driver restarts, perhaps with another configuration.
Restart(p) ==
  /\ Fault
  /\ primary' = p
  /\ moved' = (moved \/ p # primary)
  /\ pc' = [v \in Volumes |-> "idle"]
  /\ UNCHANGED <<class, asked, found, storageVars, quotaVars, clientVars>>

\* Does a write of the driver's, for a quota it listed as none, still come?
OnItsWay(k) ==
  k \in quotaJobs \/ (pc[k[2]] = "SetFilesetQuota" /\ Key(k[2]) = k)

\* A job that nobody waits for writes its quota, if the fileset is there.
LateQuotaJob(k) ==
  /\ k \in quotaJobs
  /\ quotaJobs' = quotaJobs \ {k}
  /\ fileset' = IF fileset[k] = Absent THEN fileset
                ELSE [fileset EXCEPT ![k].quota = Blocks(Size[k[2]])]
  /\ UNCHANGED <<primary, moved, handlerVars, dirs, links, overtaken, clientVars, faults>>

\* The driver looks at quotas of volumes with a size, until they are bound.
AdminSetsQuota(k, q) ==
  /\ claim[k[2]] = "creating"
  /\ Size[k[2]] # 0
  /\ fileset[k] # Absent
  /\ fileset[k].quota # q
  /\ Fault
  /\ fileset' = [fileset EXCEPT ![k].quota = q]
  /\ overtaken' = IF OnItsWay(k) THEN overtaken \cup {k} ELSE overtaken \ {k}
  /\ UNCHANGED <<primary, moved, handlerVars, dirs, links, quotaJobs, clientVars>>

Create(v) ==
  \/ \E o \in Classes[v] : StartCreation(v, o)
  \/ CreateFileset(v) \/ LinkFileset(v)
  \/ ListFilesetQuota(v) \/ SetFilesetQuota(v) \/ AbandonQuotaJob(v)
  \/ MakeDirectory(v) \/ CreateSymLink(v)
Delete(v) ==
  \/ Release(v) \/ StartDeletion(v) \/ LookUp(v)
  \/ DeleteFileset(v) \/ DeleteDirectory(v) \/ DeleteSymLnk(v)

Gone ==
  /\ \A v \in Volumes : claim[v] = "gone"
  /\ UNCHANGED vars

Next ==
  \/ \E v \in Volumes : Create(v) \/ Delete(v) \/ CallFails(v)
  \/ \E p \in Primaries : Restart(p)
  \/ \E k \in Devices \X Volumes :
       LateQuotaJob(k) \/ \E q \in ForeignQuotas : AdminSetsQuota(k, q)
  \/ Gone

Spec == Init /\ [][Next]_vars

----------------------------------------------------------------------------
(* Properties.                                                             *)

Owners == {<<OrRoot(o.uid), OrRoot(p.gid)>> : o, p \in Options}

Filesets ==
  [id : FilesetIds, space : {InodeSpace(o) : o \in Options}, owner : Owners,
   inodes : Nat, linked : BOOLEAN, quota : Nat]

ASSUME AbsentAssumption == Absent \notin Filesets

\* Every variable has its type.
TypeOK ==
  /\ primary \in Primaries
  /\ moved \in BOOLEAN
  /\ pc \in [Volumes -> Steps]
  /\ class \in [Volumes -> Options \cup {Absent}]
  /\ asked \in [Volumes -> SUBSET Options]
  /\ found \in [Volumes -> Volumes \cup {Absent}]
  /\ fileset \in [Devices \X Volumes -> Filesets \cup {Absent}]
  /\ dirs \subseteq [dev : Devices, base : {o.dir : o \in Options},
                     vol : Volumes, owner : Owners]
  /\ links \subseteq [home : Primaries, vol : Volumes, fs : Names,
                      base : {o.dir : o \in Options}]
  /\ quotaJobs \subseteq Devices \X Volumes
  /\ overtaken \subseteq Devices \X Volumes
  /\ claim \in [Volumes -> {"creating", "bound", "deleting", "gone"}]
  /\ volId \in [Volumes -> {Absent} \cup
       [cluster : Clusters, uuid : Devices, home : Primaries,
        fset : Volumes \cup FilesetIds \cup {Absent}]]
  /\ faults \in 0..MaxFaults

\* The class leads to the filesystem it names: it names its owner, or none.
Fits(o) == o.cluster \in {"", Mounted[o.fs][1]} \/ ~FilesetBased(o)

\* A fileset is what the class asks for.
AsAsked(f, o, size) ==
  /\ (f.space = "new") = (o.type # "dependent")
  /\ o.parent # "" => f.space = o.parent
  /\ o.inodes # 0 => f.inodes = o.inodes
  /\ f.space = "new" => f.inodes >= MinInodes
  /\ f.owner = <<OrRoot(o.uid), OrRoot(o.gid)>>
  /\ f.linked
  /\ size # 0 => f.quota # 0

\* The symlink in the ID of a bound volume leads to the volume's own data, on
\* the filesystem its class names and made the way the class says
\* (controllerserver.go:452-518), if all attempts used one class.
LeadsToItsData ==
  \A v \in Volumes : \A o \in Options :
    claim[v] = "bound" /\ asked[v] = {o} /\ Fits(o) =>
      LET d == Mounted[o.fs] IN
      /\ \E l \in links : /\ l.home = volId[v].home /\ l.vol = v
                          /\ Mounted[l.fs] = d /\ l.base = o.dir
      /\ [dev |-> d, base |-> o.dir, vol |-> v,
          owner |-> <<OrRoot(o.uid), OrRoot(o.gid)>>] \in dirs
      /\ FilesetBased(o) =>
           /\ fileset[<<d, v>>] # Absent
           /\ AsAsked(fileset[<<d, v>>], o, Size[v])

\* Whatever way DeleteVolume found it, a volume that is reported deleted has
\* left nothing anywhere (controllerserver.go:597-674), if all attempts used
\* one class; of one with a fileset the data are found also by a driver that
\* was given another primary filesystem, whose symlink may stay.
GoneLeavesNothing ==
  \A v \in Volumes : \A o \in Options :
    claim[v] = "gone" /\ asked[v] = {o} =>
      /\ FilesetBased(o) \/ ~moved =>
           /\ \A d \in Devices : fileset[<<d, v>>] = Absent
           /\ \A x \in dirs : x.vol # v
      /\ ~moved => \A l \in links : l.vol # v

\* Nothing of a volume is taken away but by its own deletion: not by that of
\* another volume whose ID holds a fileset id that was given again
\* (controllerserver.go:641-650).
DeletesOnlyItsOwn ==
  [][\A v \in Volumes : claim[v] # "deleting" =>
       /\ \A d \in Devices :
            fileset[<<d, v>>] # Absent => fileset'[<<d, v>>] # Absent
       /\ \A x \in dirs \ dirs' : x.vol # v
       /\ \A l \in links \ links' : l.vol # v]_vars

\* The driver never replaces a quota that others have set, by any of its
\* attempts or the jobs they left (controllerserver.go:171-202), but one that
\* was set after an attempt had listed none and before its write was done.
QuotaKept ==
  [][\A k \in Devices \X Volumes :
       fileset[k] # Absent /\ fileset[k].quota # 0 /\ fileset'[k] # Absent =>
         \/ fileset'[k].quota \in {fileset[k].quota} \cup ForeignQuotas
         \/ k \in overtaken]_vars

----------------------------------------------------------------------------
(* What the properties rest on: an invariant that every step keeps.        *)

\* The two halves of what a class makes of a volume.
FilesetDone(v, o) ==
  FilesetBased(o) =>
    LET f == fileset[<<Device(o), v>>] IN
    f # Absent /\ f.linked /\ (Size[v] # 0 => f.quota # 0)

DirDone(v, o) == \E x \in dirs : x.dev = Device(o) /\ x.base = o.dir /\ x.vol = v

Has(v) ==
  \/ \E d \in Devices : fileset[<<d, v>>] # Absent
  \/ \E x \in dirs : x.vol = v

QuotaSteps == {"ListFilesetQuota", "SetFilesetQuota"}

HandlerInv(v) ==
  /\ pc[v] \in CreateSteps => claim[v] = "creating" /\ class[v] \in asked[v]
  /\ pc[v] \in {"CreateFileset", "LinkFileset"} \cup QuotaSteps => FilesetBased(class[v])
  /\ pc[v] \in {"LinkFileset"} \cup QuotaSteps => fileset[Key(v)] # Absent
  /\ pc[v] \in QuotaSteps => fileset[Key(v)].linked
  /\ pc[v] \in QuotaSteps => Size[v] # 0
  /\ pc[v] \in {"MakeDirectory", "CreateSymLink"} => FilesetDone(v, class[v])
  /\ pc[v] = "CreateSymLink" => DirDone(v, class[v])
  /\ pc[v] \in DeleteSteps => claim[v] = "deleting"
  /\ pc[v] = "LookUp" => volId[v].fset \in FilesetIds
  /\ pc[v] = "DeleteFileset" => found[v] = v /\ volId[v].fset # Absent
  /\ pc[v] = "DeleteDirectory" => volId[v].fset = Absent

\* All that is there was made for one of the classes that were asked with.
MadeInv(v) ==
  /\ \A o \in asked[v] : Accepted(o)
  /\ \A d \in Devices : fileset[<<d, v>>] # Absent =>
       LET f == fileset[<<d, v>>] IN
       /\ f.quota * KiB < WordSize
       /\ \E o \in asked[v] :
            /\ FilesetBased(o) /\ Device(o) = d
            /\ f.space = InodeSpace(o) /\ f.owner = FilesetOwner(o)
            /\ f.inodes = InodeLimit(o, d, Size[v])
  /\ \A x \in dirs : x.vol = v => \E o \in asked[v] : x = DirOf(v, o)
  /\ \A l \in links : l.vol = v => \E o \in asked[v] : l.fs = o.fs /\ l.base = o.dir

\* A volume ID says where a class led, and until the deletion all is there.
IdInv(v) ==
  LET i == volId[v] IN
  claim[v] \in {"bound", "deleting"} =>
    /\ i \in [cluster : Clusters, uuid : Devices, home : Primaries,
             fset : {v, Absent} \cup FilesetIds]
    /\ \E o \in asked[v] :
         /\ i.cluster = ClusterId(o) /\ i.uuid = Mounted[o.fs]
         /\ (i.fset = Absent) = ~FilesetBased(o)
         /\ claim[v] = "bound" =>
              /\ FilesetDone(v, o) /\ DirDone(v, o)
              /\ \E l \in links : l.home = i.home /\ l.vol = v
    /\ i.fset \in FilesetIds /\ fileset[<<IdDevice(v), v>>] # Absent =>
         fileset[<<IdDevice(v), v>>].id = i.fset

\* How far the deletion of a volume of one class has come.
GoneInv(v) ==
  /\ ~moved => \A l \in links : l.vol = v => l.home = primary
  /\ ~moved /\ claim[v] \in {"bound", "deleting"} => volId[v].home = primary
  /\ \A o \in asked[v] : asked[v] = {o} =>
       /\ claim[v] = "deleting" /\ FilesetBased(o) /\ fileset[<<Device(o), v>>] = Absent
            => ~Has(v)
       /\ (FilesetBased(o) \/ ~moved) /\ claim[v] = "deleting" /\ pc[v] = "DeleteSymLnk"
            => ~Has(v)
       /\ ~moved /\ claim[v] = "deleting" /\ (\A l \in links : l.vol # v) => ~Has(v)
       /\ claim[v] = "gone" => /\ FilesetBased(o) \/ ~moved => ~Has(v)
                               /\ ~moved => \A l \in links : l.vol # v

\* A device gives an id to one fileset at a time.
UniqueIds ==
  \A d \in Devices, v, w \in Volumes :
    fileset[<<d, v>>] # Absent /\ fileset[<<d, w>>] # Absent
      /\ fileset[<<d, v>>].id = fileset[<<d, w>>].id => v = w

\* What a write on its way will replace: nothing, or the driver's own quota,
\* unless others have come before it.
QuotaInv ==
  /\ \A k \in quotaJobs : Size[k[2]] # 0
  /\ \A k \in Devices \X Volumes :
       fileset[k] # Absent /\ OnItsWay(k) /\ k \notin overtaken =>
         fileset[k].quota \in {0, Blocks(Size[k[2]])}

PlacementInv ==
  /\ TypeOK /\ UniqueIds /\ QuotaInv
  /\ \A v \in Volumes : HandlerInv(v) /\ MadeInv(v) /\ IdInv(v) /\ GoneInv(v)
=============================================================================
