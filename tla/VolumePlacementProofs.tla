----------------------- MODULE VolumePlacementProofs -----------------------
(***************************************************************************)
(* Proofs about VolumePlacement, for any clusters, filesystems, volumes,   *)
(* classes and faults.                                                     *)
(***************************************************************************)
EXTENDS VolumePlacement, TLAPS

----------------------------------------------------------------------------
(* Sizes.                                                                  *)

\* A quota is the least number of units that holds the size.
LEMMA BlocksBound ==
  ASSUME NEW s \in Nat
  PROVE  /\ Blocks(s) \in Nat
         /\ s <= Blocks(s) * KiB
         /\ Blocks(s) * KiB < s + KiB
  BY SMT DEF Blocks, KiB

\* A quota that fits a machine word is read as it is.
LEMMA ReadsBack ==
  ASSUME NEW q \in Nat, q * KiB < WordSize
  PROVE  ConvertToBytes(q) = q * KiB
  <1>1. q * KiB \in Nat /\ WordSize \in Nat
    BY SizeAssumption DEF KiB
  <1>2. \A a, b \in Nat : a < b => a % b = a
    BY SMT
  <1> QED BY <1>1, <1>2 DEF ConvertToBytes

\* A request never comes near the size of a machine word.
LEMMA RequestFits ==
  ASSUME NEW s \in Requests64
  PROVE  s \in Nat /\ Blocks(s) \in Nat /\ Blocks(s) * KiB < WordSize
  <1>1. s \in Nat /\ 2 * s <= WordSize
    BY SizeAssumption DEF Requests64, KiB
  <1> QED BY <1>1, BlocksBound, SizeAssumption DEF KiB

\* The quota the driver sets for a whole number of KiB is the size that it
\* reads back: it knows its own fileset again, whatever was requested
\* (gpfs_util.go:219-273, controllerserver.go:171-202).
THEOREM QuotaReadsBack ==
  \A s \in Requests64 : s % KiB = 0 => ConvertToBytes(Blocks(s)) = s
  <1> SUFFICES ASSUME NEW s \in Requests64, s % KiB = 0
               PROVE  ConvertToBytes(Blocks(s)) = s
    OBVIOUS
  <1>1. s \in Nat /\ ConvertToBytes(Blocks(s)) = Blocks(s) * KiB
    BY RequestFits, ReadsBack
  <1>2. Blocks(s) * KiB = s
    BY <1>1, SMT DEF Blocks, KiB
  <1> QED BY <1>1, <1>2

----------------------------------------------------------------------------
(* Options.                                                                *)

\* A class that is accepted leads to devices that there are.
LEMMA AcceptedLeads ==
  ASSUME NEW o \in Options, Accepted(o)
  PROVE  /\ Device(o) \in Devices /\ Mounted[o.fs] \in Devices
         /\ o.fs \in Names /\ ClusterId(o) \in Clusters
         /\ Device(o) = <<ClusterId(o), Mounted[o.fs][2]>> \/ ~FilesetBased(o)
         /\ ~FilesetBased(o) => Device(o) = Mounted[o.fs]
  <1>1. o.fs \in Names /\ Device(o) \in Devices
    BY DEF Accepted
  <1>2. Mounted[o.fs] \in Devices /\ PrimaryCluster \in Clusters
    BY <1>1, WorldAssumption
  <1>3. \A d \in Devices : d[1] \in Clusters
    BY DEF Devices
  <1>4. FilesetBased(o) => Device(o)[1] = ClusterId(o)
    BY DEF Device
  <1>5. ~FilesetBased(o) => ClusterId(o) = PrimaryCluster
    BY DEF ClusterId
  <1> QED BY <1>1, <1>2, <1>3, <1>4, <1>5 DEF Device

\* The inode limit is a number, and not below the minimum in a space of its own.
LEMMA InodeBound ==
  ASSUME NEW o \in Options, Accepted(o), NEW v \in Volumes
  PROVE  /\ InodeLimit(o, Device(o), Size[v]) \in Nat
         /\ InodeSpace(o) = "new" => InodeLimit(o, Device(o), Size[v]) >= MinInodes
  <1>1. BlockSize[Device(o)] \in Nat \ {0} /\ Size[v] \in Nat /\ o.inodes \in Nat
    BY AcceptedLeads, WorldAssumption, RequestAssumption, RequestFits
  <1>2. \A a \in Nat, b \in Nat \ {0} : a \div b \in Nat
    BY SMT
  <1>3. /\ DefaultInodes(Size[v], BlockSize[Device(o)]) \in Nat
        /\ DefaultInodes(Size[v], BlockSize[Device(o)]) >= MinInodes
    BY <1>1, <1>2, SizeAssumption DEF DefaultInodes
  <1>4. InodeSpace(o) = "new" /\ o.inodes # 0 => o.inodes >= MinInodes
    BY RequestAssumption DEF Accepted, ValidOptions, InodeSpace, FilesetType
  <1> QED BY <1>1, <1>3, <1>4 DEF InodeLimit

\* A fileset that is made is a fileset.
LEMMA MadeFileset ==
  ASSUME NEW o \in Options, Accepted(o), NEW v \in Volumes, NEW i \in FilesetIds
  PROVE  /\ FilesetOf(v, o, i) \in Filesets
         /\ DirectoryOwner(o) \in Owners
  <1>1. <<OrRoot(o.uid), OrRoot(o.gid)>> \in Owners
    BY DEF Owners
  <1>2. /\ FilesetOwner(o) = <<OrRoot(o.uid), OrRoot(o.gid)>>
        /\ DirectoryOwner(o) = <<OrRoot(o.uid), OrRoot(o.gid)>>
    BY DEF FilesetOwner, DirectoryOwner, Uid, OrRoot
  <1> QED BY <1>1, <1>2, InodeBound DEF FilesetOf, Filesets

\* What a class makes is what it asks for.
LEMMA MadeAsAsked ==
  ASSUME NEW o \in Options, Accepted(o), FilesetBased(o), NEW v \in Volumes,
         NEW f \in Filesets, f.space = InodeSpace(o), f.owner = FilesetOwner(o),
         f.inodes = InodeLimit(o, Device(o), Size[v]), f.linked,
         Size[v] # 0 => f.quota # 0
  PROVE  AsAsked(f, o, Size[v])
  <1>1. f.owner = <<OrRoot(o.uid), OrRoot(o.gid)>>
    BY DEF FilesetOwner, Uid, OrRoot
  <1>2. /\ (f.space = "new") = (o.type # "dependent")
        /\ o.parent # "" => f.space = o.parent
        /\ o.inodes # 0 => f.space = "new"
    BY RequestAssumption DEF Accepted, ValidOptions, InodeSpace, FilesetType
  <1>3. o.inodes # 0 => f.inodes = o.inodes
    BY <1>2 DEF InodeLimit
  <1> QED BY <1>1, <1>2, <1>3, InodeBound DEF AsAsked

----------------------------------------------------------------------------
(* What a step leaves alone.                                               *)

USE DEF quotaVars, QuotaSteps

\* Nothing of a volume changes.
Same(w) ==
  /\ pc'[w] = pc[w] /\ class'[w] = class[w] /\ asked'[w] = asked[w]
  /\ found'[w] = found[w] /\ claim'[w] = claim[w] /\ volId'[w] = volId[w]
  /\ \A d \in Devices : fileset'[<<d, w>>] = fileset[<<d, w>>]
  /\ \A x : x.vol = w => (x \in dirs') = (x \in dirs)
  /\ \A l : l.vol = w => (l \in links') = (l \in links)
  /\ primary' = primary /\ moved' = moved

VolumeInv(v) == HandlerInv(v) /\ MadeInv(v) /\ IdInv(v) /\ GoneInv(v)

\* The class of a creation under way is one that was accepted.
LEMMA ClassLeads ==
  ASSUME TypeOK, NEW v \in Volumes, HandlerInv(v), MadeInv(v), pc[v] \in CreateSteps
  PROVE  /\ class[v] \in asked[v] /\ class[v] \in Options /\ Accepted(class[v])
         /\ Device(class[v]) \in Devices /\ claim[v] = "creating"
         /\ Key(v) \in Devices \X Volumes
  BY AcceptedLeads DEF TypeOK, HandlerInv, MadeInv, Key

\* An ID leads to the device of a class that was accepted.
LEMMA IdLeads ==
  ASSUME TypeOK, NEW v \in Volumes, MadeInv(v), IdInv(v), claim[v] \in {"bound", "deleting"}
  PROVE  \E o \in asked[v] :
           /\ o \in Options /\ Accepted(o) /\ Device(o) \in Devices
           /\ volId[v].cluster = ClusterId(o) /\ volId[v].uuid = Mounted[o.fs]
           /\ (volId[v].fset = Absent) = ~FilesetBased(o)
           /\ FilesetBased(o) => IdDevice(v) = Device(o)
  BY AcceptedLeads DEF TypeOK, MadeInv, IdInv, IdDevice

\* A volume that a step leaves alone is as it was.
LEMMA SameKeeps ==
  ASSUME TypeOK, NEW w \in Volumes, VolumeInv(w), Same(w)
  PROVE  VolumeInv(w)'
  <1> USE DEF VolumeInv
  <1>1. HandlerInv(w)'
    BY ClassLeads DEF HandlerInv, Same, Key, FilesetDone, DirDone, CreateSteps
  <1>2. MadeInv(w)'
    BY DEF MadeInv, Same
  <1>3. IdInv(w)'
    <2> SUFFICES ASSUME claim[w] \in {"bound", "deleting"} PROVE IdInv(w)'
      BY DEF IdInv, Same
    <2>1. \A o \in asked[w] : FilesetDone(w, o)' = FilesetDone(w, o)
      BY AcceptedLeads DEF TypeOK, MadeInv, FilesetDone, Same
    <2>2. \A o \in asked[w] : DirDone(w, o)' = DirDone(w, o)
      BY DEF DirDone, Same
    <2>3. IdDevice(w)' = IdDevice(w)
      BY DEF IdDevice, Same
    <2>4. volId[w].fset \in FilesetIds => IdDevice(w) \in Devices
      BY IdLeads, IdAssumption
    <2> QED BY <2>1, <2>2, <2>3, <2>4 DEF IdInv, Same
  <1>4. GoneInv(w)'
    BY AcceptedLeads DEF TypeOK, MadeInv, GoneInv, Same, Has
  <1> QED BY <1>1, <1>2, <1>3, <1>4

\* What a step of one volume's handler must show.
Kept(v) ==
  /\ TypeOK' /\ UniqueIds' /\ VolumeInv(v)'
  /\ \A w \in Volumes \ {v} : Same(w)

\* The storage of a volume stays as it is.
SameStorage(v) ==
  /\ asked'[v] = asked[v]
  /\ \A d \in Devices : fileset'[<<d, v>>] = fileset[<<d, v>>]
  /\ \A x : x.vol = v => (x \in dirs') = (x \in dirs)
  /\ \A l : l.vol = v => (l \in links') = (l \in links)

\* What was made and what the ID says last while the storage of the volume does.
LEMMA IdFrame ==
  ASSUME TypeOK, NEW v \in Volumes, MadeInv(v), IdInv(v), SameStorage(v),
         volId'[v] = volId[v],
         claim'[v] = claim[v] \/ (claim[v] = "bound" /\ claim'[v] = "deleting")
  PROVE  MadeInv(v)' /\ IdInv(v)'
  <1>1. MadeInv(v)'
    BY DEF MadeInv, SameStorage
  <1> SUFFICES ASSUME claim[v] \in {"bound", "deleting"} PROVE IdInv(v)'
    BY <1>1 DEF IdInv
  <1>2. \A o \in asked[v] : FilesetDone(v, o)' = FilesetDone(v, o)
    BY AcceptedLeads DEF TypeOK, MadeInv, FilesetDone, SameStorage
  <1>3. \A o \in asked[v] : DirDone(v, o)' = DirDone(v, o)
    BY DEF DirDone, SameStorage
  <1>4. IdDevice(v)' = IdDevice(v)
    BY DEF IdDevice
  <1>5. volId[v].fset \in FilesetIds => IdDevice(v) \in Devices
    BY IdLeads, IdAssumption
  <1> QED BY <1>2, <1>3, <1>4, <1>5 DEF IdInv, SameStorage

\* No fileset gets another id, and none appears.
LEMMA IdsFrame ==
  ASSUME UniqueIds,
         \A k \in Devices \X Volumes : fileset'[k] # Absent =>
           fileset[k] # Absent /\ fileset'[k].id = fileset[k].id
  PROVE  UniqueIds'
  <1> SUFFICES ASSUME NEW d \in Devices, NEW v \in Volumes, NEW w \in Volumes,
                      fileset'[<<d, v>>] # Absent, fileset'[<<d, w>>] # Absent,
                      fileset'[<<d, v>>].id = fileset'[<<d, w>>].id
               PROVE  v = w
    BY DEF UniqueIds
  <1>1. <<d, v>> \in Devices \X Volumes /\ <<d, w>> \in Devices \X Volumes
    OBVIOUS
  <1> QED BY <1>1 DEF UniqueIds

\* Before a volume has its ID, little can be wrong with its deletion.
LEMMA CreatingInv ==
  ASSUME NEW v \in Volumes, claim'[v] = "creating", GoneInv(v), primary' = primary,
         moved' = moved,
         \A l \in links' : l.vol = v => l \in links \/ l.home = primary
  PROVE  IdInv(v)' /\ GoneInv(v)'
  BY DEF IdInv, GoneInv

\* How far a deletion has come does not depend on the step of a handler that
\* is not about to delete the symlink.
LEMMA GoneFrame ==
  ASSUME TypeOK, NEW v \in Volumes, MadeInv(v), GoneInv(v), SameStorage(v),
         volId'[v] = volId[v], claim'[v] = claim[v],
         moved' = moved, primary' = primary,
         pc'[v] = "DeleteSymLnk" => \A o \in asked[v] : asked[v] = {o} => ~Has(v)
  PROVE  GoneInv(v)'
  <1>1. Has(v)' = Has(v)
    BY DEF Has, SameStorage
  <1>2. \A o \in asked[v] : Device(o) \in Devices
    BY AcceptedLeads DEF TypeOK, MadeInv
  <1> QED BY <1>1, <1>2 DEF GoneInv, SameStorage

\* No fileset goes, and a quota that is set stays as it is.
Retained ==
  \A k \in Devices \X Volumes : fileset[k] # Absent =>
    /\ fileset'[k] # Absent
    /\ fileset[k].quota # 0 => fileset'[k].quota = fileset[k].quota

----------------------------------------------------------------------------
(* Creation.                                                               *)

\* A new fileset has a free id and the owner, inode space and limit of its class.
LEMMA CreateFilesetInv ==
  ASSUME TypeOK, UniqueIds, NEW v \in Volumes, VolumeInv(v), CreateFileset(v)
  PROVE  Kept(v)
  <1> USE DEF VolumeInv
  <1>0. /\ class[v] \in asked[v] /\ class[v] \in Options /\ Accepted(class[v])
        /\ Device(class[v]) \in Devices /\ claim[v] = "creating" /\ Key(v) \in Devices \X Volumes
        /\ FilesetBased(class[v]) /\ Key(v) = <<Device(class[v]), v>>
        /\ pc'[v] \in {"LinkFileset", "idle"} /\ faults' \in 0..MaxFaults
    BY ClassLeads, RequestAssumption
    DEF CreateFileset, CreateSteps, Continue, Goto, Fault, TypeOK, HandlerInv, Key
  <1>1. \/ fileset[Key(v)] # Absent /\ fileset' = fileset
        \/ /\ fileset[Key(v)] = Absent
           /\ \E i \in FreeIds(Device(class[v])) :
                fileset' = [fileset EXCEPT ![Key(v)] = FilesetOf(v, class[v], i)]
    BY <1>0 DEF CreateFileset
  <1>2. fileset' \in [Devices \X Volumes -> Filesets \cup {Absent}] /\ fileset'[Key(v)] # Absent
    BY <1>0, <1>1, MadeFileset, AbsentAssumption DEF TypeOK, FreeIds
  <1>3. TypeOK'
    BY <1>0, <1>2 DEF TypeOK, CreateFileset, Continue, Goto, Steps, CreateSteps, handlerVars, clientVars
  <1>4. UniqueIds'
    <2>1. CASE fileset' = fileset
      BY <2>1 DEF UniqueIds
    <2>2. ASSUME fileset[Key(v)] = Absent, NEW i \in FreeIds(Device(class[v])),
                 fileset' = [fileset EXCEPT ![Key(v)] = FilesetOf(v, class[v], i)]
          PROVE  UniqueIds'
      <3> SUFFICES ASSUME NEW d \in Devices, NEW u \in Volumes, NEW w \in Volumes,
                          fileset'[<<d, u>>] # Absent, fileset'[<<d, w>>] # Absent,
                          fileset'[<<d, u>>].id = fileset'[<<d, w>>].id, u # w
                   PROVE  FALSE
        BY DEF UniqueIds
      <3>1. \A x \in Volumes : <<d, x>> # Key(v) => fileset'[<<d, x>>] = fileset[<<d, x>>]
        BY <1>0, <2>2 DEF TypeOK
      <3>2. fileset'[Key(v)].id = i
        BY <1>0, <2>2 DEF TypeOK, FilesetOf
      <3>3. \A x \in Volumes : fileset[<<Device(class[v]), x>>] # Absent =>
                               fileset[<<Device(class[v]), x>>].id # i
        BY <2>2 DEF FreeIds
      <3>4. d = Device(class[v]) /\ (u = v \/ w = v)
        BY <1>0, <3>1 DEF UniqueIds
      <3>5. u # v
        BY <1>0, <3>1, <3>2, <3>3, <3>4
      <3>6. w # v
        BY <1>0, <3>1, <3>2, <3>3, <3>4
      <3> QED BY <3>4, <3>5, <3>6
    <2> QED BY <1>1, <2>1, <2>2
  <1>5. HandlerInv(v)'
    BY <1>0, <1>2 DEF HandlerInv, TypeOK, CreateFileset, Key, CreateSteps, DeleteSteps, clientVars
  <1>6. MadeInv(v)'
    <2>1. CASE fileset' = fileset
      BY <2>1 DEF MadeInv, CreateFileset
    <2>2. CASE \E i \in FilesetIds :
                 fileset' = [fileset EXCEPT ![Key(v)] = FilesetOf(v, class[v], i)]
      BY <1>0, <2>2, SizeAssumption DEF MadeInv, CreateFileset, FilesetOf, TypeOK, KiB
    <2> QED BY <1>1, <2>1, <2>2 DEF FreeIds
  <1>7. IdInv(v)' /\ GoneInv(v)'
    BY <1>0, CreatingInv DEF CreateFileset, clientVars
  <1>8. \A w \in Volumes \ {v} : Same(w)
    BY <1>0, <1>1 DEF Same, TypeOK, CreateFileset, Continue, Goto, clientVars
  <1> QED BY <1>3, <1>4, <1>5, <1>6, <1>7, <1>8 DEF Kept

\* Linking changes nothing else about the fileset.
LEMMA LinkFilesetInv ==
  ASSUME TypeOK, UniqueIds, NEW v \in Volumes, VolumeInv(v), LinkFileset(v)
  PROVE  Kept(v) /\ Retained
  <1> USE DEF VolumeInv
  <1>0. /\ class[v] \in asked[v] /\ class[v] \in Options /\ Accepted(class[v])
        /\ Device(class[v]) \in Devices /\ claim[v] = "creating" /\ Key(v) \in Devices \X Volumes
        /\ FilesetBased(class[v]) /\ Key(v) = <<Device(class[v]), v>>
        /\ pc'[v] \in {"ListFilesetQuota", "MakeDirectory", "idle"}
        /\ pc'[v] = "ListFilesetQuota" => Size[v] # 0
        /\ pc'[v] = "MakeDirectory" => Size[v] = 0
        /\ faults' \in 0..MaxFaults
        /\ fileset[Key(v)] \in Filesets
        /\ fileset' = [fileset EXCEPT ![Key(v)] = [@ EXCEPT !.linked = TRUE]]
    BY ClassLeads, RequestAssumption
    DEF LinkFileset, CreateSteps, Continue, Goto, Fault, TypeOK, HandlerInv, Key
  <1>2. /\ fileset' \in [Devices \X Volumes -> Filesets \cup {Absent}]
        /\ fileset'[Key(v)] \in Filesets /\ fileset'[Key(v)].linked
        /\ fileset'[Key(v)].quota = fileset[Key(v)].quota
        /\ \A k \in Devices \X Volumes : k # Key(v) => fileset'[k] = fileset[k]
    BY <1>0 DEF TypeOK, Filesets
  <1>3. TypeOK'
    BY <1>0, <1>2 DEF TypeOK, LinkFileset, Continue, Goto, Steps, CreateSteps, clientVars
  <1>4. UniqueIds'
    <2>1. \A k \in Devices \X Volumes : fileset'[k] # Absent =>
            fileset[k] # Absent /\ fileset'[k].id = fileset[k].id
      BY <1>0, AbsentAssumption DEF TypeOK, Filesets
    <2> QED BY <2>1, IdsFrame
  <1>5. HandlerInv(v)'
    BY <1>0, <1>2, AbsentAssumption
    DEF HandlerInv, TypeOK, LinkFileset, Key, FilesetDone, CreateSteps, DeleteSteps, clientVars
  <1>6. MadeInv(v)'
    BY <1>0, AbsentAssumption DEF MadeInv, LinkFileset, TypeOK, Filesets
  <1>7. IdInv(v)' /\ GoneInv(v)'
    BY <1>0, CreatingInv DEF LinkFileset, clientVars
  <1>8. \A w \in Volumes \ {v} : Same(w)
    BY <1>0 DEF Same, TypeOK, LinkFileset, Continue, Goto, clientVars
  <1>9. Retained
    BY <1>2, AbsentAssumption DEF Retained
  <1> QED BY <1>3, <1>4, <1>5, <1>6, <1>7, <1>8, <1>9 DEF Kept

\* A new attempt records the class it was asked with.
LEMMA StartCreationInv ==
  ASSUME TypeOK, UniqueIds, NEW v \in Volumes, VolumeInv(v), NEW o \in Classes[v],
         StartCreation(v, o)
  PROVE  Kept(v)
  <1> USE DEF VolumeInv
  <1>0. /\ o \in Options /\ Accepted(o) /\ claim[v] = "creating"
        /\ class'[v] = o /\ asked'[v] = asked[v] \cup {o}
        /\ pc'[v] = IF FilesetBased(o) THEN "CreateFileset" ELSE "MakeDirectory"
    BY DEF StartCreation, Goto, TypeOK, Options
  <1>1. TypeOK'
    BY <1>0 DEF TypeOK, StartCreation, Goto, Steps, CreateSteps, storageVars, clientVars
  <1>2. UniqueIds'
    BY DEF UniqueIds, StartCreation, storageVars
  <1>3. HandlerInv(v)'
    BY <1>0 DEF HandlerInv, StartCreation, FilesetDone, storageVars, clientVars,
                CreateSteps, DeleteSteps
  <1>4. MadeInv(v)'
    BY <1>0 DEF MadeInv, StartCreation, storageVars
  <1>5. IdInv(v)' /\ GoneInv(v)'
    BY <1>0, CreatingInv DEF StartCreation, storageVars, clientVars
  <1>6. \A w \in Volumes \ {v} : Same(w)
    BY DEF Same, TypeOK, StartCreation, Goto, storageVars, clientVars
  <1> QED BY <1>1, <1>2, <1>3, <1>4, <1>5, <1>6 DEF Kept

\* A quota that is written changes nothing else, and is not none
\* (controllerserver.go:194-199).
LEMMA QuotaWritten ==
  ASSUME TypeOK, UniqueIds, NEW d \in Devices, NEW v \in Volumes, VolumeInv(v),
         NEW q \in Nat \ {0}, q * KiB < WordSize,
         fileset[<<d, v>>] \in Filesets,
         fileset' = [fileset EXCEPT ![<<d, v>>] = [@ EXCEPT !.quota = q]],
         UNCHANGED <<primary, moved, class, asked, found, dirs, links, claim, volId>>,
         pc' \in [Volumes -> Steps], \A w \in Volumes \ {v} : pc'[w] = pc[w],
         \/ pc'[v] = pc[v] \/ pc'[v] = "idle"
         \/ pc[v] = "SetFilesetQuota" /\ pc'[v] = "MakeDirectory" /\ Key(v) = <<d, v>>,
         faults' \in 0..MaxFaults,
         quotaJobs' \subseteq Devices \X Volumes, overtaken' \subseteq Devices \X Volumes
  PROVE  Kept(v)
  <1> USE DEF VolumeInv
  <1> DEFINE f == [fileset[<<d, v>>] EXCEPT !.quota = q]
  <1>1. /\ f \in Filesets /\ f # Absent /\ f.linked = fileset[<<d, v>>].linked /\ f.quota = q
        /\ f.id = fileset[<<d, v>>].id /\ f.space = fileset[<<d, v>>].space
        /\ f.owner = fileset[<<d, v>>].owner /\ f.inodes = fileset[<<d, v>>].inodes
    BY AbsentAssumption DEF Filesets
  <1>a. fileset' = [fileset EXCEPT ![<<d, v>>] = f]
    OBVIOUS
  <1> HIDE DEF f
  <1>2. /\ \A k \in Devices \X Volumes : k # <<d, v>> => fileset'[k] = fileset[k]
        /\ fileset'[<<d, v>>] = f /\ fileset[<<d, v>>] # Absent
        /\ fileset' \in [Devices \X Volumes -> Filesets \cup {Absent}]
    <2>1. fileset \in [Devices \X Volumes -> Filesets \cup {Absent}]
      BY DEF TypeOK
    <2>2. fileset[<<d, v>>] # Absent
      BY AbsentAssumption
    <2> QED BY <1>a, <1>1, <2>1, <2>2
  <1>c. /\ primary' = primary /\ moved' = moved /\ class' = class /\ asked' = asked
        /\ found' = found /\ dirs' = dirs /\ links' = links /\ claim' = claim
        /\ volId' = volId
    OBVIOUS
  <1>3. TypeOK'
    BY <1>2, <1>c DEF TypeOK
  <1>4. UniqueIds'
    <2>1. \A k \in Devices \X Volumes : fileset'[k] # Absent =>
            fileset[k] # Absent /\ fileset'[k].id = fileset[k].id
      BY <1>1, <1>2
    <2> QED BY <2>1, IdsFrame
  <1>b. \A o : Device(o) \in Devices /\ FilesetDone(v, o) => FilesetDone(v, o)'
    BY <1>1, <1>2 DEF FilesetDone
  <1>5. HandlerInv(v)'
    <2>1. CASE pc[v] \in CreateSteps
      <3>1. Device(class[v]) \in Devices
        BY <2>1, ClassLeads
      <3>2. FilesetDone(v, class[v]) => FilesetDone(v, class[v])'
        BY <1>b, <3>1
      <3>3. fileset[Key(v)] # Absent => /\ fileset'[Key(v)] # Absent
                                        /\ fileset'[Key(v)].linked = fileset[Key(v)].linked
        BY <1>1, <1>2, <3>1 DEF Key
      <3>4. CASE pc'[v] = pc[v]
        BY <2>1, <3>2, <3>3, <3>4 DEF HandlerInv, Key, DirDone, CreateSteps, DeleteSteps
      <3>5. CASE pc'[v] = "idle"
        BY <3>5 DEF HandlerInv, CreateSteps, DeleteSteps
      <3>6. CASE pc[v] = "SetFilesetQuota" /\ pc'[v] = "MakeDirectory" /\ Key(v) = <<d, v>>
        <4>1. FilesetDone(v, class[v])'
          BY <1>1, <1>2, <3>3, <3>6 DEF FilesetDone, HandlerInv, Key
        <4> QED BY <3>6, <4>1 DEF HandlerInv, CreateSteps, DeleteSteps
      <3> QED BY <3>4, <3>5, <3>6
    <2>2. CASE pc[v] \notin CreateSteps
      BY <2>2 DEF HandlerInv, CreateSteps, DeleteSteps
    <2> QED BY <2>1, <2>2
  <1>6. MadeInv(v)'
    BY <1>1, <1>2 DEF MadeInv
  <1>7. IdInv(v)'
    <2> SUFFICES ASSUME claim[v] \in {"bound", "deleting"} PROVE IdInv(v)'
      BY DEF IdInv
    <2>1. \A o \in asked[v] : Device(o) \in Devices
      BY AcceptedLeads DEF TypeOK, MadeInv
    <2>2. \A o : DirDone(v, o)' = DirDone(v, o)
      BY DEF DirDone
    <2>3. IdDevice(v)' = IdDevice(v)
      BY DEF IdDevice
    <2>4. volId[v].fset \in FilesetIds => IdDevice(v) \in Devices
      BY IdLeads, IdAssumption
    <2>5. \A e \in Devices : fileset'[<<e, v>>] # Absent =>
            fileset[<<e, v>>] # Absent /\ fileset'[<<e, v>>].id = fileset[<<e, v>>].id
      BY <1>1, <1>2
    <2> QED BY <1>b, <2>1, <2>2, <2>3, <2>4, <2>5 DEF IdInv
  <1>8. GoneInv(v)'
    <2>1. \A e \in Devices : (fileset'[<<e, v>>] = Absent) = (fileset[<<e, v>>] = Absent)
      BY <1>1, <1>2
    <2>2. Has(v)' = Has(v)
      BY <2>1 DEF Has
    <2>3. \A o \in asked[v] : Device(o) \in Devices
      BY AcceptedLeads DEF TypeOK, MadeInv
    <2> QED BY <2>1, <2>2, <2>3 DEF GoneInv
  <1>9. \A w \in Volumes \ {v} : Same(w)
    BY <1>2 DEF Same
  <1> QED BY <1>3, <1>4, <1>5, <1>6, <1>7, <1>8, <1>9 DEF Kept

\* The quota the driver writes for a volume with a size is one.
LEMMA OwnQuota ==
  ASSUME NEW v \in Volumes, Size[v] # 0
  PROVE  Blocks(Size[v]) \in Nat \ {0} /\ Blocks(Size[v]) * KiB < WordSize
  BY RequestAssumption, RequestFits, BlocksBound DEF KiB

\* No quota on the list is no quota, and only then is one written
\* (controllerserver.go:171-193).
LEMMA ListFilesetQuotaInv ==
  ASSUME TypeOK, UniqueIds, NEW v \in Volumes, VolumeInv(v), ListFilesetQuota(v)
  PROVE  /\ Kept(v) /\ fileset' = fileset
         /\ pc'[v] = "SetFilesetQuota" => fileset[Key(v)].quota = 0
  <1> USE DEF VolumeInv
  <1>0. /\ class[v] \in asked[v] /\ class[v] \in Options /\ Key(v) \in Devices \X Volumes
        /\ claim[v] = "creating" /\ FilesetBased(class[v]) /\ Key(v) = <<Device(class[v]), v>>
        /\ fileset[Key(v)] \in Filesets /\ fileset[Key(v)].linked /\ Size[v] # 0
        /\ claim' = claim /\ SameStorage(v) /\ volId' = volId /\ fileset' = fileset
        /\ primary' = primary /\ moved' = moved /\ class' = class
        /\ pc'[v] \in {"SetFilesetQuota", "MakeDirectory", "idle"}
    BY ClassLeads
    DEF ListFilesetQuota, CreateSteps, Goto, TypeOK, HandlerInv, Key, SameStorage,
        storageVars, clientVars
  <1>1. fileset[Key(v)].quota = 0 <=> ConvertToBytes(fileset[Key(v)].quota) = 0
    <2>1. fileset[Key(v)].quota \in Nat /\ fileset[Key(v)].quota * KiB < WordSize
      BY <1>0, AbsentAssumption DEF MadeInv, Filesets
    <2> QED BY <2>1, ReadsBack DEF KiB
  <1>2. /\ pc'[v] = "SetFilesetQuota" => fileset[Key(v)].quota = 0
        /\ pc'[v] = "MakeDirectory" => fileset[Key(v)].quota # 0
    BY <1>0, <1>1 DEF ListFilesetQuota, Goto, TypeOK
  <1>3. TypeOK'
    BY <1>0 DEF TypeOK, ListFilesetQuota, Goto, Steps, CreateSteps, storageVars, clientVars
  <1>4. UniqueIds'
    BY <1>0 DEF UniqueIds
  <1>5. HandlerInv(v)'
    BY <1>0, <1>2, AbsentAssumption
    DEF HandlerInv, FilesetDone, Key, CreateSteps, DeleteSteps, SameStorage
  <1>6. MadeInv(v)' /\ IdInv(v)'
    BY <1>0, IdFrame
  <1>7. GoneInv(v)'
    BY <1>0, GoneFrame
  <1>8. \A w \in Volumes \ {v} : Same(w)
    BY DEF Same, TypeOK, ListFilesetQuota, Goto, storageVars, clientVars
  <1> QED BY <1>0, <1>2, <1>3, <1>4, <1>5, <1>6, <1>7, <1>8 DEF Kept

\* The write of the quota touches the quota alone, of a fileset that is there.
LEMMA SetFilesetQuotaInv ==
  ASSUME TypeOK, UniqueIds, NEW v \in Volumes, VolumeInv(v), SetFilesetQuota(v)
  PROVE  /\ Kept(v) /\ Size[v] # 0 /\ Key(v) \in Devices \X Volumes
         /\ fileset[Key(v)] \in Filesets
  <1> USE DEF VolumeInv
  <1> DEFINE d == Device(class[v])
  <1>0. /\ d \in Devices /\ Key(v) = <<d, v>> /\ fileset[<<d, v>>] \in Filesets /\ Size[v] # 0
        /\ pc[v] = "SetFilesetQuota" /\ pc'[v] \in {"MakeDirectory", "idle"}
        /\ pc' \in [Volumes -> Steps] /\ faults' \in 0..MaxFaults
        /\ \A w \in Volumes \ {v} : pc'[w] = pc[w]
    BY ClassLeads, RequestAssumption
    DEF SetFilesetQuota, CreateSteps, Continue, Goto, Fault, TypeOK, HandlerInv, Key, Steps
  <1>1. /\ fileset' = [fileset EXCEPT ![<<d, v>>] = [@ EXCEPT !.quota = Blocks(Size[v])]]
        /\ UNCHANGED <<primary, moved, class, asked, found, dirs, links, claim, volId>>
        /\ quotaJobs' = quotaJobs /\ overtaken' = overtaken
    BY <1>0 DEF SetFilesetQuota, clientVars
  <1>2. quotaJobs' \subseteq Devices \X Volumes /\ overtaken' \subseteq Devices \X Volumes
    BY <1>1 DEF TypeOK
  <1> HIDE DEF d
  <1>3. Kept(v)
    BY <1>0, <1>1, <1>2, OwnQuota, QuotaWritten
  <1> QED BY <1>0, <1>3

\* A handler that gives its job up leaves all as it is but the job.
LEMMA AbandonQuotaJobInv ==
  ASSUME TypeOK, UniqueIds, NEW v \in Volumes, VolumeInv(v), AbandonQuotaJob(v)
  PROVE  Kept(v) /\ Size[v] # 0 /\ Key(v) \in Devices \X Volumes
  <1> USE DEF VolumeInv
  <1>0. /\ claim' = claim /\ SameStorage(v) /\ volId' = volId /\ fileset' = fileset
        /\ primary' = primary /\ moved' = moved /\ pc'[v] = "idle" /\ faults' \in 0..MaxFaults
        /\ Size[v] # 0 /\ Key(v) \in Devices \X Volumes
    BY RequestAssumption, ClassLeads
    DEF AbandonQuotaJob, SameStorage, storageVars, clientVars, Goto, Fault, TypeOK, HandlerInv,
        CreateSteps
  <1>1. TypeOK'
    BY <1>0 DEF TypeOK, AbandonQuotaJob, Goto, Steps, storageVars, clientVars
  <1>2. UniqueIds'
    BY <1>0 DEF UniqueIds
  <1>3. HandlerInv(v)'
    BY <1>0 DEF HandlerInv, CreateSteps, DeleteSteps
  <1>4. MadeInv(v)' /\ IdInv(v)'
    BY <1>0, IdFrame
  <1>5. GoneInv(v)'
    BY <1>0, GoneFrame
  <1>6. \A w \in Volumes \ {v} : Same(w)
    BY DEF Same, TypeOK, AbandonQuotaJob, Goto, storageVars, clientVars
  <1> QED BY <1>0, <1>1, <1>2, <1>3, <1>4, <1>5, <1>6 DEF Kept

\* The directory is made at the device of the class.
LEMMA MakeDirectoryInv ==
  ASSUME TypeOK, UniqueIds, NEW v \in Volumes, VolumeInv(v), MakeDirectory(v)
  PROVE  Kept(v)
  <1> USE DEF VolumeInv
  <1> DEFINE new == DirOf(v, class[v])
  <1>0. /\ class[v] \in asked[v] /\ class[v] \in Options /\ Accepted(class[v])
        /\ Device(class[v]) \in Devices /\ claim[v] = "creating"
        /\ pc'[v] \in {"CreateSymLink", "idle"} /\ faults' \in 0..MaxFaults
        /\ FilesetDone(v, class[v])
    BY ClassLeads, RequestAssumption
    DEF MakeDirectory, CreateSteps, Continue, Goto, Fault, TypeOK, HandlerInv
  <1>1. /\ new \in [dev : Devices, base : {o.dir : o \in Options}, vol : Volumes, owner : Owners]
        /\ new.dev = Device(class[v]) /\ new.base = class[v].dir /\ new.vol = v
    <2>1. PICK i \in FilesetIds : TRUE
      BY IdAssumption
    <2> QED BY <1>0, <2>1, MadeFileset DEF DirOf
  <1>2. dirs' = dirs \cup {new} \/ (dirs' = dirs /\ DirDone(v, class[v]))
    <2>1. ASSUME NEW x \in dirs, [x EXCEPT !.owner = new.owner] = new
          PROVE  x.dev = new.dev /\ x.base = new.base /\ x.vol = new.vol
      <3>1. x \in [dev : Devices, base : {o.dir : o \in Options}, vol : Volumes, owner : Owners]
        BY DEF TypeOK
      <3> HIDE DEF new
      <3> QED BY <2>1, <3>1
    <2> QED BY <1>1, <2>1 DEF MakeDirectory, DirDone
  <1>3. DirDone(v, class[v])'
    BY <1>1, <1>2 DEF DirDone, MakeDirectory
  <1>4. TypeOK'
    BY <1>0, <1>1, <1>2 DEF TypeOK, MakeDirectory, Continue, Goto, Steps, CreateSteps, clientVars
  <1>5. UniqueIds'
    BY DEF UniqueIds, MakeDirectory
  <1>6. HandlerInv(v)'
    BY <1>0, <1>3
    DEF HandlerInv, FilesetDone, DirDone, MakeDirectory, CreateSteps, DeleteSteps, clientVars
  <1>7. MadeInv(v)'
    BY <1>0, <1>2 DEF MadeInv, MakeDirectory
  <1>8. IdInv(v)' /\ GoneInv(v)'
    BY <1>0, CreatingInv DEF MakeDirectory, clientVars
  <1>9. \A w \in Volumes \ {v} : Same(w)
    BY <1>0, <1>1, <1>2 DEF Same, TypeOK, MakeDirectory, Continue, Goto, clientVars
  <1> QED BY <1>4, <1>5, <1>6, <1>7, <1>8, <1>9 DEF Kept

\* The last step of a creation finds its parts behind it, and writes the ID.
LEMMA CreateSymLinkInv ==
  ASSUME TypeOK, UniqueIds, NEW v \in Volumes, VolumeInv(v), CreateSymLink(v)
  PROVE  Kept(v)
  <1> USE DEF VolumeInv
  <1>0. PICK o \in Options :
          /\ o = class[v] /\ o \in asked[v] /\ Accepted(o) /\ claim[v] = "creating"
          /\ FilesetDone(v, o) /\ DirDone(v, o)
    BY ClassLeads DEF CreateSymLink, CreateSteps, HandlerInv
  <1> DEFINE new == LinkOf(v, o)
  <1>1. /\ o.fs \in Names /\ ClusterId(o) \in Clusters /\ Mounted[o.fs] \in Devices
    BY <1>0, AcceptedLeads
  <1>2. /\ new \in [home : Primaries, vol : Volumes, fs : Names, base : {p.dir : p \in Options}]
        /\ new.home = primary /\ new.vol = v /\ new.fs = o.fs /\ new.base = o.dir
    BY <1>0, <1>1 DEF LinkOf, TypeOK
  <1>3. /\ links' = links \cup {new} \/ links' = links
        /\ \E l \in links' : l.home = primary /\ l.vol = v
    BY <1>0, <1>2 DEF CreateSymLink
  <1>4. /\ VolId(v, o, v) \in [cluster : Clusters, uuid : Devices, home : Primaries,
                               fset : {v, Absent}]
        /\ VolId(v, o, v).home = primary /\ VolId(v, o, v).cluster = ClusterId(o)
        /\ VolId(v, o, v).uuid = Mounted[o.fs]
        /\ (VolId(v, o, v).fset = Absent) = ~FilesetBased(o)
    BY <1>0, <1>1, IdAssumption DEF VolId, TypeOK
  <1>5. /\ pc'[v] = "idle" /\ faults' \in 0..MaxFaults
        /\ \/ claim'[v] = "bound" /\ volId'[v] = VolId(v, o, v)
           \/ claim' = claim /\ volId' = volId
    BY <1>0, RequestAssumption DEF CreateSymLink, Goto, Fault, TypeOK, clientVars
  <1>6. TypeOK'
    <2>1. claim' \in [Volumes -> {"creating", "bound", "deleting", "gone"}]
      BY DEF CreateSymLink, TypeOK, clientVars
    <2>2. volId' \in [Volumes -> {Absent} \cup
            [cluster : Clusters, uuid : Devices, home : Primaries,
             fset : Volumes \cup FilesetIds \cup {Absent}]]
      BY <1>0, <1>4 DEF CreateSymLink, TypeOK, clientVars
    <2> QED BY <1>2, <1>3, <1>5, <2>1, <2>2 DEF TypeOK, CreateSymLink, Goto, Steps
  <1>7. UniqueIds'
    BY DEF UniqueIds, CreateSymLink
  <1>8. HandlerInv(v)'
    BY <1>5 DEF HandlerInv, CreateSteps, DeleteSteps
  <1>9. MadeInv(v)'
    BY <1>0, <1>2, <1>3 DEF MadeInv, CreateSymLink
  <1>10. IdInv(v)' /\ GoneInv(v)'
    <2>1. CASE claim' = claim
      BY <1>0, <1>2, <1>3, <2>1, CreatingInv DEF CreateSymLink
    <2>2. CASE claim'[v] = "bound" /\ volId'[v] = VolId(v, o, v)
      <3>1. FilesetDone(v, o)' /\ DirDone(v, o)'
        BY <1>0 DEF FilesetDone, DirDone, CreateSymLink
      <3>2. volId'[v].fset \notin FilesetIds
        BY <1>4, <2>2, IdAssumption
      <3>3. \E l \in links' : l.home = volId'[v].home /\ l.vol = v
        BY <1>3, <1>4, <2>2
      <3>4. o \in asked'[v] /\ primary' = primary /\ moved' = moved
        BY <1>0 DEF CreateSymLink
      <3>5. /\ volId'[v] \in [cluster : Clusters, uuid : Devices, home : Primaries,
                              fset : {v, Absent} \cup FilesetIds]
            /\ volId'[v].cluster = ClusterId(o) /\ volId'[v].uuid = Mounted[o.fs]
            /\ (volId'[v].fset = Absent) = ~FilesetBased(o) /\ volId'[v].home = primary
        BY <1>4, <2>2
      <3>6. IdInv(v)'
        BY <2>2, <3>1, <3>2, <3>3, <3>4, <3>5 DEF IdInv
      <3>7. GoneInv(v)'
        BY <1>2, <1>3, <2>2, <3>4, <3>5 DEF GoneInv
      <3> QED BY <3>6, <3>7
    <2> QED BY <1>5, <2>1, <2>2
  <1>11. \A w \in Volumes \ {v} : Same(w)
    BY <1>2, <1>3 DEF Same, TypeOK, CreateSymLink, Goto, clientVars
  <1> QED BY <1>6, <1>7, <1>8, <1>9, <1>10, <1>11 DEF Kept

----------------------------------------------------------------------------
(* Deletion.                                                               *)

\* Releasing a claim leaves the storage as it is.
LEMMA ReleaseInv ==
  ASSUME TypeOK, UniqueIds, NEW v \in Volumes, VolumeInv(v), Release(v)
  PROVE  Kept(v)
  <1> USE DEF VolumeInv
  <1>0. /\ claim[v] = "bound" /\ claim'[v] = "deleting" /\ SameStorage(v)
        /\ pc' = pc /\ volId' = volId /\ fileset' = fileset /\ links' = links
        /\ primary' = primary /\ moved' = moved
    BY DEF Release, TypeOK, SameStorage, handlerVars, storageVars
  <1>1. pc[v] = "idle"
    BY <1>0 DEF HandlerInv, TypeOK, Steps
  <1>2. TypeOK'
    BY DEF TypeOK, Release, handlerVars, storageVars
  <1>3. UniqueIds'
    BY <1>0 DEF UniqueIds
  <1>4. HandlerInv(v)'
    BY <1>0, <1>1 DEF HandlerInv, CreateSteps, DeleteSteps
  <1>5. MadeInv(v)' /\ IdInv(v)'
    BY <1>0, IdFrame
  <1>6. GoneInv(v)'
    <2>1. \A o : asked[v] = {o} /\ FilesetBased(o) => fileset[<<Device(o), v>>] # Absent
      BY <1>0 DEF IdInv, FilesetDone
    <2>2. \E l \in links : l.vol = v
      BY <1>0 DEF IdInv
    <2> QED BY <1>0, <1>1, <2>1, <2>2 DEF GoneInv, SameStorage
  <1>7. \A w \in Volumes \ {v} : Same(w)
    BY DEF Same, TypeOK, Release, handlerVars, storageVars
  <1> QED BY <1>2, <1>3, <1>4, <1>5, <1>6, <1>7 DEF Kept

\* A deletion starts with nothing gone.
LEMMA StartDeletionInv ==
  ASSUME TypeOK, UniqueIds, NEW v \in Volumes, VolumeInv(v), StartDeletion(v)
  PROVE  Kept(v)
  <1> USE DEF VolumeInv
  <1>0. /\ claim[v] = "deleting" /\ claim' = claim /\ SameStorage(v)
        /\ volId' = volId /\ fileset' = fileset /\ primary' = primary /\ moved' = moved
        /\ volId[v].fset \in {v, Absent} \cup FilesetIds
    BY DEF StartDeletion, IdInv, SameStorage, storageVars, clientVars
  <1>1. \/ volId[v].fset = Absent /\ pc'[v] = "DeleteDirectory"
        \/ volId[v].fset = v /\ pc'[v] = "DeleteFileset" /\ found'[v] = v
        \/ volId[v].fset \in FilesetIds /\ pc'[v] = "LookUp"
    BY <1>0, IdAssumption DEF StartDeletion, Goto, TypeOK
  <1>2. TypeOK'
    BY <1>0 DEF TypeOK, StartDeletion, Goto, Steps, DeleteSteps, storageVars, clientVars
  <1>3. UniqueIds'
    BY <1>0 DEF UniqueIds
  <1>4. HandlerInv(v)'
    BY <1>0, <1>1, IdAssumption DEF HandlerInv, CreateSteps, DeleteSteps
  <1>5. MadeInv(v)' /\ IdInv(v)'
    BY <1>0, IdFrame
  <1>6. GoneInv(v)'
    BY <1>0, <1>1, GoneFrame
  <1>7. \A w \in Volumes \ {v} : Same(w)
    BY DEF Same, TypeOK, StartDeletion, Goto, storageVars, clientVars
  <1> QED BY <1>2, <1>3, <1>4, <1>5, <1>6, <1>7 DEF Kept

\* What the fileset id in the ID names now is compared with the volume.
LEMMA LookUpInv ==
  ASSUME TypeOK, UniqueIds, NEW v \in Volumes, VolumeInv(v), LookUp(v)
  PROVE  Kept(v)
  <1> USE DEF VolumeInv
  <1>0. /\ claim[v] = "deleting" /\ claim' = claim /\ SameStorage(v)
        /\ volId' = volId /\ fileset' = fileset /\ primary' = primary /\ moved' = moved
        /\ volId[v].fset \in FilesetIds /\ volId[v].fset # Absent
    BY IdAssumption
    DEF LookUp, HandlerInv, DeleteSteps, SameStorage, storageVars, clientVars
  <1> DEFINE d == IdDevice(v)
             i == volId[v].fset
  <1>1. \/ pc'[v] = "DeleteFileset" /\ found'[v] = v
        \/ pc'[v] = "DeleteSymLnk" /\ NameFromId(d, i) # v
    BY DEF LookUp, IsOwn, Goto, TypeOK
  <1>2. PICK o \in asked[v] : o \in Options /\ FilesetBased(o) /\ d = Device(o) /\ d \in Devices
    BY <1>0, IdLeads
  <1>3. NameFromId(d, i) # v => fileset[<<d, v>>] = Absent
    <2> SUFFICES ASSUME fileset[<<d, v>>] # Absent PROVE NameFromId(d, i) = v
      OBVIOUS
    <2>1. fileset[<<d, v>>].id = i
      BY <1>0 DEF IdInv
    <2> DEFINE Named(w) == fileset[<<d, w>>] # Absent /\ fileset[<<d, w>>].id = i
    <2>2. \A w \in Volumes : Named(w) => w = v
      BY <1>2, <2>1 DEF UniqueIds
    <2>3. NameFromId(d, i) = CHOOSE w \in Volumes : Named(w)
      BY <2>1 DEF NameFromId
    <2>4. Named(v)
      BY <2>1
    <2> HIDE DEF Named
    <2> QED BY <2>2, <2>3, <2>4
  <1>4. pc'[v] = "DeleteSymLnk" =>
          \A p \in asked[v] : asked[v] = {p} => ~Has(v)
    BY <1>0, <1>1, <1>2, <1>3 DEF GoneInv
  <1>5. TypeOK'
    BY <1>0 DEF TypeOK, LookUp, IsOwn, Goto, Steps, DeleteSteps, storageVars, clientVars
  <1>6. UniqueIds'
    BY <1>0 DEF UniqueIds
  <1>7. HandlerInv(v)'
    BY <1>0, <1>1 DEF HandlerInv, CreateSteps, DeleteSteps
  <1>8. MadeInv(v)' /\ IdInv(v)'
    BY <1>0, IdFrame
  <1>9. GoneInv(v)'
    BY <1>0, <1>4, GoneFrame
  <1>10. \A w \in Volumes \ {v} : Same(w)
    BY DEF Same, TypeOK, LookUp, Goto, storageVars, clientVars
  <1> QED BY <1>5, <1>6, <1>7, <1>8, <1>9, <1>10 DEF Kept

\* The fileset that goes is that of the volume.
LEMMA DeleteFilesetInv ==
  ASSUME TypeOK, UniqueIds, NEW v \in Volumes, VolumeInv(v), DeleteFileset(v)
  PROVE  Kept(v)
  <1> USE DEF VolumeInv
  <1> DEFINE d == IdDevice(v)
  <1>a. found[v] = v /\ claim[v] = "deleting" /\ volId[v].fset # Absent
    BY DEF DeleteFileset, HandlerInv, DeleteSteps
  <1>b. fileset' = [fileset EXCEPT ![<<d, v>>] = Absent]
    BY <1>a DEF DeleteFileset
  <1> DEFINE InIt(x) == x.dev = d /\ x.base = "" /\ x.vol = v
  <1>c. dirs' = {x \in dirs : ~InIt(x)}
    BY <1>a DEF DeleteFileset
  <1>f. /\ \A x : x \in dirs' <=> x \in dirs /\ ~InIt(x)
        /\ \A x : InIt(x) => x.vol = v
    BY <1>c
  <1>d. /\ claim' = claim /\ asked' = asked /\ class' = class /\ found' = found
        /\ volId' = volId /\ links' = links /\ primary' = primary /\ moved' = moved
        /\ quotaJobs' = quotaJobs /\ overtaken' = overtaken
        /\ Continue(v, "DeleteSymLnk")
    BY DEF DeleteFileset, clientVars
  <1>e. /\ pc'[v] \in {"DeleteSymLnk", "idle"} /\ faults' \in 0..MaxFaults
        /\ \A w \in Volumes \ {v} : pc'[w] = pc[w]
        /\ pc' \in [Volumes -> Steps]
    BY <1>d, RequestAssumption DEF Continue, Goto, Fault, TypeOK, Steps, DeleteSteps
  <1>1. PICK o \in asked[v] :
          /\ o \in Options /\ FilesetBased(o) /\ d = Device(o) /\ d \in Devices
          /\ volId[v].cluster = ClusterId(o) /\ volId[v].uuid = Mounted[o.fs]
          /\ (volId[v].fset = Absent) = ~FilesetBased(o)
    BY <1>a, <1>d, <1>e, IdLeads
  <1>2. /\ \A k \in Devices \X Volumes : k # <<d, v>> => fileset'[k] = fileset[k]
        /\ fileset'[<<d, v>>] = Absent
    BY <1>b, <1>1 DEF TypeOK
  <1>3. TypeOK'
    BY <1>b, <1>c, <1>d, <1>e, <1>1 DEF TypeOK
  <1>4. UniqueIds'
    <2>1. \A k \in Devices \X Volumes : fileset'[k] # Absent =>
            fileset[k] # Absent /\ fileset'[k].id = fileset[k].id
      BY <1>2
    <2> QED BY <2>1, IdsFrame
  <1>5. HandlerInv(v)'
    BY <1>a, <1>d, <1>e DEF HandlerInv, CreateSteps, DeleteSteps
  <1>6. MadeInv(v)'
    BY <1>c, <1>d, <1>2 DEF MadeInv
  <1>7. IdInv(v)'
    <2>1. IdDevice(v)' = d
      BY <1>a, <1>d, <1>e DEF IdDevice
    <2> QED BY <1>a, <1>d, <1>e, <1>1, <1>2, <2>1 DEF IdInv
  <1>8. asked[v] = {o} => ~Has(v)'
    <2> SUFFICES ASSUME asked[v] = {o} PROVE ~Has(v)'
      OBVIOUS
    <2>1. \A e \in Devices : fileset'[<<e, v>>] = Absent
      BY <1>1, <1>2 DEF MadeInv
    <2>2. \A x \in dirs : x.vol = v => InIt(x)
      <3>1. \A x \in dirs : x.vol = v => x = DirOf(v, o)
        BY <1>1 DEF MadeInv
      <3>2. InIt(DirOf(v, o))
        BY <1>1 DEF DirOf, FilesetBased
      <3> QED BY <3>1, <3>2
    <2> HIDE DEF InIt
    <2> QED BY <1>f, <2>1, <2>2 DEF Has
  <1>9. GoneInv(v)'
    BY <1>a, <1>d, <1>e, <1>1, <1>8 DEF GoneInv
  <1>10. \A w \in Volumes \ {v} : Same(w)
    <2> HIDE DEF InIt
    <2> QED BY <1>d, <1>e, <1>f, <1>2 DEF Same
  <1> QED BY <1>3, <1>4, <1>5, <1>6, <1>7, <1>9, <1>10 DEF Kept

\* The directory of a lightweight volume goes before its symlink.
LEMMA DeleteDirectoryInv ==
  ASSUME TypeOK, UniqueIds, NEW v \in Volumes, VolumeInv(v), DeleteDirectory(v)
  PROVE  Kept(v)
  <1> USE DEF VolumeInv
  <1> DEFINE target == {x \in dirs : \E l \in IdLinks(v) :
                          x.dev = Mounted[l.fs] /\ x.base = l.base /\ x.vol = v}
  <1>0. /\ claim[v] = "deleting" /\ claim' = claim /\ asked' = asked
        /\ volId' = volId /\ links' = links /\ primary' = primary /\ moved' = moved
        /\ fileset' = fileset /\ volId[v].fset = Absent
        /\ dirs' = dirs \ target
        /\ pc'[v] \in {"DeleteSymLnk", "idle"} /\ faults' \in 0..MaxFaults
    BY RequestAssumption
    DEF DeleteDirectory, HandlerInv, DeleteSteps, clientVars, Continue, Goto, Fault, TypeOK
  <1>1. PICK o \in asked[v] :
          /\ o \in Options /\ Accepted(o) /\ ~FilesetBased(o)
          /\ volId[v].cluster = ClusterId(o) /\ volId[v].uuid = Mounted[o.fs]
    BY <1>0, IdLeads
  <1>2. TypeOK'
    BY <1>0 DEF TypeOK, DeleteDirectory, Continue, Goto, Steps, DeleteSteps
  <1>3. UniqueIds'
    BY <1>0 DEF UniqueIds
  <1>4. HandlerInv(v)'
    BY <1>0 DEF HandlerInv, CreateSteps, DeleteSteps
  <1>5. MadeInv(v)'
    BY <1>0 DEF MadeInv
  <1>6. IdInv(v)'
    BY <1>0 DEF IdInv, IdDevice
  <1>7. asked[v] = {o} /\ ~moved => ~Has(v)'
    <2> SUFFICES ASSUME asked[v] = {o}, ~moved PROVE ~Has(v)'
      OBVIOUS
    <2>1. \A e \in Devices : fileset[<<e, v>>] = Absent
      BY <1>1 DEF MadeInv
    <2>2. CASE \A l \in links : l.vol # v
      BY <1>0, <2>1, <2>2 DEF Has, GoneInv
    <2>3. ASSUME NEW l \in links, l.vol = v PROVE ~Has(v)'
      <3>1. l \in IdLinks(v) /\ l.fs = o.fs /\ l.base = o.dir
        BY <1>0, <2>3 DEF IdLinks, MadeInv, GoneInv
      <3>2. \A x \in dirs : x.vol = v => x.dev = Mounted[o.fs] /\ x.base = o.dir
        BY <1>1 DEF MadeInv, DirOf, Device
      <3>3. \A x \in dirs : x.vol = v => x \in target
        BY <3>1, <3>2
      <3> QED BY <1>0, <2>1, <3>3 DEF Has
    <2> QED BY <2>2, <2>3
  <1>8. GoneInv(v)'
    BY <1>0, <1>1, <1>7 DEF GoneInv
  <1>9. \A w \in Volumes \ {v} : Same(w)
    BY <1>0 DEF Same, TypeOK, DeleteDirectory, Continue, Goto
  <1> QED BY <1>2, <1>3, <1>4, <1>5, <1>6, <1>8, <1>9 DEF Kept

\* With the symlink, nothing of the volume is left.
LEMMA DeleteSymLnkInv ==
  ASSUME TypeOK, UniqueIds, NEW v \in Volumes, VolumeInv(v), DeleteSymLnk(v)
  PROVE  Kept(v)
  <1> USE DEF VolumeInv
  <1>0. /\ claim[v] = "deleting" /\ claim'[v] \in {"deleting", "gone"} /\ asked' = asked
        /\ volId' = volId /\ dirs' = dirs /\ primary' = primary /\ moved' = moved
        /\ fileset' = fileset /\ pc[v] = "DeleteSymLnk" /\ pc'[v] = "idle"
        /\ links' = links \ IdLinks(v) /\ faults' \in 0..MaxFaults
    BY RequestAssumption DEF DeleteSymLnk, HandlerInv, DeleteSteps, Goto, Fault, TypeOK
  <1>1. TypeOK'
    BY <1>0 DEF TypeOK, DeleteSymLnk, Goto, Steps
  <1>2. UniqueIds'
    BY <1>0 DEF UniqueIds
  <1>3. HandlerInv(v)'
    BY <1>0 DEF HandlerInv, CreateSteps, DeleteSteps
  <1>4. MadeInv(v)'
    BY <1>0 DEF MadeInv
  <1>5. IdInv(v)'
    BY <1>0 DEF IdInv, IdDevice
  <1>6. Has(v)' = Has(v)
    BY <1>0 DEF Has
  <1>7. \A o \in asked[v] : asked[v] = {o} =>
          /\ FilesetBased(o) \/ ~moved => ~Has(v)
          /\ ~moved => \A l \in links' : l.vol # v
    BY <1>0 DEF GoneInv, IdLinks
  <1>8. GoneInv(v)'
    BY <1>0, <1>6, <1>7 DEF GoneInv
  <1>9. \A w \in Volumes \ {v} : Same(w)
    BY <1>0 DEF Same, TypeOK, DeleteSymLnk, Goto, IdLinks
  <1> QED BY <1>1, <1>2, <1>3, <1>4, <1>5, <1>8, <1>9 DEF Kept

----------------------------------------------------------------------------
(* Failures and other people.                                              *)

\* A handler that errs leaves what it has made, whether the call took effect or not.
LEMMA CallFailsInv ==
  ASSUME TypeOK, UniqueIds, NEW v \in Volumes, VolumeInv(v), CallFails(v)
  PROVE  Kept(v)
  <1> USE DEF VolumeInv
  <1>0. /\ claim' = claim /\ SameStorage(v) /\ volId' = volId /\ fileset' = fileset
        /\ primary' = primary /\ moved' = moved /\ pc'[v] = "idle" /\ faults' \in 0..MaxFaults
    BY RequestAssumption
    DEF CallFails, SameStorage, storageVars, clientVars, Goto, Fault, TypeOK
  <1>1. TypeOK'
    BY <1>0 DEF TypeOK, CallFails, Goto, Steps, storageVars, clientVars
  <1>2. UniqueIds'
    BY <1>0 DEF UniqueIds
  <1>3. HandlerInv(v)'
    BY <1>0 DEF HandlerInv, CreateSteps, DeleteSteps
  <1>4. MadeInv(v)' /\ IdInv(v)'
    BY <1>0, IdFrame
  <1>5. GoneInv(v)'
    BY <1>0, GoneFrame
  <1>6. \A w \in Volumes \ {v} : Same(w)
    BY DEF Same, TypeOK, CallFails, Goto, storageVars, clientVars
  <1> QED BY <1>1, <1>2, <1>3, <1>4, <1>5, <1>6 DEF Kept

\* Another primary filesystem leaves the storage as it is.
LEMMA RestartInv ==
  ASSUME PlacementInv, NEW p \in Primaries, Restart(p)
  PROVE  PlacementInv'
  <1> USE DEF PlacementInv
  <1>1. TypeOK'
    BY RequestAssumption DEF TypeOK, Restart, Fault, Steps, storageVars, clientVars
  <1>2. UniqueIds'
    BY DEF UniqueIds, Restart, storageVars
  <1>3. ASSUME NEW v \in Volumes
        PROVE  HandlerInv(v)' /\ MadeInv(v)' /\ IdInv(v)' /\ GoneInv(v)'
    <2>0. /\ claim' = claim /\ SameStorage(v) /\ volId' = volId /\ pc'[v] = "idle"
          /\ moved' = (moved \/ p # primary) /\ primary' = p
      BY DEF Restart, SameStorage, storageVars, clientVars
    <2>1. HandlerInv(v)'
      BY <2>0 DEF HandlerInv, CreateSteps, DeleteSteps
    <2>2. MadeInv(v)' /\ IdInv(v)'
      BY <2>0, IdFrame
    <2>3. GoneInv(v)'
      <3>1. CASE moved'
        <4>1. Has(v)' = Has(v)
          BY <2>0 DEF Has, SameStorage
        <4>2. \A o \in asked[v] : Device(o) \in Devices
          BY AcceptedLeads DEF TypeOK, MadeInv
        <4> QED BY <2>0, <3>1, <4>1, <4>2 DEF GoneInv, SameStorage
      <3>2. CASE ~moved'
        <4>1. moved' = moved /\ primary' = primary
          BY <2>0, <3>2 DEF TypeOK
        <4> QED BY <2>0, <4>1, GoneFrame
      <3> QED BY <3>1, <3>2
    <2> QED BY <2>1, <2>2, <2>3
  <1>4. QuotaInv'
    <2>1. /\ pc' = [v \in Volumes |-> "idle"] /\ fileset' = fileset
          /\ quotaJobs' = quotaJobs /\ overtaken' = overtaken
      BY DEF Restart, storageVars
    <2>2. \A k \in Devices \X Volumes : OnItsWay(k)' => OnItsWay(k)
      BY <2>1 DEF OnItsWay
    <2> QED BY <2>1, <2>2 DEF QuotaInv
  <1> QED BY <1>1, <1>2, <1>3, <1>4

\* A quota set by others leaves all else as it is.
LEMMA AdminSetsQuotaInv ==
  ASSUME TypeOK, UniqueIds, NEW d \in Devices, NEW v \in Volumes, NEW q \in ForeignQuotas,
         VolumeInv(v), AdminSetsQuota(<<d, v>>, q)
  PROVE  Kept(v) /\ fileset[<<d, v>>] \in Filesets
  <1>1. /\ UNCHANGED <<primary, moved, pc, class, asked, found, dirs, links, claim, volId>>
        /\ faults' \in 0..MaxFaults /\ fileset[<<d, v>>] \in Filesets
        /\ q \in Nat \ {0} /\ q * KiB < WordSize
        /\ fileset' = [fileset EXCEPT ![<<d, v>>] = [@ EXCEPT !.quota = q]]
        /\ quotaJobs' = quotaJobs
    BY RequestAssumption DEF AdminSetsQuota, handlerVars, clientVars, Fault, TypeOK
  <1>2. /\ pc' \in [Volumes -> Steps] /\ quotaJobs' \subseteq Devices \X Volumes
        /\ overtaken' \subseteq Devices \X Volumes
    BY <1>1 DEF TypeOK, AdminSetsQuota
  <1> QED BY <1>1, <1>2, QuotaWritten

\* So does a write that comes late.
LEMMA LateQuotaJobInv ==
  ASSUME TypeOK, UniqueIds, QuotaInv, NEW d \in Devices, NEW v \in Volumes,
         VolumeInv(v), LateQuotaJob(<<d, v>>)
  PROVE  Kept(v) /\ Size[v] # 0
  <1>1. /\ UNCHANGED <<primary, moved, pc, class, asked, found, dirs, links, claim, volId>>
        /\ faults' = faults /\ quotaJobs' = quotaJobs \ {<<d, v>>} /\ overtaken' = overtaken
        /\ Size[v] # 0
    BY DEF LateQuotaJob, handlerVars, clientVars, QuotaInv
  <1>2. /\ pc' \in [Volumes -> Steps] /\ quotaJobs' \subseteq Devices \X Volumes
        /\ overtaken' \subseteq Devices \X Volumes /\ faults' \in 0..MaxFaults
    BY <1>1 DEF TypeOK
  <1>3. CASE fileset[<<d, v>>] = Absent
    <2>1. fileset' = fileset
      BY <1>3 DEF LateQuotaJob
    <2>2. \A w \in Volumes : Same(w)
      BY <1>1, <2>1 DEF Same
    <2>3. TypeOK' /\ UniqueIds'
      BY <1>1, <1>2, <2>1 DEF TypeOK, UniqueIds
    <2> QED BY <1>1, <2>2, <2>3, SameKeeps DEF Kept
  <1>4. CASE fileset[<<d, v>>] # Absent
    <2>1. /\ fileset' = [fileset EXCEPT ![<<d, v>>] = [@ EXCEPT !.quota = Blocks(Size[v])]]
          /\ fileset[<<d, v>>] \in Filesets
      BY <1>4 DEF LateQuotaJob, TypeOK
    <2> QED BY <1>1, <1>2, <2>1, OwnQuota, QuotaWritten
  <1> QED BY <1>3, <1>4

----------------------------------------------------------------------------
(* The invariant.                                                          *)

\* Nothing is there at the beginning but volumes of an earlier release.
LEMMA InitInv ==
  ASSUME Init
  PROVE  PlacementInv
  <1> DEFINE o == LegacyClass
             i == CHOOSE j \in FilesetIds : TRUE
  <1>1. PICK old \in {{}} \cup {{v} : v \in Legacy} : InitOf(old, o)
    BY DEF Init
  <1>2. i \in FilesetIds /\ i # Absent
    BY IdAssumption
  <1>3. ASSUME old # {}
        PROVE  /\ o \in Options /\ Accepted(o) /\ FilesetBased(o)
               /\ \E u \in Volumes : old = {u}
    BY <1>1, <1>3, RequestAssumption, LegacyAssumption DEF Options
  <1> HIDE DEF o, i
  <1> DEFINE f(v) == [FilesetOf(v, o, i) EXCEPT !.linked = TRUE, !.quota = Blocks(Size[v])]
  <1>4. ASSUME NEW v \in old
        PROVE  /\ f(v) \in Filesets /\ f(v) # Absent
               /\ f(v).id = i /\ f(v).linked = TRUE /\ f(v).quota = Blocks(Size[v])
               /\ f(v).quota * KiB < WordSize /\ (Size[v] # 0 => f(v).quota # 0)
               /\ f(v).space = InodeSpace(o) /\ f(v).owner = FilesetOwner(o)
               /\ f(v).inodes = InodeLimit(o, Device(o), Size[v])
    <2>1. v \in Volumes
      BY <1>3
    <2>2. /\ Size[v] \in Nat /\ Blocks(Size[v]) \in Nat /\ Blocks(Size[v]) * KiB < WordSize
          /\ Size[v] # 0 => Blocks(Size[v]) # 0
      BY <2>1, RequestAssumption, RequestFits, BlocksBound DEF KiB
    <2>3. FilesetOf(v, o, i) \in Filesets
      BY <1>2, <1>3, <2>1, MadeFileset
    <2>4. /\ f(v) \in Filesets /\ f(v).linked = TRUE /\ f(v).quota = Blocks(Size[v])
          /\ f(v).id = FilesetOf(v, o, i).id /\ f(v).space = FilesetOf(v, o, i).space
          /\ f(v).owner = FilesetOf(v, o, i).owner /\ f(v).inodes = FilesetOf(v, o, i).inodes
      BY <2>2, <2>3 DEF Filesets
    <2> HIDE DEF f
    <2> QED BY <2>2, <2>4, AbsentAssumption DEF FilesetOf
  <1> DEFINE at(k) == IF k[1] = Device(o) /\ k[2] \in old THEN f(k[2]) ELSE Absent
  <1>5. fileset = [k \in Devices \X Volumes |-> at(k)]
    BY <1>1 DEF InitOf, i
  <1> HIDE DEF f
  <1>6. \A d \in Devices, v \in Volumes :
          fileset[<<d, v>>] = IF d = Device(o) /\ v \in old THEN f(v) ELSE Absent
    BY <1>5
  <1>7. /\ dirs = {DirOf(v, o) : v \in old} /\ links = {LinkOf(v, o) : v \in old}
        /\ claim = [v \in Volumes |-> IF v \in old THEN "bound" ELSE "creating"]
        /\ asked = [v \in Volumes |-> IF v \in old THEN {o} ELSE {}]
        /\ volId = [v \in Volumes |-> IF v \in old THEN VolId(v, o, i) ELSE Absent]
    BY <1>1 DEF InitOf, i
  <1>8. /\ primary \in Primaries /\ moved = FALSE /\ faults = 0
        /\ pc = [v \in Volumes |-> "idle"] /\ class = [v \in Volumes |-> Absent]
        /\ found = [v \in Volumes |-> Absent] /\ quotaJobs = {} /\ overtaken = {}
    BY DEF Init
  <1>9. TypeOK
    <2>1. fileset \in [Devices \X Volumes -> Filesets \cup {Absent}]
      <3>1. \A k \in Devices \X Volumes : at(k) \in Filesets \cup {Absent}
        BY <1>4
      <3> HIDE DEF at
      <3> QED BY <1>5, <3>1
    <2>2. ASSUME NEW v \in old
          PROVE  /\ DirOf(v, o) \in [dev : Devices, base : {p.dir : p \in Options},
                                     vol : Volumes, owner : Owners]
                 /\ LinkOf(v, o) \in [home : Primaries, vol : Volumes, fs : Names,
                                      base : {p.dir : p \in Options}]
                 /\ VolId(v, o, i) \in [cluster : Clusters, uuid : Devices, home : Primaries,
                                        fset : Volumes \cup FilesetIds \cup {Absent}]
      BY <1>2, <1>3, <1>8, AcceptedLeads, MadeFileset DEF DirOf, LinkOf, VolId
    <2>3. asked \in [Volumes -> SUBSET Options]
      BY <1>3, <1>7
    <2>4. faults \in 0..MaxFaults
      BY <1>8, RequestAssumption
    <2> QED BY <1>7, <1>8, <2>1, <2>2, <2>3, <2>4 DEF TypeOK, Steps
  <1>10. UniqueIds
    BY <1>3, <1>6 DEF UniqueIds
  <1>11. ASSUME NEW v \in Volumes
         PROVE  HandlerInv(v) /\ MadeInv(v) /\ IdInv(v) /\ GoneInv(v)
    <2>1. pc[v] = "idle" /\ moved = FALSE
      BY <1>8
    <2>2. HandlerInv(v)
      BY <2>1 DEF HandlerInv, CreateSteps, DeleteSteps
    <2>3. CASE v \notin old
      <3>1. claim[v] = "creating" /\ asked[v] = {}
        BY <1>7, <2>3
      <3>2. /\ \A d \in Devices : fileset[<<d, v>>] = Absent
            /\ \A x \in dirs : x.vol # v
            /\ \A l \in links : l.vol # v
        BY <1>6, <1>7, <2>3 DEF DirOf, LinkOf
      <3> QED BY <2>2, <3>1, <3>2 DEF MadeInv, IdInv, GoneInv
    <2>4. CASE v \in old
      <3>1. /\ old = {v} /\ claim[v] = "bound" /\ asked[v] = {o}
            /\ dirs = {DirOf(v, o)} /\ links = {LinkOf(v, o)} /\ volId[v] = VolId(v, o, i)
        BY <1>3, <1>7, <2>4
      <3>2. /\ Accepted(o) /\ FilesetBased(o) /\ Device(o) \in Devices
            /\ fileset[<<Device(o), v>>] = f(v)
            /\ \A d \in Devices : d # Device(o) => fileset[<<d, v>>] = Absent
        BY <1>3, <1>6, <2>4, AcceptedLeads
      <3>3. /\ LinkOf(v, o).home = primary /\ LinkOf(v, o).vol = v
            /\ LinkOf(v, o).fs = o.fs /\ LinkOf(v, o).base = o.dir
        BY DEF LinkOf
      <3>4. MadeInv(v)
        BY <1>4, <2>4, <3>1, <3>2, <3>3 DEF MadeInv
      <3>5. /\ volId[v] \in [cluster : Clusters, uuid : Devices, home : Primaries,
                             fset : {v, Absent} \cup FilesetIds]
            /\ volId[v].cluster = ClusterId(o) /\ volId[v].uuid = Mounted[o.fs]
            /\ volId[v].fset = i /\ volId[v].home = primary
        BY <1>2, <1>3, <1>8, <2>4, <3>1, <3>2, AcceptedLeads DEF VolId
      <3>6. FilesetDone(v, o) /\ DirDone(v, o)
        BY <1>4, <2>4, <3>1, <3>2 DEF FilesetDone, DirDone, DirOf
      <3>7. IdDevice(v) = Device(o)
        BY <3>2, <3>5 DEF IdDevice, Device
      <3>8. IdInv(v)
        BY <1>2, <1>4, <2>4, <3>1, <3>2, <3>3, <3>5, <3>6, <3>7 DEF IdInv
      <3>9. GoneInv(v)
        BY <2>1, <3>1, <3>3, <3>5 DEF GoneInv
      <3> QED BY <2>2, <3>4, <3>8, <3>9
    <2> QED BY <2>3, <2>4
  <1>12. QuotaInv
    BY <1>8 DEF QuotaInv, OnItsWay
  <1> QED BY <1>9, <1>10, <1>11, <1>12 DEF PlacementInv

\* A step that touches one volume at most keeps the invariant.
LEMMA KeptKeeps ==
  ASSUME PlacementInv, NEW v \in Volumes, Kept(v), QuotaInv'
  PROVE  PlacementInv'
  <1>1. \A w \in Volumes : VolumeInv(w)
    BY DEF PlacementInv, VolumeInv
  <1>2. \A w \in Volumes \ {v} : VolumeInv(w)'
    BY <1>1, SameKeeps DEF PlacementInv, Kept
  <1> QED BY <1>2 DEF PlacementInv, VolumeInv, Kept

\* The invariant reads nothing but the variables.
LEMMA StutterKeeps ==
  ASSUME PlacementInv, UNCHANGED vars
  PROVE  PlacementInv'
  <1> USE DEF vars, handlerVars, storageVars, clientVars
  <1>1. \A w \in Volumes : VolumeInv(w) /\ Same(w)
    BY DEF PlacementInv, VolumeInv, Same
  <1>2. \A w \in Volumes : VolumeInv(w)'
    BY <1>1, SameKeeps DEF PlacementInv
  <1>3. TypeOK' /\ UniqueIds' /\ QuotaInv'
    BY DEF PlacementInv, TypeOK, UniqueIds, QuotaInv, OnItsWay, Key
  <1> QED BY <1>2, <1>3 DEF PlacementInv, VolumeInv

\* Each step of a volume's handler or client.
LEMMA StepKept ==
  ASSUME PlacementInv, NEW v \in Volumes, Create(v) \/ Delete(v) \/ CallFails(v)
  PROVE  Kept(v)
  <1>1. TypeOK /\ UniqueIds /\ VolumeInv(v)
    BY DEF PlacementInv, VolumeInv
  <1>2. CASE Create(v)
    BY <1>1, <1>2, StartCreationInv, CreateFilesetInv, LinkFilesetInv,
       ListFilesetQuotaInv, SetFilesetQuotaInv, AbandonQuotaJobInv, MakeDirectoryInv,
       CreateSymLinkInv DEF Create
  <1>3. CASE Delete(v)
    BY <1>1, <1>3, ReleaseInv, StartDeletionInv, LookUpInv, DeleteFilesetInv,
       DeleteDirectoryInv, DeleteSymLnkInv DEF Delete
  <1>4. CASE CallFails(v)
    BY <1>1, <1>4, CallFailsInv
  <1> QED BY <1>2, <1>3, <1>4

\* No write is put on its way, and no quota changes to another.
QuotaFrame ==
  /\ quotaJobs' = quotaJobs /\ overtaken' = overtaken
  /\ \A v \in Volumes : pc'[v] = "SetFilesetQuota" =>
       pc[v] = "SetFilesetQuota" /\ class'[v] = class[v]
  /\ \A k \in Devices \X Volumes : fileset'[k] # Absent =>
       \/ fileset'[k].quota = 0
       \/ fileset[k] # Absent /\ fileset'[k].quota = fileset[k].quota

\* Such a step leaves what a write will replace as it is.
LEMMA FrameKeepsQuota ==
  ASSUME QuotaInv, QuotaFrame
  PROVE  QuotaInv'
  <1>1. \A k \in Devices \X Volumes : OnItsWay(k)' => OnItsWay(k)
    BY DEF OnItsWay, QuotaFrame, Key
  <1> QED BY <1>1 DEF QuotaInv, QuotaFrame

\* Most steps of a handler are of this kind.
LEMMA StepFrames ==
  ASSUME PlacementInv, NEW v \in Volumes, Create(v) \/ Delete(v) \/ CallFails(v)
  PROVE  \/ ListFilesetQuota(v) \/ SetFilesetQuota(v) \/ AbandonQuotaJob(v)
         \/ QuotaFrame
  <1>1. TypeOK /\ UniqueIds /\ VolumeInv(v)
    BY DEF PlacementInv, VolumeInv
  <1> DEFINE Quiet == /\ quotaJobs' = quotaJobs /\ overtaken' = overtaken
                      /\ \A w \in Volumes : pc'[w] = "SetFilesetQuota" =>
                           pc[w] = "SetFilesetQuota" /\ class'[w] = class[w]
  <1>2. ASSUME NEW o \in Classes[v], StartCreation(v, o)
        PROVE  QuotaFrame
    BY <1>1, <1>2 DEF StartCreation, Goto, storageVars, QuotaFrame, TypeOK
  <1>3. CASE CreateFileset(v)
    <2>1. Quiet
      BY <1>1, <1>3 DEF CreateFileset, Continue, Goto, TypeOK
    <2>2. fileset' = fileset \/ \E i \in FilesetIds :
            fileset' = [fileset EXCEPT ![Key(v)] = FilesetOf(v, class[v], i)]
      BY <1>3 DEF CreateFileset, FreeIds
    <2>3. \A i \in FilesetIds : FilesetOf(v, class[v], i).quota = 0
      BY DEF FilesetOf
    <2>4. \A k \in Devices \X Volumes : fileset'[k] = fileset[k] \/ fileset'[k].quota = 0
      BY <1>1, <2>2, <2>3 DEF TypeOK
    <2> QED BY <2>1, <2>4 DEF QuotaFrame
  <1>4. CASE LinkFileset(v)
    <2>1. Quiet
      BY <1>1, <1>4 DEF LinkFileset, Continue, Goto, TypeOK
    <2>2. /\ fileset' = [fileset EXCEPT ![Key(v)] = [@ EXCEPT !.linked = TRUE]]
          /\ fileset[Key(v)] \in Filesets /\ Key(v) \in Devices \X Volumes
      BY <1>1, <1>4, ClassLeads DEF LinkFileset, TypeOK, VolumeInv, HandlerInv, CreateSteps
    <2>3. \A k \in Devices \X Volumes : fileset'[k] = fileset[k] \/ k = Key(v)
      BY <1>1, <2>2 DEF TypeOK
    <2>4. fileset'[Key(v)].quota = fileset[Key(v)].quota
      BY <1>1, <2>2 DEF TypeOK, Filesets
    <2> QED BY <2>1, <2>2, <2>3, <2>4, AbsentAssumption DEF QuotaFrame
  <1>5. CASE MakeDirectory(v) \/ CreateSymLink(v)
    BY <1>1, <1>5 DEF MakeDirectory, CreateSymLink, Continue, Goto, QuotaFrame, TypeOK
  <1>6. CASE Release(v) \/ StartDeletion(v) \/ LookUp(v) \/ DeleteDirectory(v) \/ DeleteSymLnk(v)
    BY <1>1, <1>6 DEF Release, StartDeletion, LookUp, DeleteDirectory, DeleteSymLnk,
       Continue, Goto, QuotaFrame, handlerVars, storageVars, TypeOK
  <1>7. CASE DeleteFileset(v)
    BY <1>1, <1>7 DEF DeleteFileset, Continue, Goto, QuotaFrame, TypeOK
  <1>8. CASE CallFails(v)
    BY <1>1, <1>8 DEF CallFails, Goto, QuotaFrame, storageVars, TypeOK
  <1> QED BY <1>2, <1>3, <1>4, <1>5, <1>6, <1>7, <1>8 DEF Create, Delete

\* A write is put on its way for a fileset that was listed without a quota.
LEMMA StepQuotaInv ==
  ASSUME PlacementInv, NEW v \in Volumes, Create(v) \/ Delete(v) \/ CallFails(v)
  PROVE  QuotaInv'
  <1>1. TypeOK /\ UniqueIds /\ VolumeInv(v) /\ QuotaInv
    BY DEF PlacementInv, VolumeInv
  <1>2. CASE ListFilesetQuota(v)
    <2>1. /\ fileset' = fileset
          /\ pc'[v] = "SetFilesetQuota" => fileset[Key(v)].quota = 0
          /\ class' = class /\ \A w \in Volumes \ {v} : pc'[w] = pc[w]
          /\ quotaJobs' = quotaJobs /\ overtaken' = overtaken
      BY <1>1, <1>2, ListFilesetQuotaInv DEF ListFilesetQuota, Goto, TypeOK
    <2>2. \A k \in Devices \X Volumes : OnItsWay(k)' =>
            OnItsWay(k) \/ fileset[k].quota = 0
      BY <2>1 DEF OnItsWay, Key
    <2> QED BY <1>1, <2>1, <2>2 DEF QuotaInv
  <1>3. CASE SetFilesetQuota(v)
    <2>1. Size[v] # 0 /\ Key(v) \in Devices \X Volumes /\ fileset[Key(v)] \in Filesets
      BY <1>1, <1>3, SetFilesetQuotaInv
    <2>2. /\ fileset' = [fileset EXCEPT ![Key(v)] = [@ EXCEPT !.quota = Blocks(Size[v])]]
          /\ class' = class /\ quotaJobs' = quotaJobs /\ overtaken' = overtaken
          /\ \A w \in Volumes : pc'[w] = "SetFilesetQuota" => pc[w] = "SetFilesetQuota"
      BY <1>1, <1>3 DEF SetFilesetQuota, Continue, Goto, TypeOK
    <2>3. /\ \A k \in Devices \X Volumes : k # Key(v) => fileset'[k] = fileset[k]
          /\ fileset'[Key(v)].quota = Blocks(Size[v])
      BY <1>1, <2>1, <2>2 DEF TypeOK, Filesets
    <2>4. \A k \in Devices \X Volumes : OnItsWay(k)' => OnItsWay(k)
      BY <2>2 DEF OnItsWay, Key
    <2>5. Key(v)[2] = v
      BY DEF Key
    <2> QED BY <1>1, <2>2, <2>3, <2>4, <2>5 DEF QuotaInv
  <1>4. CASE AbandonQuotaJob(v)
    <2>1. Size[v] # 0 /\ Key(v)[2] = v /\ pc[v] = "SetFilesetQuota"
      BY <1>1, <1>4, AbandonQuotaJobInv DEF Key, AbandonQuotaJob
    <2>2. /\ fileset' = fileset /\ class' = class /\ overtaken' = overtaken
          /\ quotaJobs' = quotaJobs \cup {Key(v)}
          /\ \A w \in Volumes : pc'[w] = "SetFilesetQuota" => pc[w] = "SetFilesetQuota"
      BY <1>1, <1>4 DEF AbandonQuotaJob, Goto, storageVars, TypeOK
    <2>3. \A k \in Devices \X Volumes : OnItsWay(k)' => OnItsWay(k)
      BY <2>1, <2>2 DEF OnItsWay, Key
    <2> QED BY <1>1, <2>1, <2>2, <2>3 DEF QuotaInv
  <1> QED BY <1>1, <1>2, <1>3, <1>4, StepFrames, FrameKeepsQuota

\* What others set while a write is on its way is overtaken; a late write
\* leaves the driver's own quota.
LEMMA OthersQuotaInv ==
  ASSUME PlacementInv, NEW e \in Devices \X Volumes,
         LateQuotaJob(e) \/ \E q \in ForeignQuotas : AdminSetsQuota(e, q)
  PROVE  QuotaInv'
  <1>1. TypeOK /\ QuotaInv
    BY DEF PlacementInv
  <1>2. /\ pc' = pc /\ class' = class
        /\ \A k \in Devices \X Volumes : k # e => fileset'[k] = fileset[k]
        /\ fileset[e] = Absent => fileset'[e] = Absent
    BY <1>1 DEF LateQuotaJob, AdminSetsQuota, handlerVars, TypeOK
  <1>3. CASE LateQuotaJob(e)
    <2>1. /\ quotaJobs' = quotaJobs \ {e} /\ overtaken' = overtaken
          /\ fileset[e] # Absent => fileset'[e].quota = Blocks(Size[e[2]])
      BY <1>1, <1>3 DEF LateQuotaJob, TypeOK, Filesets
    <2>2. \A k \in Devices \X Volumes : OnItsWay(k)' => OnItsWay(k)
      BY <1>2, <2>1 DEF OnItsWay, Key
    <2> QED BY <1>1, <1>2, <2>1, <2>2 DEF QuotaInv
  <1>4. CASE \E q \in ForeignQuotas : AdminSetsQuota(e, q)
    <2>1. /\ quotaJobs' = quotaJobs
          /\ overtaken' = IF OnItsWay(e) THEN overtaken \cup {e} ELSE overtaken \ {e}
      BY <1>4 DEF AdminSetsQuota
    <2>2. \A k \in Devices \X Volumes : OnItsWay(k)' = OnItsWay(k)
      BY <1>2, <2>1 DEF OnItsWay, Key
    <2> QED BY <1>1, <1>2, <2>1, <2>2 DEF QuotaInv
  <1> QED BY <1>3, <1>4

\* A quota set by others or late leaves every volume its invariant.
LEMMA OthersKept ==
  ASSUME PlacementInv, NEW d \in Devices, NEW v \in Volumes,
         LateQuotaJob(<<d, v>>) \/ \E q \in ForeignQuotas : AdminSetsQuota(<<d, v>>, q)
  PROVE  Kept(v)
  BY AdminSetsQuotaInv, LateQuotaJobInv DEF PlacementInv, VolumeInv

\* Every step keeps the invariant.
LEMMA NextInv ==
  ASSUME PlacementInv, [Next]_vars
  PROVE  PlacementInv'
  <1>1. ASSUME NEW v \in Volumes, Create(v) \/ Delete(v) \/ CallFails(v)
        PROVE  PlacementInv'
    BY <1>1, StepKept, StepQuotaInv, KeptKeeps
  <1>2. ASSUME NEW k \in Devices \X Volumes,
               LateQuotaJob(k) \/ \E q \in ForeignQuotas : AdminSetsQuota(k, q)
        PROVE  PlacementInv'
    <2>1. PICK d \in Devices, v \in Volumes : k = <<d, v>>
      OBVIOUS
    <2> QED BY <1>2, <2>1, OthersKept, OthersQuotaInv, KeptKeeps
  <1>3. CASE Gone \/ UNCHANGED vars
    BY <1>3, StutterKeeps DEF Gone
  <1> QED BY <1>1, <1>2, <1>3, RestartInv DEF Next

\* All that is there was made for a class that was asked with, and the ID of a
\* volume leads to it until its deletion has taken it away.
THEOREM PlacementInvariant == Spec => []PlacementInv
  <1>1. Init => PlacementInv
    BY InitInv
  <1>2. PlacementInv /\ [Next]_vars => PlacementInv'
    BY NextInv
  <1> QED BY <1>1, <1>2, PTL DEF Spec

----------------------------------------------------------------------------
(* What follows from it.                                                   *)

\* Every variable keeps its type.
THEOREM TypeCorrect == Spec => []TypeOK
  BY PlacementInvariant, PTL DEF PlacementInv

\* The invariant holds the ID to the data of its class.
LEMMA InvLeads ==
  ASSUME PlacementInv
  PROVE  LeadsToItsData
  <1> SUFFICES ASSUME NEW v \in Volumes, NEW o \in Options,
                      claim[v] = "bound", asked[v] = {o}, Fits(o)
               PROVE  LET d == Mounted[o.fs] IN
                      /\ \E l \in links : /\ l.home = volId[v].home /\ l.vol = v
                                          /\ Mounted[l.fs] = d /\ l.base = o.dir
                      /\ [dev |-> d, base |-> o.dir, vol |-> v,
                          owner |-> <<OrRoot(o.uid), OrRoot(o.gid)>>] \in dirs
                      /\ FilesetBased(o) =>
                           /\ fileset[<<d, v>>] # Absent
                           /\ AsAsked(fileset[<<d, v>>], o, Size[v])
    BY DEF LeadsToItsData
  <1> DEFINE d == Mounted[o.fs]
             f == fileset[<<d, v>>]
  <1>1. TypeOK /\ MadeInv(v) /\ IdInv(v)
    BY DEF PlacementInv
  <1>2. Accepted(o) /\ d \in Devices /\ Device(o) \in Devices
    BY <1>1, AcceptedLeads DEF MadeInv
  <1>3. Device(o) = d
    <2>1. d = <<d[1], d[2]>>
      BY <1>2 DEF Devices
    <2>2. FilesetBased(o) => ClusterId(o) = d[1]
      BY <1>2 DEF ClusterId, Fits, Accepted
    <2> QED BY <2>1, <2>2 DEF Device
  <1>4. /\ FilesetDone(v, o) /\ DirDone(v, o)
        /\ \E l \in links : l.home = volId[v].home /\ l.vol = v
    BY <1>1 DEF IdInv
  <1>5. \E l \in links : /\ l.home = volId[v].home /\ l.vol = v
                        /\ Mounted[l.fs] = d /\ l.base = o.dir
    BY <1>1, <1>4 DEF MadeInv
  <1>6. DirOf(v, o) \in dirs
    BY <1>1, <1>4 DEF MadeInv, DirDone
  <1>7. DirOf(v, o) = [dev |-> d, base |-> o.dir, vol |-> v,
                       owner |-> <<OrRoot(o.uid), OrRoot(o.gid)>>]
    BY <1>3 DEF DirOf, DirectoryOwner, Uid, OrRoot
  <1>8. ASSUME FilesetBased(o)
        PROVE  f # Absent /\ AsAsked(f, o, Size[v])
    <2>1. f # Absent /\ f \in Filesets /\ f.linked /\ (Size[v] # 0 => f.quota # 0)
      BY <1>1, <1>2, <1>3, <1>4, <1>8 DEF FilesetDone, TypeOK
    <2>2. /\ f.space = InodeSpace(o) /\ f.owner = FilesetOwner(o)
          /\ f.inodes = InodeLimit(o, Device(o), Size[v])
      BY <1>1, <1>2, <1>3, <2>1 DEF MadeInv
    <2> HIDE DEF f
    <2> QED BY <1>2, <1>8, <2>1, <2>2, MadeAsAsked
  <1> QED BY <1>5, <1>6, <1>7, <1>8

\* A bound volume's symlink leads to its data, which are as its class says
\* (controllerserver.go:452-518).
THEOREM LeadsToItsDataHolds == Spec => []LeadsToItsData
  <1>1. PlacementInv => LeadsToItsData
    BY InvLeads
  <1> QED BY <1>1, PlacementInvariant, PTL

\* A volume that is reported deleted has left nothing
\* (controllerserver.go:597-674).
THEOREM GoneLeavesNothingHolds == Spec => []GoneLeavesNothing
  <1>1. PlacementInv => GoneLeavesNothing
    BY DEF PlacementInv, GoneInv, GoneLeavesNothing, Has
  <1> QED BY <1>1, PlacementInvariant, PTL

\* Nothing of v is taken away in a step.
NothingTaken(v) ==
  /\ \A d \in Devices : fileset[<<d, v>>] # Absent => fileset'[<<d, v>>] # Absent
  /\ \A x \in dirs \ dirs' : x.vol # v
  /\ \A l \in links \ links' : l.vol # v

\* A step that leaves a volume alone takes nothing of it.
LEMMA SameTakesNothing ==
  ASSUME NEW v \in Volumes, Same(v)
  PROVE  NothingTaken(v)
  BY DEF Same, NothingTaken

\* A fileset whose quota is written is still there.
LEMMA WrittenIsThere ==
  ASSUME TypeOK, NEW e \in Devices \X Volumes, NEW q \in Nat, fileset[e] \in Filesets,
         fileset' = [fileset EXCEPT ![e] = [@ EXCEPT !.quota = q]]
  PROVE  /\ \A k \in Devices \X Volumes : fileset[k] # Absent => fileset'[k] # Absent
         /\ \A k \in Devices \X Volumes : k # e => fileset'[k] = fileset[k]
         /\ fileset'[e].quota = q
  <1> DEFINE f == [fileset[e] EXCEPT !.quota = q]
  <1>1. f \in Filesets /\ f.quota = q /\ fileset' = [fileset EXCEPT ![e] = f]
    BY DEF Filesets
  <1> HIDE DEF f
  <1> QED BY <1>1, AbsentAssumption DEF TypeOK

\* A creation removes nothing.
LEMMA CreationTakesNothing ==
  ASSUME PlacementInv, NEW v \in Volumes, Create(v)
  PROVE  NothingTaken(v)
  <1>1. TypeOK /\ UniqueIds /\ VolumeInv(v)
    BY DEF PlacementInv, VolumeInv
  <1>2. ASSUME NEW o \in Classes[v], StartCreation(v, o)
        PROVE  NothingTaken(v)
    BY <1>2 DEF StartCreation, NothingTaken, storageVars
  <1>3. CASE CreateFileset(v)
    <2>1. dirs' = dirs /\ links' = links
      BY <1>3 DEF CreateFileset
    <2>2. fileset' = fileset \/ \E i \in FreeIds(Key(v)[1]) :
            fileset[Key(v)] = Absent
            /\ fileset' = [fileset EXCEPT ![Key(v)] = FilesetOf(v, class[v], i)]
      BY <1>3 DEF CreateFileset
    <2>3. \A k \in Devices \X Volumes : fileset[k] # Absent => fileset'[k] # Absent
      BY <1>1, <2>2 DEF TypeOK
    <2> QED BY <2>1, <2>3 DEF NothingTaken
  <1>4. CASE LinkFileset(v)
    <2>1. Retained
      BY <1>1, <1>4, LinkFilesetInv
    <2>2. dirs' = dirs /\ links' = links
      BY <1>4 DEF LinkFileset
    <2> QED BY <2>1, <2>2 DEF NothingTaken, Retained
  <1>6. CASE ListFilesetQuota(v) \/ AbandonQuotaJob(v)
    BY <1>6 DEF ListFilesetQuota, AbandonQuotaJob, storageVars, NothingTaken
  <1>7. CASE SetFilesetQuota(v)
    <2>1. Size[v] # 0 /\ Key(v) \in Devices \X Volumes /\ fileset[Key(v)] \in Filesets
      BY <1>1, <1>7, SetFilesetQuotaInv
    <2>2. \A k \in Devices \X Volumes : fileset[k] # Absent => fileset'[k] # Absent
      BY <1>1, <1>7, <2>1, OwnQuota, WrittenIsThere DEF SetFilesetQuota
    <2>3. dirs' = dirs /\ links' = links
      BY <1>7 DEF SetFilesetQuota
    <2> QED BY <2>2, <2>3 DEF NothingTaken
  <1>5. CASE MakeDirectory(v) \/ CreateSymLink(v)
    BY <1>5 DEF MakeDirectory, CreateSymLink, NothingTaken
  <1> QED BY <1>2, <1>3, <1>4, <1>5, <1>6, <1>7 DEF Create

\* Of the steps of a volume, only those of its deletion take anything away.
LEMMA StepTakesNothing ==
  ASSUME PlacementInv, NEW v \in Volumes, claim[v] # "deleting",
         NEW w \in Volumes, Create(w) \/ Delete(w) \/ CallFails(w)
  PROVE  NothingTaken(v)
  <1>1. CASE w # v
    <2>1. Same(v)
      BY <1>1, StepKept DEF Kept
    <2> QED BY <2>1, SameTakesNothing
  <1>2. CASE w = v /\ Create(v)
    BY <1>2, CreationTakesNothing
  <1>3. CASE w = v /\ Delete(v)
    <2>1. Release(v)
      BY <1>3 DEF Delete, StartDeletion, LookUp, DeleteFileset, DeleteDirectory,
         DeleteSymLnk, PlacementInv, HandlerInv, DeleteSteps
    <2> QED BY <2>1 DEF Release, NothingTaken, storageVars
  <1>4. CASE w = v /\ CallFails(v)
    BY <1>4 DEF CallFails, NothingTaken, storageVars
  <1> QED BY <1>1, <1>2, <1>3, <1>4

\* No step takes anything of a volume that is not being deleted.
LEMMA NextTakesNothing ==
  ASSUME PlacementInv, [Next]_vars, NEW v \in Volumes, claim[v] # "deleting"
  PROVE  NothingTaken(v)
  <1>1. ASSUME NEW w \in Volumes, Create(w) \/ Delete(w) \/ CallFails(w)
        PROVE  NothingTaken(v)
    BY <1>1, StepTakesNothing
  <1>2. ASSUME NEW p \in Primaries, Restart(p)
        PROVE  NothingTaken(v)
    BY <1>2 DEF Restart, NothingTaken, storageVars
  <1>3. ASSUME NEW k \in Devices \X Volumes, NEW q \in ForeignQuotas, AdminSetsQuota(k, q)
        PROVE  NothingTaken(v)
    <2>1. TypeOK /\ dirs' = dirs /\ links' = links /\ fileset[k] \in Filesets /\ q \in Nat
      BY <1>3, RequestAssumption DEF AdminSetsQuota, PlacementInv, TypeOK
    <2> QED BY <1>3, <2>1, WrittenIsThere DEF NothingTaken, AdminSetsQuota
  <1>5. ASSUME NEW k \in Devices \X Volumes, LateQuotaJob(k)
        PROVE  NothingTaken(v)
    <2>1. TypeOK /\ dirs' = dirs /\ links' = links /\ Size[k[2]] # 0 /\ k[2] \in Volumes
      BY <1>5 DEF LateQuotaJob, PlacementInv, QuotaInv
    <2>2. CASE fileset[k] = Absent
      BY <1>5, <2>1, <2>2 DEF LateQuotaJob, NothingTaken
    <2>3. CASE fileset[k] # Absent
      <3>1. fileset[k] \in Filesets /\ Blocks(Size[k[2]]) \in Nat
        BY <2>1, <2>3, OwnQuota DEF TypeOK
      <3> QED BY <1>5, <2>1, <2>3, <3>1, WrittenIsThere DEF NothingTaken, LateQuotaJob
    <2> QED BY <2>2, <2>3
  <1>4. CASE Gone \/ UNCHANGED vars
    BY <1>4 DEF Gone, vars, storageVars, NothingTaken
  <1> QED BY <1>1, <1>2, <1>3, <1>4, <1>5 DEF Next

\* What is left of a volume is taken away by its own deletion only
\* (controllerserver.go:641-650).
THEOREM DeletesOnlyItsOwnHolds == Spec => DeletesOnlyItsOwn
  <1>1. PlacementInv /\ [Next]_vars => \A v \in Volumes : claim[v] # "deleting" =>
          /\ \A d \in Devices : fileset[<<d, v>>] # Absent => fileset'[<<d, v>>] # Absent
          /\ \A x \in dirs \ dirs' : x.vol # v
          /\ \A l \in links \ links' : l.vol # v
    BY NextTakesNothing DEF NothingTaken
  <1> QED BY <1>1, PlacementInvariant, PTL DEF Spec, DeletesOnlyItsOwn

\* A quota that is set goes, stays, is an administrator's next, or was set
\* while a write was on its way.
QuotaStays(k) ==
  fileset[k] # Absent /\ fileset[k].quota # 0 /\ fileset'[k] # Absent =>
    \/ fileset'[k].quota \in {fileset[k].quota} \cup ForeignQuotas
    \/ k \in overtaken

\* A write that is done replaces what the invariant says is on its way.
LEMMA WriteKeepsQuota ==
  ASSUME PlacementInv, NEW e \in Devices \X Volumes, OnItsWay(e), Size[e[2]] # 0,
         fileset[e] \in Filesets,
         fileset' = [fileset EXCEPT ![e] = [@ EXCEPT !.quota = Blocks(Size[e[2]])]],
         NEW k \in Devices \X Volumes
  PROVE  QuotaStays(k)
  <1>1. TypeOK /\ QuotaInv /\ Blocks(Size[e[2]]) \in Nat
    BY OwnQuota DEF PlacementInv
  <1>2. /\ k # e => fileset'[k] = fileset[k]
        /\ fileset'[e].quota = Blocks(Size[e[2]])
    BY <1>1, WrittenIsThere
  <1> QED BY <1>1, <1>2, AbsentAssumption DEF QuotaInv, QuotaStays

\* No step replaces a quota that the driver had not listed as none before.
LEMMA NextKeepsQuota ==
  ASSUME PlacementInv, [Next]_vars, NEW k \in Devices \X Volumes
  PROVE  QuotaStays(k)
  <1>1. TypeOK /\ UniqueIds /\ QuotaInv /\ \A v \in Volumes : VolumeInv(v)
    BY DEF PlacementInv, VolumeInv
  <1>2. ASSUME UNCHANGED fileset PROVE QuotaStays(k)
    BY <1>2 DEF QuotaStays
  <1>3. ASSUME NEW v \in Volumes, CreateFileset(v)
        PROVE  QuotaStays(k)
    <2>1. \/ fileset' = fileset
          \/ /\ fileset[Key(v)] = Absent
             /\ \E i \in FilesetIds :
                  fileset' = [fileset EXCEPT ![Key(v)] = FilesetOf(v, class[v], i)]
      BY <1>3 DEF CreateFileset, FreeIds
    <2> QED BY <1>1, <2>1 DEF QuotaStays, TypeOK
  <1>4. ASSUME NEW v \in Volumes, Create(v) \/ Delete(v) \/ CallFails(v)
        PROVE  QuotaStays(k)
    <2>1. CASE CreateFileset(v)
      BY <1>3, <2>1
    <2>2. CASE LinkFileset(v)
      BY <1>1, <2>2, LinkFilesetInv DEF Retained, QuotaStays
    <2>3. CASE ListFilesetQuota(v) \/ AbandonQuotaJob(v)
      BY <1>2, <2>3 DEF ListFilesetQuota, AbandonQuotaJob, storageVars
    <2>4. CASE SetFilesetQuota(v)
      <3>1. Size[v] # 0 /\ Key(v) \in Devices \X Volumes /\ fileset[Key(v)] \in Filesets
        BY <1>1, <2>4, SetFilesetQuotaInv
      <3>2. /\ fileset' = [fileset EXCEPT ![Key(v)] = [@ EXCEPT !.quota = Blocks(Size[v])]]
            /\ pc[v] = "SetFilesetQuota" /\ Key(v)[2] = v
        BY <2>4 DEF SetFilesetQuota, Key
      <3>3. OnItsWay(Key(v))
        BY <3>2 DEF OnItsWay
      <3> QED BY <3>1, <3>2, <3>3, WriteKeepsQuota
    <2>5. CASE DeleteFileset(v)
      BY <1>1, <2>5 DEF DeleteFileset, QuotaStays, TypeOK
    <2>6. ASSUME NEW o \in Classes[v], StartCreation(v, o)
          PROVE  QuotaStays(k)
      BY <1>2, <2>6 DEF StartCreation, storageVars
    <2>7. CASE \/ MakeDirectory(v) \/ CreateSymLink(v) \/ Release(v) \/ StartDeletion(v)
               \/ LookUp(v) \/ DeleteDirectory(v) \/ DeleteSymLnk(v) \/ CallFails(v)
      BY <1>2, <2>7 DEF MakeDirectory, CreateSymLink, Release, StartDeletion, LookUp,
         DeleteDirectory, DeleteSymLnk, CallFails, storageVars
    <2> QED BY <1>4, <2>1, <2>2, <2>3, <2>4, <2>5, <2>6, <2>7 DEF Create, Delete
  <1>5. ASSUME NEW e \in Devices \X Volumes, NEW q \in ForeignQuotas, AdminSetsQuota(e, q)
        PROVE  QuotaStays(k)
    <2>1. fileset[e] \in Filesets /\ q \in Nat
      BY <1>1, <1>5, RequestAssumption DEF AdminSetsQuota, TypeOK
    <2>2. /\ k # e => fileset'[k] = fileset[k]
          /\ fileset'[e].quota = q
      BY <1>1, <1>5, <2>1, WrittenIsThere DEF AdminSetsQuota
    <2> QED BY <2>2 DEF QuotaStays
  <1>6. ASSUME NEW e \in Devices \X Volumes, LateQuotaJob(e)
        PROVE  QuotaStays(k)
    <2>1. CASE fileset[e] = Absent
      BY <1>2, <1>6, <2>1 DEF LateQuotaJob
    <2>2. CASE fileset[e] # Absent
      <3>1. /\ fileset[e] \in Filesets /\ OnItsWay(e) /\ Size[e[2]] # 0
            /\ fileset' = [fileset EXCEPT ![e] = [@ EXCEPT !.quota = Blocks(Size[e[2]])]]
        BY <1>1, <1>6, <2>2 DEF LateQuotaJob, OnItsWay, QuotaInv, TypeOK
      <3> QED BY <3>1, WriteKeepsQuota
    <2> QED BY <2>1, <2>2
  <1>7. CASE (\E p \in Primaries : Restart(p)) \/ Gone \/ UNCHANGED vars
    BY <1>2, <1>7 DEF Restart, Gone, vars, storageVars
  <1> QED BY <1>4, <1>5, <1>6, <1>7 DEF Next

\* No attempt, and no job it left, replaces a quota that others have set, but
\* one that was set after an attempt had listed none and before its write was
\* done (controllerserver.go:171-202).
THEOREM QuotaKeptHolds == Spec => QuotaKept
  <1>1. PlacementInv /\ [Next]_vars =>
          \A k \in Devices \X Volumes :
            fileset[k] # Absent /\ fileset[k].quota # 0 /\ fileset'[k] # Absent =>
              \/ fileset'[k].quota \in {fileset[k].quota} \cup ForeignQuotas
              \/ k \in overtaken
    BY NextKeepsQuota DEF QuotaStays
  <1> QED BY <1>1, PlacementInvariant, PTL DEF Spec, QuotaKept
=============================================================================
