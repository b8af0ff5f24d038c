---------------------------- MODULE SizeConversion ----------------------------
(***************************************************************************)
(* The sizes the controller service computes with (driver/csiplugin/       *)
(* gpfs_util.go, controllerserver.go): unsigned machine words of bytes,    *)
(* set as quotas in bytes and listed by the GUI in units of KiB.           *)
(***************************************************************************)
EXTENDS Integers

CONSTANTS
  WordSize,   \* 2^64: the values of a uint64 are 0..(WordSize - 1)
  MinInodes   \* 1024: the least inode limit a fileset is given

KiB == 1024

ASSUME SizeAssumption ==
  WordSize \in Nat /\ WordSize > 2 * KiB /\ MinInodes \in Nat \ {0}

Word == 0..(WordSize - 1)

\* Requested sizes: an int64 that is cast to uint64.
Requests64 == 0..((WordSize - 1) \div 2)

\* ListFilesetQuota prints the block limit as "<n>K".  The filesystem keeps
\* limits in whole blocks: a quota in bytes is rounded up.
Blocks(bytes) == (bytes + KiB - 1) \div KiB

\* ConvertToBytes of "<n>K": the product wraps before it is compared with the
\* largest uint64, so that the comparison never finds an overflow.
ConvertToBytes(n) == (n * KiB) % WordSize

\* The inode limit of a fileset whose class names none.
DefaultInodes(size, block) ==
  IF size \div block < MinInodes THEN MinInodes ELSE size \div block
=============================================================================
