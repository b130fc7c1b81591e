----------------------------- MODULE NamespaceIo -----------------------------
(***************************************************************************)
(* The commands of one namespace as they meet on its blocks: Read, Write,  *)
(* Write Zeroes, Dataset Management, Copy and Write Uncorrectable of       *)
(* patches/write-uncorrectable/add-write-uncorrectable-command.patch, and  *)
(* the write protection of patches/wp.patch.                               *)
(*                                                                         *)
(* A handler admits a command or refuses it at once, a stuttering step; the *)
(* block layer then moves the blocks, one at a time and in any order,      *)
(* beside those of the other commands, and calls back.  A read may find a  *)
(* block as it is at any time while it is out.                             *)
(***************************************************************************)
EXTENDS Integers, Sequences, FiniteSets

CONSTANTS
  NumBlocks,      \* id_ns.nsze
  Contents,       \* what a block can hold
  Requests,       \* commands that can be out at a time
  CopyRanges,     \* the lists of source ranges a host may copy
  PermWrProtect,  \* the perm_wr_protect parameter
  Careful         \* TRUE: the host marks no block it has a write out to

Uncor == -1       \* what a marked block is read as

Blocks == 0..(NumBlocks - 1)
Extents == {a..b : a, b \in Blocks} \ {{}}
First(lba) == CHOOSE a \in lba : \A b \in lba : a <= b

ASSUME NamespaceIoAssumption ==
  /\ NumBlocks \in Nat \ {0}
  /\ CopyRanges \subseteq Seq(Extents) \ {<<>>}
  /\ 0 \in Contents /\ Uncor \notin Contents
  /\ PermWrProtect \in BOOLEAN /\ Careful \in BOOLEAN

VARIABLES
  uncorrectable,  \* ns->uncorrectable, the blocks whose bit is set
  nwps,           \* ns->nwps
  nsattr,         \* id_ns.nsattr
  media,          \* the block device
  requests,       \* the commands
  latest          \* history: what the last writes to end have left a block as

ioVars == <<uncorrectable, nwps, nsattr, media, requests, latest>>

\* data: what is to be written; todo: blocks not written yet; ranges: the source
\* ranges of a copy from the present one on; slba: where it goes on.
\* seen is history.  For a read: what each block was or has been written as at
\* some time since it was admitted.  For a write: what the writes that were out
\* beside it and have ended have left, less what others have covered.
NoRequest ==
  [op |-> "none", lba |-> {}, data |-> [b \in Blocks |-> 0], todo |-> {},
   ranges |-> <<>>, slba |-> 0, seen |-> [b \in Blocks |-> {}]]

Free(r) == requests[r].op = "none"

\* Writes to block b that are out.
Writers(b) == {r \in Requests : requests[r].op \in {"write", "dsm", "copyout"}
                                  /\ b \in requests[r].lba}

IoInit ==
  /\ uncorrectable = {}
  /\ nwps = IF PermWrProtect THEN 3 ELSE 0
  /\ nsattr = IF PermWrProtect THEN 1 ELSE 0
  /\ media = [b \in Blocks |-> 0]
  /\ requests = [r \in Requests |-> NoRequest]
  /\ latest = [b \in Blocks |-> {0}]

-----------------------------------------------------------------------------
(* The history.                                                            *)

\* A write of data to lba goes out: reads that are out may see it.
Begun(rqs, lba, data) ==
  [r \in Requests |->
     IF rqs[r].op # "read" THEN rqs[r]
     ELSE [rqs[r] EXCEPT !.seen = [b \in Blocks |->
             IF b \in lba \cap rqs[r].lba THEN @[b] \cup {data[b]} ELSE @[b]]]]

\* A write of data to lba ends, and covers what had ended before it went out:
\* all but seen.
Covered(rqs, lba, data, seen) ==
  [r \in Requests |->
     IF rqs[r].op \notin {"write", "dsm", "copyout"} THEN rqs[r]
     ELSE [rqs[r] EXCEPT !.seen = [b \in Blocks |->
             IF b \in lba \cap rqs[r].lba THEN (@[b] \cap seen[b]) \cup {data[b]} ELSE @[b]]]]

Latest(lba, data, seen) ==
  [b \in Blocks |-> IF b \in lba THEN seen[b] \cup {data[b]} ELSE latest[b]]

\* One that fails, or promises nothing, may have moved a block and covers none.
MayHave(rqs, lba, data) ==
  [r \in Requests |->
     IF rqs[r].op \notin {"write", "dsm", "copyout"} THEN rqs[r]
     ELSE [rqs[r] EXCEPT !.seen = [b \in Blocks |->
             IF b \in lba \cap rqs[r].lba THEN @[b] \cup {data[b]} ELSE @[b]]]]

-----------------------------------------------------------------------------
(* Handlers                                                                *)

CheckUncor(lba) == lba \cap uncorrectable = {}

Read(r, lba) ==
  /\ Free(r) /\ nsattr = 0 /\ CheckUncor(lba)
  /\ LET seen == [b \in Blocks |-> IF b \notin lba THEN {} ELSE
                    latest[b] \cup {requests[w].data[b] : w \in Writers(b)}]
     IN requests' = [requests EXCEPT ![r] =
          [NoRequest EXCEPT !.op = "read", !.lba = lba, !.seen = seen]]
  /\ UNCHANGED <<uncorrectable, nwps, nsattr, media, latest>>

Admitted(r, op, lba, content) ==
  LET data == [b \in Blocks |-> IF b \in lba THEN content ELSE 0]
  IN requests' = [Begun(requests, lba, data) EXCEPT ![r] =
       [NoRequest EXCEPT !.op = op, !.lba = lba, !.todo = lba, !.data = data]]

\* nvme_do_write, which nvme_write, nvme_write_zeroes and, at the zone's write
\* pointer, nvme_zone_append call.  It does not look at the protection.
Write(r, lba, content) ==
  /\ Free(r)
  /\ Admitted(r, "write", lba, content)
  /\ UNCHANGED <<uncorrectable, nwps, nsattr, media, latest>>

Dsm(r, lba) ==
  /\ Free(r) /\ nsattr = 0
  /\ Admitted(r, "dsm", lba, 0)
  /\ UNCHANGED <<uncorrectable, nwps, nsattr, media, latest>>

\* nvme_copy: the source ranges go, one after the other, to slba and on.
Copy(r, ranges, slba) ==
  /\ Free(r)
  /\ requests' = [requests EXCEPT ![r] =
       [NoRequest EXCEPT !.op = "copyin", !.ranges = ranges, !.slba = slba]]
  /\ UNCHANGED <<uncorrectable, nwps, nsattr, media, latest>>

\* nvme_do_write with uncor set: done at once.
WriteUncor(lba) ==
  /\ Careful => \A b \in lba : Writers(b) = {}
  /\ uncorrectable' = uncorrectable \cup lba
  /\ LET data == [b \in Blocks |-> Uncor]
         none == [b \in Blocks |-> {}]
     IN /\ requests' = Covered(Begun(requests, lba, data), lba, data, none)
        /\ latest' = Latest(lba, data, none)
  /\ UNCHANGED <<nwps, nsattr, media>>

-----------------------------------------------------------------------------
(* The block layer and the callbacks                                       *)

WriteBlock(r, b) ==
  /\ b \in requests[r].todo
  /\ requests' = [requests EXCEPT ![r].todo = @ \ {b}]
  /\ media' = [media EXCEPT ![b] = requests[r].data[b]]
  /\ UNCHANGED <<uncorrectable, nwps, nsattr, latest>>

\* With its data or with an error.
ReadDone(r) ==
  /\ requests[r].op = "read"
  /\ requests' = [requests EXCEPT ![r] = NoRequest]
  /\ UNCHANGED <<uncorrectable, nwps, nsattr, media, latest>>

MutantCleared(rq) == {b \in rq.lba : b + 1 \in rq.lba}           \* nlb, one less than the blocks

\* What bitmap_clear clears when a write has succeeded.
Cleared(rq) == rq.lba

\* nvme_rw_complete_cb, of a write.
WriteDone(r) ==
  LET rq == requests[r]
      rest == [requests EXCEPT ![r] = NoRequest]
  IN /\ rq.op = "write" /\ rq.todo = {}
     /\ uncorrectable' = uncorrectable \ Cleared(rq)
     /\ requests' = Covered(rest, rq.lba, rq.data, rq.seen)
     /\ latest' = Latest(rq.lba, rq.data, rq.seen)
     /\ UNCHANGED <<nwps, nsattr, media>>

\* The block layer fails before, between or after the blocks; deallocated
\* blocks may be read as they were.
WriteFails(r) ==
  LET rq == requests[r]
      rest == [requests EXCEPT ![r] = NoRequest]
  IN /\ rq.op \in {"write", "dsm", "copyout"}
     /\ requests' = MayHave(rest, rq.lba, rq.data)
     /\ latest' = [b \in Blocks |-> IF b \in rq.lba THEN latest[b] \cup {rq.data[b]}
                                    ELSE latest[b]]
     /\ UNCHANGED <<uncorrectable, nwps, nsattr, media>>

\* nvme_copy_in_completed_cb: the range has been read, and goes out.  Nothing
\* has looked at the marks.
CopyIn(r) ==
  LET rq == requests[r]
      shift == rq.slba - First(Head(rq.ranges))
      lba == {b + shift : b \in Head(rq.ranges)}
      data == [b \in Blocks |-> IF b \in lba THEN media[b - shift] ELSE 0]
  IN /\ rq.op = "copyin"
     /\ \/ /\ lba \subseteq Blocks
           /\ requests' = [Begun(requests, lba, data) EXCEPT ![r] =
                [rq EXCEPT !.op = "copyout", !.lba = lba, !.todo = lba, !.data = data]]
        \/ requests' = [requests EXCEPT ![r] = NoRequest]
     /\ UNCHANGED <<uncorrectable, nwps, nsattr, media, latest>>

NextRange(rq) ==
  IF Len(rq.ranges) = 1 THEN NoRequest
  ELSE [NoRequest EXCEPT !.op = "copyin", !.ranges = Tail(rq.ranges),
                         !.slba = rq.slba + Cardinality(rq.lba)]

\* nvme_copy_out_completed_cb: per range, whatever becomes of the next.
CopyOutDone(r) ==
  LET rq == requests[r]
      rest == [requests EXCEPT ![r] = NextRange(rq)]
  IN /\ rq.op = "copyout" /\ rq.todo = {}
     /\ uncorrectable' = uncorrectable \ Cleared(rq)
     /\ requests' = Covered(rest, rq.lba, rq.data, rq.seen)
     /\ latest' = Latest(rq.lba, rq.data, rq.seen)
     /\ UNCHANGED <<nwps, nsattr, media>>

-----------------------------------------------------------------------------
(* Write protection                                                        *)

\* id->nwpc has the bits of the states 1 and 3.
Protections == {0, 1, 3}

MutantMayProtect(state) == TRUE                                \* no check of the present state

\* Neither a permanent state nor, until the power cycle, a state 2 is left.
MayProtect(state) == (nwps = 3 => state = 3) /\ (nwps = 2 => state >= 2)

\* Set Features, NVME_NS_WRITE_PROTECTION, for a namespace there is.
SetProtection(state) ==
  /\ state \in Protections /\ MayProtect(state)
  /\ nsattr' = IF state > 0 THEN 1 ELSE 0
  /\ nwps' = state
  /\ UNCHANGED <<uncorrectable, media, requests, latest>>

\* hmp_nvme_issue_power_cycle: nothing but the protection is cycled.
PowerCycle ==
  /\ nwps' = IF nwps = 2 THEN 0 ELSE nwps
  /\ nsattr' = IF nwps = 2 THEN 0 ELSE nsattr
  /\ UNCHANGED <<uncorrectable, media, requests, latest>>

-----------------------------------------------------------------------------

BlockStep(r) ==
  \/ \E b \in Blocks : WriteBlock(r, b)
  \/ ReadDone(r) \/ WriteDone(r) \/ WriteFails(r) \/ CopyIn(r) \/ CopyOutDone(r)

IoNext ==
  \/ \E r \in Requests, lba \in Extents :
       Read(r, lba) \/ Dsm(r, lba) \/ \E v \in Contents : Write(r, lba, v)
  \/ \E r \in Requests, ranges \in CopyRanges, slba \in Blocks : Copy(r, ranges, slba)
  \/ \E lba \in Extents : WriteUncor(lba)
  \/ \E r \in Requests : BlockStep(r)
  \/ \E state \in 0..3 : SetProtection(state)
  \/ PowerCycle

IoSpec == IoInit /\ [][IoNext]_ioVars

-----------------------------------------------------------------------------
(* Properties                                                              *)

RequestSet ==
  [op : {"none", "read", "write", "dsm", "copyin", "copyout"},
   lba : SUBSET Blocks, data : [Blocks -> Contents], todo : SUBSET Blocks,
   ranges : Seq(Extents), slba : Nat,
   seen : [Blocks -> SUBSET (Contents \cup {Uncor})]]

IoTypeOK ==
  /\ uncorrectable \subseteq Blocks
  /\ nwps \in 0..3 /\ nsattr \in {0, 1}
  /\ media \in [Blocks -> Contents]
  /\ requests \in [Requests -> RequestSet]
  /\ latest \in [Blocks -> SUBSET (Contents \cup {Uncor})]

\* A read returns for each block what a write that was out beside it, or one of
\* the last to end before it, left there, and is refused only because of a
\* block a Write Uncorrectable was the last, or one of the last, to touch.  An
\* acknowledged Write Uncorrectable is so read as an error until a later write
\* has ended, and an acknowledged write as its data, for a host that marks no
\* block it has a write out to.
ReadsAreRegular ==
  /\ \A r \in Requests : requests[r].op = "read" =>
       \A b \in requests[r].lba : media[b] \in requests[r].seen[b]
  /\ \A b \in uncorrectable : Uncor \in latest[b]

\* Permanent protection outlives every Set Features and power cycle, and the
\* attribute the commands look at says what the feature says.
ProtectionStands ==
  [][(nwps = 3 => nwps' = 3) /\ (nsattr' = 1 <=> nwps' > 0)]_ioVars
=============================================================================
