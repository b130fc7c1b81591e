--------------------------- MODULE BootPartition ---------------------------
(***************************************************************************)
(* The boot partitions of                                                  *)
(* patches/boot-partitions/add-support-for-boot-partitions.patch: two      *)
(* partitions on one block device.  The host downloads an image into a     *)
(* buffer of the controller and commits it to a partition with admin       *)
(* commands, activates a partition, and reads one through the BPRSEL,      *)
(* BPMBL and BPINFO registers, which work while the controller is disabled *)
(* too.  Commits and register reads run on the block layer and end in a    *)
(* callback; nothing orders them with each other, with downloads or with   *)
(* a controller reset.                                                     *)
(*                                                                         *)
(* A partition is a sequence of blocks that are copied one at a time (a    *)
(* block stands for the unit of a command: a dword of a download, 4 KiB of *)
(* a register read).  A command that is refused is a stuttering step.      *)
(***************************************************************************)
EXTENDS Integers

CONSTANTS
  BpSize,      \* n->bp_size, in blocks
  Images,      \* what a block can hold
  Buffers,     \* areas of host memory
  Reqs,        \* admin queue slots used for commits
  ReadIds,     \* register reads that can be outstanding together
  DwModulus,   \* 2^30: dword counts and offsets, in bytes, are uint32_t
  DwValues,    \* values of cdw10 and cdw11 of a download
  HostRules    \* what the host keeps to: see HostMay

ASSUME BootAssumption ==
  /\ BpSize \in Nat \ {0}
  /\ DwModulus \in Nat \ {0}
  /\ DwValues \subseteq 0..4 * DwModulus - 1
  /\ HostRules \subseteq {"await_read", "await_commit", "quiesce"}
  /\ Images # {} /\ Buffers # {}

VARIABLES
  enabled,     \* CC.EN: admin commands are taken
  bpData,      \* n->bp_data: the image downloaded so far
  partition,   \* the block device behind bootpart
  brs,         \* BPINFO.BRS
  abpid,       \* BPINFO.ABPID, the active partition
  bpmbl,       \* the BPMBL register
  memory,      \* host memory
  reads,       \* contexts of the outstanding register reads
  commits      \* outstanding writes of commits

vars == <<enabled, bpData, partition, brs, abpid, bpmbl, memory, reads, commits>>

Bpids == {0, 1}
Blocks == 0..BpSize - 1
Extent(off, len) == {b \in Blocks : off <= b /\ b < off + len}

NoRead == [out |-> FALSE]
NoCommit == [out |-> FALSE]
ReadCtx == [out : {TRUE}, part : Bpids, off : 0..BpSize, len : 0..BpSize,
            buf : Buffers, todo : SUBSET Blocks]
\* seen is history: what bp_data has held in each block since the commit was
\* submitted.
Commit == [out : {TRUE}, bpid : Bpids, todo : SUBSET Blocks,
           seen : [Blocks -> SUBSET Images]]

TypeOK ==
  /\ enabled \in BOOLEAN
  /\ bpData \in [Blocks -> Images]
  /\ partition \in [Bpids -> [Blocks -> Images]]
  /\ brs \in {"noread", "reading", "success", "error"}
  /\ abpid \in Bpids
  /\ bpmbl \in Buffers
  /\ memory \in [Buffers -> [Blocks -> Images]]
  /\ reads \in [ReadIds -> ReadCtx \cup {NoRead}]
  /\ commits \in [Reqs -> Commit \cup {NoCommit}]

\* The device holds any contents; bp_data is allocated and not cleared.
Init ==
  /\ enabled = FALSE
  /\ bpData \in [Blocks -> Images]
  /\ \E i \in Images : partition = [p \in Bpids |-> [b \in Blocks |-> i]]
  /\ brs = "noread"
  /\ abpid = 0
  /\ bpmbl \in Buffers
  /\ \E i \in Images : memory = [m \in Buffers |-> [b \in Blocks |-> i]]
  /\ reads = [i \in ReadIds |-> NoRead]
  /\ commits = [r \in Reqs |-> NoCommit]

Reading == {i \in ReadIds : reads[i].out}
Committing == {r \in Reqs : commits[r].out}

\* The host's side.  "await_read": it polls BRS before it selects another read
\* or commits; "await_commit": it selects no read while a commit is written;
\* "quiesce": it does not reset during a read.  Downloads beside a commit, a
\* second commit and a reset during one are free under all three.
HostMay(act) ==
  /\ (act \in {"read", "commit"} /\ "await_read" \in HostRules) => brs # "reading"
  /\ (act = "read" /\ "await_commit" \in HostRules) => Committing = {}
  /\ (act = "reset" /\ "quiesce" \in HostRules) => Reading = {}

-----------------------------------------------------------------------------
(* Firmware Image Download and Firmware Commit                             *)

\* The extent a download writes, the products taken modulo 2^32 as the code
\* takes them.
DownloadLen(numd) == (numd + 1) % DwModulus
DownloadOffset(cdw11) == cdw11 % DwModulus

\* Nothing holds a download back while a commit is writing the buffer out.
FwDownload(numd, cdw11, image) ==
  /\ enabled
  /\ DownloadLen(numd) + DownloadOffset(cdw11) <= BpSize
  /\ bpData' = [b \in Blocks |->
       IF b \in Extent(DownloadOffset(cdw11), DownloadLen(numd)) THEN image ELSE bpData[b]]
  /\ commits' = [r \in Reqs |->
       IF commits[r].out
       THEN [commits[r] EXCEPT !.seen = [b \in Blocks |-> @[b] \cup {bpData'[b]}]]
       ELSE NoCommit]
  /\ UNCHANGED <<enabled, partition, brs, abpid, bpmbl, memory, reads>>

\* One block past the end of the partition.
MutantCommitExtentPast == 0..BpSize

\* Writes the image without its last block.
MutantCommitExtent == {b \in Blocks : b + 1 < BpSize}
CommitExtent == Blocks

\* Commit action 6: the buffer itself is handed to the block layer.
FwReplaceBp(r, bpid) ==
  /\ enabled /\ HostMay("commit")
  /\ ~commits[r].out
  /\ commits' = [commits EXCEPT ![r] =
       [out |-> TRUE, bpid |-> bpid, todo |-> CommitExtent,
        seen |-> [b \in Blocks |-> {bpData[b]}]]]
  /\ UNCHANGED <<enabled, bpData, partition, brs, abpid, bpmbl, memory, reads>>

\* Commit action 7.
FwActivateBp(bpid) ==
  /\ enabled
  /\ abpid' = bpid
  /\ UNCHANGED <<enabled, bpData, partition, brs, bpmbl, memory, reads, commits>>

\* The block layer writes a block of a commit.
CommitBlock(r, b) ==
  /\ commits[r].out /\ b \in commits[r].todo
  /\ partition' = [partition EXCEPT ![commits[r].bpid][b] = bpData[b]]
  /\ commits' = [commits EXCEPT ![r].todo = @ \ {b}]
  /\ UNCHANGED <<enabled, bpData, brs, abpid, bpmbl, memory, reads>>

\* nvme_fw_commit_cb: the write ended, or failed anywhere on the way.
CommitDone(r, ok) ==
  /\ commits[r].out
  /\ ok => commits[r].todo = {}
  /\ commits' = [commits EXCEPT ![r] = NoCommit]
  /\ UNCHANGED <<enabled, bpData, partition, brs, abpid, bpmbl, memory, reads>>

-----------------------------------------------------------------------------
(* The registers                                                           *)

\* Reports the read as started without starting it.
MutantSelectedRead(off, len) == NoRead

\* NVME_BPRSEL_BPID is applied to BPINFO, whose bit 31 is ABPID: the active
\* partition is read, whichever BPRSEL names.
SelectedRead(off, len) ==
  [out |-> TRUE, part |-> abpid, off |-> off, len |-> len, buf |-> bpmbl,
   todo |-> Extent(off, len)]

\* A read that does not fit ends at once, and shows the error also for a read
\* that is still out.  A read of no blocks fits, and is started like any other.
WriteBprsel(i, off, len) ==
  /\ HostMay("read") /\ i \notin Reading
  /\ \/ /\ off + len > BpSize
        /\ brs' = "error"
        /\ UNCHANGED reads
     \/ /\ off + len <= BpSize
        /\ brs' = "reading"
        /\ reads' = [reads EXCEPT ![i] = SelectedRead(off, len)]
  /\ UNCHANGED <<enabled, bpData, partition, abpid, bpmbl, memory, commits>>

WriteBpmbl(buf) ==
  /\ bpmbl' = buf
  /\ UNCHANGED <<enabled, bpData, partition, brs, abpid, memory, reads, commits>>

\* The block layer brings a block of a read into host memory.
MutantReadBlock(i, b) ==   \* to where BPMBL points now
  /\ reads[i].out /\ b \in reads[i].todo
  /\ memory' = [memory EXCEPT ![bpmbl][b - reads[i].off] = partition[reads[i].part][b]]
  /\ reads' = [reads EXCEPT ![i].todo = @ \ {b}]
  /\ UNCHANGED <<enabled, bpData, partition, brs, abpid, bpmbl, commits>>

ReadBlock(i, b) ==
  /\ reads[i].out /\ b \in reads[i].todo
  /\ memory' = [memory EXCEPT ![reads[i].buf][b - reads[i].off] =
                                 partition[reads[i].part][b]]
  /\ reads' = [reads EXCEPT ![i].todo = @ \ {b}]
  /\ UNCHANGED <<enabled, bpData, partition, brs, abpid, bpmbl, commits>>

\* Leaves BRS as it was.
MutantReadDone(i, ok) ==
  /\ reads[i].out
  /\ ok => reads[i].todo = {}
  /\ reads' = [reads EXCEPT ![i] = NoRead]
  /\ UNCHANGED <<enabled, bpData, partition, brs, abpid, bpmbl, memory, commits>>

\* nvme_bp_read_cb
ReadDone(i, ok) ==
  /\ reads[i].out
  /\ ok => reads[i].todo = {}
  /\ reads' = [reads EXCEPT ![i] = NoRead]
  /\ brs' = IF ok THEN "success" ELSE "error"
  /\ UNCHANGED <<enabled, bpData, partition, abpid, bpmbl, memory, commits>>

\* CC.EN from 1 to 0: the queues go and BRS is cleared; block I/O goes on, that of
\* a commit whose request is gone too.
Disable ==
  /\ enabled /\ HostMay("reset")
  /\ enabled' = FALSE
  /\ brs' = "noread"
  /\ UNCHANGED <<bpData, partition, abpid, bpmbl, memory, reads, commits>>

Enable ==
  /\ ~enabled
  /\ enabled' = TRUE
  /\ UNCHANGED <<bpData, partition, brs, abpid, bpmbl, memory, reads, commits>>

-----------------------------------------------------------------------------

AdminCommand ==
  \/ \E numd, cdw11 \in DwValues, image \in Images : FwDownload(numd, cdw11, image)
  \/ \E bpid \in Bpids : FwActivateBp(bpid) \/ \E r \in Reqs : FwReplaceBp(r, bpid)

RegisterWrite ==
  \/ \E i \in ReadIds, off \in 0..BpSize, len \in 0..BpSize : WriteBprsel(i, off, len)
  \/ \E buf \in Buffers : WriteBpmbl(buf)
  \/ Disable
  \/ Enable

ReadStep(i) == (\E b \in Blocks : ReadBlock(i, b)) \/ \E ok \in BOOLEAN : ReadDone(i, ok)
CommitStep(r) == (\E b \in Blocks : CommitBlock(r, b)) \/ \E ok \in BOOLEAN : CommitDone(r, ok)

Next ==
  \/ AdminCommand
  \/ RegisterWrite
  \/ \E i \in ReadIds : ReadStep(i)
  \/ \E r \in Reqs : CommitStep(r)

\* The block layer ends every request it has accepted, a commit always and a
\* read that asks for something.  Of a DMA of no bytes nothing is assumed.
BusyReadStep(i) == reads[i].out /\ reads[i].len > 0 /\ ReadStep(i)

Fairness ==
  /\ \A i \in ReadIds : WF_vars(BusyReadStep(i))
  /\ \A r \in Reqs : WF_vars(CommitStep(r))

Spec == Init /\ [][Next]_vars /\ Fairness

-----------------------------------------------------------------------------
(* Properties                                                              *)

\* A host that polls BRS for the end of a read waits for a callback that will
\* come: BRS says READING only while a read is outstanding.
ReadingMeansOutstanding == brs = "reading" => Reading # {}

\* When BRS says SUCCESS, the data is there: no read is still on its way.  A
\* host that resets the controller during a read does not have this.
SuccessMeansRead == brs = "success" => Reading = {}

\* A commit that succeeds leaves in each block of its partition something the
\* download buffer held there while the commit was out: the downloaded image, if
\* nothing was downloaded beside it, and never what the partition held before,
\* whatever commits, downloads, reads and resets go on meanwhile.
CommitStoresImage ==
  [][\A r \in Reqs :
       (commits[r].out /\ CommitDone(r, TRUE)) =>
         \A b \in Blocks : partition[commits[r].bpid][b] \in commits[r].seen[b]]_vars

\* A register read that succeeds has put the partition's blocks where BPMBL
\* pointed when it was started.
ReadReturnsPartition ==
  [][\A i \in ReadIds :
       (reads[i].out /\ ReadDone(i, TRUE)) =>
         \A b \in Extent(reads[i].off, reads[i].len) :
           memory[reads[i].buf][b - reads[i].off] = partition[reads[i].part][b]]_vars

\* The host that waits for a read of anything to end gets an answer, also when it
\* has started others on top of it or has reset the controller.
ReadEnds ==
  (brs = "reading" /\ \E i \in Reading : reads[i].len > 0) ~> brs # "reading"
=============================================================================
