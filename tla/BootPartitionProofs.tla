------------------------ MODULE BootPartitionProofs ------------------------
(***************************************************************************)
(* Theorems about BootPartition, for every size, image and host buffer.    *)
(*                                                                         *)
(* What BRS says of reads and what a commit stores holds whatever the host *)
(* does.  That a read returns the partition as it is when the read ends    *)
(* needs a host that keeps to all the rules of HostMay: then a read has    *)
(* the partition to itself (Exclusive), and what it has copied stays.      *)
(***************************************************************************)
EXTENDS BootPartition, TLAPS

USE BootAssumption

\* A context that is out has all its fields.
LEMMA OutTyped ==
  ASSUME TypeOK
  PROVE  /\ \A i \in Reading : reads[i] \in ReadCtx
         /\ \A r \in Committing : commits[r] \in Commit
BY DEF TypeOK, Reading, Committing, NoRead, NoCommit

LEMMA InitTyped == Init => TypeOK
<1> SUFFICES ASSUME Init PROVE TypeOK
  OBVIOUS
<1>1. partition \in [Bpids -> [Blocks -> Images]]
  BY DEF Init
<1>2. memory \in [Buffers -> [Blocks -> Images]]
  BY DEF Init
<1>3. reads \in [ReadIds -> ReadCtx \cup {NoRead}] /\ commits \in [Reqs -> Commit \cup {NoCommit}]
  BY DEF Init
<1> QED BY <1>1, <1>2, <1>3 DEF Init, TypeOK, Bpids

-----------------------------------------------------------------------------
(* Types                                                                   *)

LEMMA AdminTyped ==
  ASSUME TypeOK, AdminCommand
  PROVE  TypeOK'
<1>1. ASSUME NEW numd \in DwValues, NEW cdw11 \in DwValues, NEW image \in Images,
             FwDownload(numd, cdw11, image)
      PROVE  TypeOK'
  <2>1. bpData' \in [Blocks -> Images]
    BY <1>1 DEF FwDownload, TypeOK
  <2>2. ASSUME NEW r \in Reqs, commits[r].out
        PROVE  [commits[r] EXCEPT !.seen = [b \in Blocks |-> @[b] \cup {bpData'[b]}]] \in Commit
    <3>1. commits[r] \in Commit
      BY <2>2, OutTyped DEF Committing
    <3>2. [b \in Blocks |-> commits[r].seen[b] \cup {bpData'[b]}] \in [Blocks -> SUBSET Images]
      BY <2>1, <3>1 DEF Commit
    <3> QED BY <3>1, <3>2 DEF Commit
  <2>3. commits' \in [Reqs -> Commit \cup {NoCommit}]
    BY <1>1, <2>2 DEF FwDownload
  <2> QED BY <1>1, <2>1, <2>3 DEF FwDownload, TypeOK
<1>2. CASE \E bpid \in Bpids : FwActivateBp(bpid)
  BY <1>2 DEF FwActivateBp, TypeOK
<1>3. ASSUME NEW r \in Reqs, NEW bpid \in Bpids, FwReplaceBp(r, bpid)
      PROVE  TypeOK'
  <2>1. [out |-> TRUE, bpid |-> bpid, todo |-> CommitExtent,
         seen |-> [b \in Blocks |-> {bpData[b]}]] \in Commit
    BY DEF Commit, CommitExtent, TypeOK
  <2> QED BY <1>3, <2>1 DEF FwReplaceBp, TypeOK
<1> QED BY <1>1, <1>2, <1>3 DEF AdminCommand

LEMMA RegisterTyped ==
  ASSUME TypeOK, RegisterWrite
  PROVE  TypeOK'
<1>1. ASSUME NEW i \in ReadIds, NEW off \in 0..BpSize, NEW len \in 0..BpSize,
             WriteBprsel(i, off, len)
      PROVE  TypeOK'
  <2>1. SelectedRead(off, len) \in ReadCtx
    BY DEF SelectedRead, ReadCtx, TypeOK, Extent
  <2> QED BY <1>1, <2>1 DEF WriteBprsel, TypeOK
<1>2. CASE \E buf \in Buffers : WriteBpmbl(buf)
  BY <1>2 DEF WriteBpmbl, TypeOK
<1>3. CASE Disable
  BY <1>3 DEF Disable, TypeOK
<1>4. CASE Enable
  BY <1>4 DEF Enable, TypeOK
<1> QED BY <1>1, <1>2, <1>3, <1>4 DEF RegisterWrite

LEMMA ReadTyped ==
  ASSUME TypeOK, NEW i \in ReadIds, ReadStep(i)
  PROVE  TypeOK'
<1>1. ASSUME NEW b \in Blocks, ReadBlock(i, b)
      PROVE  TypeOK'
  <2>1. reads[i] \in ReadCtx
    BY <1>1, OutTyped DEF ReadBlock, Reading
  <2>2. [reads[i] EXCEPT !.todo = @ \ {b}] \in ReadCtx
    BY <2>1 DEF ReadCtx
  <2>3. reads' \in [ReadIds -> ReadCtx \cup {NoRead}]
    BY <1>1, <2>2 DEF ReadBlock, TypeOK
  <2>4. partition[reads[i].part][b] \in Images
    BY <2>1 DEF ReadCtx, TypeOK
  <2>5. memory' \in [Buffers -> [Blocks -> Images]]
    BY <1>1, <2>4 DEF ReadBlock, TypeOK
  <2> QED BY <1>1, <2>3, <2>5 DEF ReadBlock, TypeOK
<1>2. CASE \E ok \in BOOLEAN : ReadDone(i, ok)
  BY <1>2 DEF ReadDone, TypeOK
<1> QED BY <1>1, <1>2 DEF ReadStep

LEMMA CommitTyped ==
  ASSUME TypeOK, NEW r \in Reqs, CommitStep(r)
  PROVE  TypeOK'
<1>1. ASSUME NEW b \in Blocks, CommitBlock(r, b)
      PROVE  TypeOK'
  <2>1. commits[r] \in Commit
    BY <1>1, OutTyped DEF CommitBlock, Committing
  <2>2. [commits[r] EXCEPT !.todo = @ \ {b}] \in Commit
    BY <2>1 DEF Commit
  <2>3. commits' \in [Reqs -> Commit \cup {NoCommit}]
    BY <1>1, <2>2 DEF CommitBlock, TypeOK
  <2>4. partition' \in [Bpids -> [Blocks -> Images]]
    BY <1>1, <2>1 DEF CommitBlock, TypeOK
  <2> QED BY <1>1, <2>3, <2>4 DEF CommitBlock, TypeOK
<1>2. CASE \E ok \in BOOLEAN : CommitDone(r, ok)
  BY <1>2 DEF CommitDone, TypeOK
<1> QED BY <1>1, <1>2 DEF CommitStep

LEMMA NextTyped == TypeOK /\ [Next]_vars => TypeOK'
<1> SUFFICES ASSUME TypeOK, [Next]_vars PROVE TypeOK'
  OBVIOUS
<1>1. CASE UNCHANGED vars
  BY <1>1 DEF vars, TypeOK
<1> QED BY <1>1, AdminTyped, RegisterTyped, ReadTyped, CommitTyped DEF Next

\* Every context keeps the shape its callback relies on.
THEOREM TypeCorrect == Spec => []TypeOK
BY InitTyped, NextTyped, PTL DEF Spec

-----------------------------------------------------------------------------
(* Without any rule for the host                                           *)

LEMMA ReadingStep ==
  ASSUME TypeOK, ReadingMeansOutstanding, [Next]_vars
  PROVE  ReadingMeansOutstanding'
<1>1. CASE UNCHANGED <<brs, reads>>
  BY <1>1 DEF ReadingMeansOutstanding, Reading
<1>2. ASSUME NEW i \in ReadIds, NEW off \in 0..BpSize, NEW len \in 0..BpSize,
             WriteBprsel(i, off, len)
      PROVE  ReadingMeansOutstanding'
  <2>1. CASE brs' = "error"
    BY <2>1 DEF ReadingMeansOutstanding
  <2>2. CASE reads' = [reads EXCEPT ![i] = SelectedRead(off, len)]
    <3>1. reads'[i].out
      BY <2>2 DEF TypeOK, SelectedRead
    <3> QED BY <3>1 DEF ReadingMeansOutstanding, Reading
  <2> QED BY <1>2, <2>1, <2>2 DEF WriteBprsel
<1>3. ASSUME NEW i \in ReadIds, NEW b \in Blocks, ReadBlock(i, b)
      PROVE  ReadingMeansOutstanding'
  <2>1. reads'[i].out
    BY <1>3, OutTyped DEF ReadBlock, Reading, ReadCtx, TypeOK
  <2> QED BY <2>1 DEF ReadingMeansOutstanding, Reading
<1>4. ASSUME NEW i \in ReadIds, NEW ok \in BOOLEAN, ReadDone(i, ok)
      PROVE  ReadingMeansOutstanding'
  BY <1>4 DEF ReadDone, ReadingMeansOutstanding
<1>5. CASE Disable
  BY <1>5 DEF Disable, ReadingMeansOutstanding
<1>6. CASE AdminCommand
  BY <1>6, <1>1 DEF AdminCommand, FwDownload, FwActivateBp, FwReplaceBp
<1>7. CASE RegisterWrite
  BY <1>7, <1>1, <1>2, <1>5 DEF RegisterWrite, WriteBpmbl, Enable
<1>8. CASE \E r \in Reqs : CommitStep(r)
  BY <1>8, <1>1 DEF CommitStep, CommitBlock, CommitDone
<1>9. CASE \E i \in ReadIds : ReadStep(i)
  BY <1>9, <1>3, <1>4 DEF ReadStep
<1> QED BY <1>1, <1>6, <1>7, <1>8, <1>9 DEF Next, vars

\* BRS says READING only while a callback is still to come, also when reads
\* overlap and when the controller is reset on the way.
THEOREM ReadingCorrect == Spec => []ReadingMeansOutstanding
<1>1. Init => ReadingMeansOutstanding
  BY DEF Init, ReadingMeansOutstanding
<1> QED BY <1>1, TypeCorrect, ReadingStep, PTL DEF Spec

-----------------------------------------------------------------------------
(* Commits, without any rule for the host                                  *)

\* The history has the buffer of now, and what a commit has copied.
CommitSeen ==
  \A r \in Committing : \A b \in Blocks :
    /\ bpData[b] \in commits[r].seen[b]
    /\ b \notin commits[r].todo => partition[commits[r].bpid][b] \in commits[r].seen[b]

\* A step that gives no commit a block less to copy, forgets none of its history
\* and leaves the partition alone.
LEMMA QuietCommit ==
  ASSUME CommitSeen, partition' = partition,
         \A r \in Committing' :
           /\ r \in Committing /\ commits'[r].bpid = commits[r].bpid
           /\ commits'[r].todo = commits[r].todo
           /\ \A b \in Blocks : /\ commits[r].seen[b] \subseteq commits'[r].seen[b]
                                /\ bpData'[b] \in commits'[r].seen[b]
  PROVE  CommitSeen'
BY DEF CommitSeen

LEMMA DownloadSeen ==
  ASSUME TypeOK, CommitSeen, NEW numd \in DwValues, NEW cdw11 \in DwValues,
         NEW image \in Images, FwDownload(numd, cdw11, image)
  PROVE  CommitSeen'
<1>1. ASSUME NEW r \in Committing'
      PROVE  /\ r \in Committing /\ commits'[r].bpid = commits[r].bpid
             /\ commits'[r].todo = commits[r].todo
             /\ \A b \in Blocks : /\ commits[r].seen[b] \subseteq commits'[r].seen[b]
                                  /\ bpData'[b] \in commits'[r].seen[b]
  <2>1. r \in Reqs /\ commits'[r].out
    BY <1>1 DEF Committing
  <2>2. r \in Committing
    BY <1>1, <2>1 DEF FwDownload, Committing, NoCommit
  <2>3. commits[r] \in Commit
    BY <2>2, OutTyped
  <2>4. commits'[r] =
          [commits[r] EXCEPT !.seen = [b \in Blocks |-> @[b] \cup {bpData'[b]}]]
    BY <2>1, <2>2 DEF FwDownload, Committing
  <2> QED BY <2>2, <2>3, <2>4 DEF Commit
<1> QED BY <1>1, QuietCommit DEF FwDownload

LEMMA NewCommitSeen ==
  ASSUME TypeOK, CommitSeen, NEW r \in Reqs, NEW bpid \in Bpids, FwReplaceBp(r, bpid)
  PROVE  CommitSeen'
<1>1. commits'[r] = [out |-> TRUE, bpid |-> bpid, todo |-> Blocks,
                     seen |-> [b \in Blocks |-> {bpData[b]}]]
  BY DEF FwReplaceBp, TypeOK, CommitExtent
<1>2. \A s \in Reqs \ {r} : commits'[s] = commits[s]
  BY DEF FwReplaceBp, TypeOK
<1>3. partition' = partition /\ bpData' = bpData
  BY DEF FwReplaceBp
<1>4. ASSUME NEW s \in Committing', NEW b \in Blocks
      PROVE  /\ bpData'[b] \in commits'[s].seen[b]
             /\ b \notin commits'[s].todo
                  => partition'[commits'[s].bpid][b] \in commits'[s].seen[b]
  <2>1. CASE s = r
    BY <1>1, <1>3, <2>1
  <2>2. CASE s # r
    BY <1>2, <1>3, <1>4, <2>2 DEF CommitSeen, Committing
  <2> QED BY <2>1, <2>2
<1> QED BY <1>4 DEF CommitSeen

LEMMA BlockSeen ==
  ASSUME TypeOK, CommitSeen, NEW r \in Reqs, NEW c \in Blocks, CommitBlock(r, c)
  PROVE  CommitSeen'
<1>1. r \in Committing /\ commits[r] \in Commit
  BY OutTyped DEF CommitBlock, Committing
<1>2. /\ commits'[r].bpid = commits[r].bpid /\ commits'[r].seen = commits[r].seen
      /\ commits'[r].todo = commits[r].todo \ {c}
  BY <1>1 DEF CommitBlock, TypeOK, Commit
<1>3. \A s \in Reqs \ {r} : commits'[s] = commits[s]
  BY DEF CommitBlock, TypeOK
<1>4. Committing' \subseteq Committing /\ bpData' = bpData
  BY <1>1, <1>3 DEF CommitBlock, Committing
<1>5. ASSUME NEW s \in Committing', NEW b \in Blocks
      PROVE  /\ bpData'[b] \in commits'[s].seen[b]
             /\ b \notin commits'[s].todo
                  => partition'[commits'[s].bpid][b] \in commits'[s].seen[b]
  <2>1. s \in Committing /\ s \in Reqs /\ commits[s] \in Commit
    BY <1>4, <1>5, OutTyped DEF Committing
  <2>2. commits'[s].seen = commits[s].seen /\ commits'[s].bpid = commits[s].bpid
    BY <1>2, <1>3, <2>1
  <2>3. bpData'[b] \in commits'[s].seen[b]
    BY <1>4, <2>1, <2>2 DEF CommitSeen
  <2>4. CASE commits[s].bpid = commits[r].bpid /\ b = c
    BY <1>1, <1>4, <2>1, <2>2, <2>3, <2>4 DEF CommitBlock, TypeOK, Commit
  <2>5. CASE ~(commits[s].bpid = commits[r].bpid /\ b = c)
    <3>1. partition'[commits[s].bpid][b] = partition[commits[s].bpid][b]
      BY <1>1, <2>1, <2>5 DEF CommitBlock, TypeOK, Commit
    <3>2. b \notin commits'[s].todo => b \notin commits[s].todo
      <4>1. CASE s = r
        BY <1>2, <2>5, <4>1
      <4>2. CASE s # r
        BY <1>3, <2>1, <4>2
      <4> QED BY <4>1, <4>2
    <3> QED BY <2>1, <2>2, <2>3, <3>1, <3>2 DEF CommitSeen
  <2> QED BY <2>4, <2>5
<1> QED BY <1>5 DEF CommitSeen

LEMMA DoneSeen ==
  ASSUME TypeOK, CommitSeen, NEW r \in Reqs, NEW ok \in BOOLEAN, CommitDone(r, ok)
  PROVE  CommitSeen'
<1>1. \A s \in Committing' : s \in Committing /\ commits'[s] = commits[s]
  BY DEF CommitDone, TypeOK, Committing, NoCommit
<1> QED BY <1>1 DEF CommitDone, CommitSeen

LEMMA NextSeen ==
  ASSUME TypeOK, CommitSeen, [Next]_vars
  PROVE  CommitSeen'
<1>1. CASE UNCHANGED <<bpData, partition, commits>>
  BY <1>1 DEF CommitSeen, Committing
<1>2. CASE AdminCommand
  BY <1>1, <1>2, DownloadSeen, NewCommitSeen DEF AdminCommand, FwActivateBp
<1>3. CASE RegisterWrite
  BY <1>1, <1>3 DEF RegisterWrite, WriteBprsel, WriteBpmbl, Disable, Enable
<1>4. CASE \E i \in ReadIds : ReadStep(i)
  BY <1>1, <1>4 DEF ReadStep, ReadBlock, ReadDone
<1>5. CASE \E r \in Reqs : CommitStep(r)
  BY <1>5, BlockSeen, DoneSeen DEF CommitStep
<1> QED BY <1>1, <1>2, <1>3, <1>4, <1>5 DEF Next, vars

\* Whatever the host does beside it, a commit that has succeeded has put into
\* every block of its partition what the download buffer held there while it was
\* out.
THEOREM CommitCorrect == Spec => CommitStoresImage
<1>1. Init => CommitSeen
  BY DEF Init, CommitSeen, Committing, NoCommit
<1>2. TypeOK /\ CommitSeen /\ [Next]_vars =>
        [\A r \in Reqs :
           (commits[r].out /\ CommitDone(r, TRUE)) =>
             \A b \in Blocks : partition[commits[r].bpid][b] \in commits[r].seen[b]]_vars
  <2> SUFFICES ASSUME TypeOK, CommitSeen, NEW r \in Reqs, commits[r].out,
                      CommitDone(r, TRUE), NEW b \in Blocks
               PROVE  partition[commits[r].bpid][b] \in commits[r].seen[b]
    OBVIOUS
  <2>1. r \in Committing /\ commits[r].todo = {}
    BY DEF Committing, CommitDone
  <2> QED BY <2>1 DEF CommitSeen
<1> QED BY <1>1, <1>2, TypeCorrect, NextSeen, PTL DEF Spec, CommitStoresImage

-----------------------------------------------------------------------------
(* With a host that keeps to the rules                                     *)

Polite == HostRules = {"await_read", "await_commit", "quiesce"}

\* One read is out and no commit beside it, and BRS tells of the read.
Exclusive ==
  /\ \A i, j \in Reading : i = j
  /\ Committing = {} \/ Reading = {}
  /\ Reading # {} => brs = "reading"

\* What a read has copied is still the copy.
ReadCopied ==
  \A i \in Reading :
    /\ reads[i].off + reads[i].len <= BpSize
    /\ \A b \in Extent(reads[i].off, reads[i].len) \ reads[i].todo :
         memory[reads[i].buf][b - reads[i].off] = partition[reads[i].part][b]

Inv == TypeOK /\ Exclusive /\ ReadCopied

LEMMA InitPolite == Init => Inv
<1> SUFFICES ASSUME Init PROVE Inv
  OBVIOUS
<1>1. Reading = {} /\ Committing = {}
  BY DEF Init, Reading, Committing, NoRead, NoCommit
<1> QED BY <1>1, InitTyped DEF Inv, Exclusive, ReadCopied

\* A step that touches no read, no partition and no memory, and adds no commit.
LEMMA QuietInv ==
  ASSUME Inv, UNCHANGED <<reads, partition, memory, brs>>, Committing' \subseteq Committing
  PROVE  (Exclusive /\ ReadCopied)'
<1> USE DEF Inv
<1>1. Reading' = Reading
  BY DEF Reading
<1>2. Exclusive'
  BY <1>1 DEF Exclusive
<1>3. ReadCopied'
  BY <1>1 DEF ReadCopied
<1> QED BY <1>2, <1>3

\* A step after which no read is out.
LEMMA NoReadInv == Reading' = {} => (Exclusive /\ ReadCopied)'
BY DEF Exclusive, ReadCopied

LEMMA AdminPolite ==
  ASSUME Polite, Inv, AdminCommand
  PROVE  (Exclusive /\ ReadCopied)'
<1> USE DEF Inv
<1>1. ASSUME NEW numd \in DwValues, NEW cdw11 \in DwValues, NEW image \in Images,
             FwDownload(numd, cdw11, image)
      PROVE  (Exclusive /\ ReadCopied)'
  <2>1. Committing' \subseteq Committing
    BY <1>1 DEF FwDownload, Committing, NoCommit
  <2> QED BY <1>1, <2>1, QuietInv DEF FwDownload
<1>2. CASE \E bpid \in Bpids : FwActivateBp(bpid)
  <2>1. Committing' = Committing
    BY <1>2 DEF FwActivateBp, Committing
  <2> QED BY <1>2, <2>1, QuietInv DEF FwActivateBp
<1>3. ASSUME NEW r \in Reqs, NEW bpid \in Bpids, FwReplaceBp(r, bpid)
      PROVE  (Exclusive /\ ReadCopied)'
  <2>1. Reading = {}
    BY <1>3 DEF FwReplaceBp, HostMay, Polite, Exclusive
  <2>2. Reading' = {}
    BY <1>3, <2>1 DEF FwReplaceBp, Reading
  <2> QED BY <2>2, NoReadInv
<1> QED BY <1>1, <1>2, <1>3 DEF AdminCommand

LEMMA RegisterPolite ==
  ASSUME Polite, Inv, RegisterWrite
  PROVE  (Exclusive /\ ReadCopied)'
<1> USE DEF Inv
<1>1. ASSUME NEW i \in ReadIds, NEW off \in 0..BpSize, NEW len \in 0..BpSize,
             WriteBprsel(i, off, len)
      PROVE  (Exclusive /\ ReadCopied)'
  <2>1. Committing = {} /\ Reading = {}
    BY <1>1 DEF WriteBprsel, HostMay, Polite, Exclusive
  <2>2. Committing' = {}
    BY <1>1, <2>1 DEF WriteBprsel, Committing
  <2>4. CASE UNCHANGED reads
    <3>1. Reading' = {}
      BY <2>1, <2>4 DEF Reading
    <3> QED BY <3>1, NoReadInv
  <2>5. CASE /\ off + len <= BpSize
             /\ brs' = "reading"
             /\ reads' = [reads EXCEPT ![i] = SelectedRead(off, len)]
    <3>1. reads'[i] = SelectedRead(off, len)
      BY <2>5 DEF TypeOK
    <3>2. \A j \in ReadIds \ {i} : reads'[j] = reads[j]
      BY <2>5 DEF TypeOK
    <3>3. Reading' = {i}
      BY <2>1, <3>1, <3>2 DEF Reading, SelectedRead
    <3>4. ReadCopied'
      BY <2>5, <3>1, <3>3 DEF ReadCopied, SelectedRead
    <3> QED BY <2>2, <2>5, <3>3, <3>4 DEF Exclusive
  <2> QED BY <1>1, <2>4, <2>5 DEF WriteBprsel
<1>2. CASE \E buf \in Buffers : WriteBpmbl(buf)
  <2>1. Committing' = Committing
    BY <1>2 DEF WriteBpmbl, Committing
  <2> QED BY <1>2, <2>1, QuietInv DEF WriteBpmbl
<1>3. CASE Disable
  <2>1. Reading' = {}
    BY <1>3 DEF Disable, HostMay, Polite, Reading
  <2> QED BY <2>1, NoReadInv
<1>4. CASE Enable
  <2>1. Committing' = Committing
    BY <1>4 DEF Enable, Committing
  <2> QED BY <1>4, <2>1, QuietInv DEF Enable
<1> QED BY <1>1, <1>2, <1>3, <1>4 DEF RegisterWrite

LEMMA ReadPolite ==
  ASSUME Inv, NEW i \in ReadIds, ReadStep(i)
  PROVE  (Exclusive /\ ReadCopied)'
<1> USE DEF Inv
<1>1. i \in Reading /\ Reading = {i} /\ Committing = {} /\ brs = "reading"
  BY DEF ReadStep, ReadBlock, ReadDone, Reading, Exclusive
<1>2. Committing' = {}
  BY <1>1 DEF ReadStep, ReadBlock, ReadDone, Committing
<1>3. ASSUME NEW b \in Blocks, ReadBlock(i, b)
      PROVE  (Exclusive /\ ReadCopied)'
  <2>1. reads[i] \in ReadCtx
    BY <1>1, OutTyped
  <2>2. /\ reads'[i].out = TRUE /\ reads'[i].part = reads[i].part
        /\ reads'[i].off = reads[i].off /\ reads'[i].len = reads[i].len
        /\ reads'[i].buf = reads[i].buf /\ reads'[i].todo = reads[i].todo \ {b}
    BY <1>3, <2>1 DEF ReadBlock, TypeOK, ReadCtx
  <2>3. \A j \in ReadIds \ {i} : reads'[j] = reads[j]
    BY <1>3 DEF ReadBlock, TypeOK
  <2>4. Reading' = {i}
    BY <1>1, <2>2, <2>3 DEF Reading
  <2>5. Exclusive'
    BY <1>1, <1>2, <1>3, <2>4 DEF Exclusive, ReadBlock
  <2>6. ReadCopied'
    <3>1. reads[i].off + reads[i].len <= BpSize
      BY <1>1 DEF ReadCopied
    <3> SUFFICES ASSUME NEW c \in Extent(reads[i].off, reads[i].len),
                        c \notin reads[i].todo \ {b}
                 PROVE  memory'[reads[i].buf][c - reads[i].off] = partition[reads[i].part][c]
      BY <1>3, <2>2, <2>4, <3>1 DEF ReadCopied, ReadBlock
    <3>2. c \in Blocks /\ c - reads[i].off \in Blocks
      <4>2. c \in 0..BpSize - 1 /\ reads[i].off <= c
        BY DEF Extent, Blocks
      <4> DEFINE off == reads[i].off
      <4>3. off \in 0..BpSize
        BY <2>1 DEF ReadCtx, Blocks
      <4>4. off <= c
        BY <4>2
      <4> HIDE DEF off
      <4>5. c - off \in 0..BpSize - 1
        BY <4>2, <4>3, <4>4
      <4> QED BY <4>2, <4>5 DEF off, Blocks
    <3>3. CASE c = b
      BY <1>3, <2>1, <3>2, <3>3 DEF ReadBlock, TypeOK, ReadCtx
    <3>4. CASE c # b
      <4>1. c - reads[i].off # b - reads[i].off
        <5> DEFINE off == reads[i].off
        <5>1. off \in 0..BpSize
          BY <2>1 DEF ReadCtx, Blocks
        <5> HIDE DEF off
        <5>2. c \in Int /\ b \in Int
          BY <3>2 DEF Blocks
        <5>3. c - off # b - off
          BY <3>4, <5>1, <5>2
        <5> QED BY <5>3 DEF off
      <4>2. memory'[reads[i].buf][c - reads[i].off] = memory[reads[i].buf][c - reads[i].off]
        BY <1>3, <2>1, <3>2, <4>1 DEF ReadBlock, TypeOK, ReadCtx
      <4> QED BY <1>1, <3>4, <4>2 DEF ReadCopied
    <3> QED BY <3>3, <3>4
  <2> QED BY <2>5, <2>6
<1>4. ASSUME NEW ok \in BOOLEAN, ReadDone(i, ok)
      PROVE  (Exclusive /\ ReadCopied)'
  <2>1. Reading' = {}
    BY <1>1, <1>4 DEF ReadDone, Reading, TypeOK, NoRead
  <2> QED BY <2>1, NoReadInv
<1> QED BY <1>2, <1>3, <1>4 DEF ReadStep

LEMMA CommitPolite ==
  ASSUME Inv, NEW r \in Reqs, CommitStep(r)
  PROVE  (Exclusive /\ ReadCopied)'
<1>1. Reading = {}
  BY DEF CommitStep, CommitBlock, CommitDone, Committing, Exclusive, Inv
<1>2. Reading' = {}
  BY <1>1 DEF CommitStep, CommitBlock, CommitDone, Reading
<1> QED BY <1>2, NoReadInv

LEMMA NextPolite ==
  ASSUME Polite
  PROVE  Inv /\ [Next]_vars => Inv'
<1> SUFFICES ASSUME Inv, [Next]_vars PROVE Inv'
  OBVIOUS
<1>1. TypeOK'
  BY NextTyped DEF Inv
<1>2. CASE UNCHANGED vars
  <2>1. Committing' = Committing
    BY <1>2 DEF vars, Committing
  <2> QED BY <1>1, <1>2, <2>1, QuietInv DEF Inv, vars
<1>3. CASE Next
  BY <1>1, <1>3, AdminPolite, RegisterPolite, ReadPolite, CommitPolite DEF Inv, Next
<1> QED BY <1>2, <1>3

\* A host that keeps to the rules has the partition's blocks in its buffer when
\* its read has succeeded.
THEOREM ReadCorrect ==
  ASSUME Polite
  PROVE  Spec => ReadReturnsPartition
<1>1. Inv /\ [Next]_vars =>
        [\A i \in ReadIds :
           (reads[i].out /\ ReadDone(i, TRUE)) =>
             \A b \in Extent(reads[i].off, reads[i].len) :
               memory[reads[i].buf][b - reads[i].off] = partition[reads[i].part][b]]_vars
  <2> SUFFICES ASSUME Inv, NEW i \in ReadIds, reads[i].out, ReadDone(i, TRUE),
                      NEW b \in Extent(reads[i].off, reads[i].len)
               PROVE  memory[reads[i].buf][b - reads[i].off] = partition[reads[i].part][b]
    OBVIOUS
  <2> QED BY DEF Inv, ReadCopied, ReadDone, Reading
<1> QED BY <1>1, InitPolite, NextPolite, PTL DEF Spec, ReadReturnsPartition
=============================================================================
