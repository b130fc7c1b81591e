----------------------------- MODULE Controller -----------------------------
(***************************************************************************)
(* The controllers of a subsystem and a namespace they share: the commands *)
(* of NamespaceIo and SelfTest behind the tables of CommandSets, as        *)
(* nvme_io_cmd, nvme_admin_cmd and nvme_set_feature look them up.  The     *)
(* tables are filled when a controller starts and stay as they are.        *)
(***************************************************************************)
EXTENDS NamespaceIo, SelfTest, CommandSets

CONSTANTS
  ParamChoices,   \* the parameters the controllers may have been given
  SelfTestCodes   \* values of the self-test code, dw10 & 0xf

ASSUME ControllerAssumption ==
  /\ ParamChoices \subseteq [Controllers -> Params]
  /\ SelfTestCodes \subseteq 0..15

VARIABLES
  params,         \* the controllers' parameters
  iocs, acs       \* n->iocs.nvm and n->acs: the opcodes whose CSUPP bit is set

tables == <<params, iocs, acs>>

vars == <<params, iocs, acs, uncorrectable, nwps, nsattr, media, requests, latest,
          dstList, current, hours, tests>>

Init ==
  /\ params \in ParamChoices
  /\ iocs = [c \in Controllers |-> nvme_init_cse_iocs(params[c])]
  /\ acs = [c \in Controllers |-> nvme_init_cse_acs(params[c])]
  /\ IoInit /\ DstInit

\* An I/O command reaches its handler through a queue that was created, and
\* with an opcode that is enabled.
nvme_io_cmd(c) ==
  \E r \in Requests :
    \/ "READ" \in iocs[c] /\ \E lba \in Extents : Read(r, lba)
    \/ "WRITE" \in iocs[c] /\ \E lba \in Extents, v \in Contents \ {0} : Write(r, lba, v)
    \/ "WRITE_ZEROES" \in iocs[c] /\ \E lba \in Extents : Write(r, lba, 0)
    \/ "DSM" \in iocs[c] /\ \E lba \in Extents : Dsm(r, lba)
    \/ "COPY" \in iocs[c] /\ \E ranges \in CopyRanges, slba \in Blocks : Copy(r, ranges, slba)
    \/ "WRITE_UNCOR" \in iocs[c] /\ \E lba \in Extents : WriteUncor(lba)

nvme_set_feature(c) ==
  /\ "SET_FEATURES" \in acs[c]
  /\ nvme_check_fid_support(params[c], "NS_WRITE_PROTECTION")
  /\ \E state \in 0..3 : SetProtection(state)

nvme_admin_cmd(c) ==
  /\ "DST" \in acs[c]
  /\ \E nsid \in Nsids, stc \in SelfTestCodes, failed \in BOOLEAN, now \in 0..MaxHours :
       nvme_dst(c, nsid, stc, failed, now)

IoStep ==
  \/ \E c \in Controllers : "CREATE_SQ" \in acs[c] /\ nvme_io_cmd(c)
  \/ \E c \in Controllers : nvme_set_feature(c)
  \/ \E r \in Requests : BlockStep(r)
  \/ PowerCycle

Next ==
  \/ IoStep /\ UNCHANGED <<tables, dstVars>>
  \/ \E c \in Controllers : nvme_admin_cmd(c) /\ UNCHANGED <<tables, ioVars>>

Spec == Init /\ [][Next]_vars

-----------------------------------------------------------------------------
(* Properties                                                              *)

TypeOK == params \in ParamChoices /\ IoTypeOK /\ DstTypeOK

\* What no controller of the subsystem was given leaves no trace in the
\* namespace or in a log, however the commands of the others interleave: no
\* marked block without Write Uncorrectable, no result without self-tests, and
\* under administrative controllers alone no I/O and no protection.
GatedLeaveNoTrace ==
  /\ (\A c \in Controllers : params[c].administrative \/ "WRITE_UNCOR" \notin params[c].oncs)
       => uncorrectable = {}
  /\ \A c \in Controllers : "DST" \notin params[c].oacs =>
       \A i \in Entries : ~Used(dstList[c][i])
  /\ (\A c \in Controllers : params[c].administrative)
       => /\ \A r \in Requests : Free(r)
          /\ nwps = IF PermWrProtect THEN 3 ELSE 0
=============================================================================
