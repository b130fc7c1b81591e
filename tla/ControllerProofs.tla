-------------------------- MODULE ControllerProofs --------------------------
(***************************************************************************)
(* Proofs about Controller, for any number of controllers, whatever their  *)
(* parameters: behind the command tables the namespace and the self-test   *)
(* logs behave as NamespaceIo and SelfTest say, so what was proved of      *)
(* these holds of the whole, and a feature no controller was given leaves  *)
(* no trace.                                                               *)
(***************************************************************************)
EXTENDS Controller, NamespaceIoProofs, SelfTestProofs

-----------------------------------------------------------------------------
(* The parts behind the tables                                             *)

LEMMA IoStepIsIoNext == IoStep => IoNext
<1>1. ASSUME NEW c \in Controllers, nvme_io_cmd(c) PROVE IoNext
  <2>1. 0 \in Contents
    BY NamespaceIoAssumption
  <2> QED BY <1>1, <2>1 DEF nvme_io_cmd, IoNext
<1>2. ASSUME NEW c \in Controllers, nvme_set_feature(c) PROVE IoNext
  BY <1>2 DEF nvme_set_feature, IoNext
<1>3. ASSUME NEW r \in Requests, BlockStep(r) PROVE IoNext
  BY <1>3 DEF IoNext
<1>4. ASSUME PowerCycle PROVE IoNext
  BY <1>4 DEF IoNext
<1> QED BY <1>1, <1>2, <1>3, <1>4 DEF IoStep

LEMMA AdminStepIsDstNext ==
  ASSUME NEW c \in Controllers, nvme_admin_cmd(c)
  PROVE  DstNext
BY ControllerAssumption DEF nvme_admin_cmd, DstNext

LEMMA Parts == [Next]_vars => [IoNext]_ioVars /\ [DstNext]_dstVars
BY IoStepIsIoNext, AdminStepIsDstNext DEF Next, vars, ioVars, dstVars

\* The controllers do to the namespace only what its handlers do, and to the
\* logs only what the self-test command does.
THEOREM ImplementsParts == Spec => IoSpec /\ DstSpec
<1>1. Init => IoInit /\ DstInit
  BY DEF Init
<1> QED BY <1>1, Parts, PTL DEF Spec, IoSpec, DstSpec

-----------------------------------------------------------------------------
(* Gating.  The tables stay as they were filled; under administrative      *)
(* controllers alone no request is ever admitted, which rules out all the  *)
(* steps of the block layer.                                               *)

AllAdministrative == \A c \in Controllers : params[c].administrative

GateInv ==
  /\ params \in ParamChoices
  /\ iocs = [c \in Controllers |-> nvme_init_cse_iocs(params[c])]
  /\ acs = [c \in Controllers |-> nvme_init_cse_acs(params[c])]
  /\ dstList \in [Controllers -> [Entries -> EntrySet]]
  /\ AllAdministrative => /\ \A r \in Requests : requests[r] = NoRequest
                          /\ nwps = IF PermWrProtect THEN 3 ELSE 0
  /\ GatedLeaveNoTrace

LEMMA TableFacts ==
  ASSUME GateInv, NEW c \in Controllers
  PROVE  /\ params[c].administrative => iocs[c] = {} /\ "CREATE_SQ" \notin acs[c]
         /\ "WRITE_UNCOR" \in iocs[c] =>
              ~params[c].administrative /\ "WRITE_UNCOR" \in params[c].oncs
         /\ "DST" \in acs[c] => "DST" \in params[c].oacs
         /\ nvme_check_fid_support(params[c], "NS_WRITE_PROTECTION") =>
              ~params[c].administrative
<1>1. iocs[c] = nvme_init_cse_iocs(params[c]) /\ acs[c] = nvme_init_cse_acs(params[c])
  BY DEF GateInv
<1>2. params[c] \in Params
  BY ControllerAssumption DEF GateInv
<1>3. params[c].administrative => iocs[c] = {}
  BY <1>1 DEF nvme_init_cse_iocs
<1>4. params[c].administrative => "CREATE_SQ" \notin acs[c]
  BY <1>1 DEF nvme_init_cse_acs
<1>5. "WRITE_UNCOR" \in iocs[c] =>
        ~params[c].administrative /\ "WRITE_UNCOR" \in params[c].oncs
  BY <1>1 DEF nvme_init_cse_iocs, VerifyIndex
<1>6. "DST" \in acs[c] => "DST" \in params[c].oacs
  BY <1>1 DEF nvme_init_cse_acs
<1>7. nvme_check_fid_support(params[c], "NS_WRITE_PROTECTION") => ~params[c].administrative
  BY DEF nvme_check_fid_support, AdminFeatures
<1> QED BY <1>3, <1>4, <1>5, <1>6, <1>7

LEMMA GateInit == Init => GateInv
<1> SUFFICES ASSUME Init PROVE GateInv
  OBVIOUS
<1>1. NotUsed \in EntrySet /\ ~Used(NotUsed)
  BY DEF NotUsed, EntrySet, Used, Nsids, NoHours
<1>2. dstList \in [Controllers -> [Entries -> EntrySet]]
  BY <1>1 DEF Init, DstInit
<1>3. \A c \in Controllers, i \in Entries : ~Used(dstList[c][i])
  BY <1>1 DEF Init, DstInit
<1>4. /\ \A r \in Requests : requests[r] = NoRequest /\ Free(r)
      /\ nwps = IF PermWrProtect THEN 3 ELSE 0
      /\ uncorrectable = {}
  BY NoRequestFacts DEF Init, IoInit, Free
<1>5. GatedLeaveNoTrace
  BY <1>3, <1>4 DEF GatedLeaveNoTrace
<1> QED BY <1>2, <1>4, <1>5 DEF GateInv, Init

\* Marks are made by Write Uncorrectable alone.
LEMMA MarksGated ==
  ASSUME GateInv, IoStep, uncorrectable = {}, uncorrectable' # {}
  PROVE  \E c \in Controllers : ~params[c].administrative /\ "WRITE_UNCOR" \in params[c].oncs
<1>1. ASSUME NEW c \in Controllers, nvme_io_cmd(c)
      PROVE  "WRITE_UNCOR" \in iocs[c]
  BY <1>1 DEF nvme_io_cmd, Read, Write, Dsm, Copy
<1>2. ASSUME NEW r \in Requests, BlockStep(r) PROVE FALSE
  BY <1>2 DEF BlockStep, WriteBlock, ReadDone, WriteDone, WriteFails, CopyIn, CopyOutDone
<1>3. ASSUME NEW c \in Controllers, nvme_set_feature(c) PROVE FALSE
  BY <1>3 DEF nvme_set_feature, SetProtection
<1>4. ~PowerCycle
  BY DEF PowerCycle
<1> QED BY <1>1, <1>2, <1>3, <1>4, TableFacts DEF IoStep

\* Under administrative controllers alone nothing reaches the namespace.
LEMMA AdministrativeIsQuiet ==
  ASSUME GateInv, AllAdministrative, IoStep
  PROVE  UNCHANGED <<requests, nwps>>
<1>1. \A c \in Controllers :
        "CREATE_SQ" \notin acs[c] /\ ~nvme_check_fid_support(params[c], "NS_WRITE_PROTECTION")
  BY TableFacts DEF AllAdministrative
<1>2. \A c \in Controllers : ~nvme_set_feature(c)
  BY <1>1 DEF nvme_set_feature
<1>3. ASSUME NEW r \in Requests PROVE ~BlockStep(r)
  <2>1. requests[r].op = "none" /\ requests[r].todo = {}
    BY NoRequestFacts DEF GateInv
  <2> QED BY <2>1 DEF BlockStep, WriteBlock, ReadDone, WriteDone, WriteFails, CopyIn, CopyOutDone
<1>4. PowerCycle => UNCHANGED <<requests, nwps>>
  BY DEF PowerCycle, GateInv
<1> QED BY <1>1, <1>2, <1>3, <1>4 DEF IoStep

LEMMA GateStep == GateInv /\ [Next]_vars => GateInv'
<1> SUFFICES ASSUME GateInv, [Next]_vars PROVE GateInv'
  OBVIOUS
<1>1. CASE UNCHANGED vars
  BY <1>1 DEF vars, GateInv, GatedLeaveNoTrace, AllAdministrative, Free, Used
<1>2. CASE IoStep /\ UNCHANGED <<tables, dstVars>>
  <2>1. UNCHANGED <<params, iocs, acs, dstList>>
    BY <1>2 DEF tables, dstVars
  <2>2. (\A c \in Controllers : params[c].administrative \/ "WRITE_UNCOR" \notin params[c].oncs)
          => uncorrectable' = {}
    BY <1>2, MarksGated DEF GateInv, GatedLeaveNoTrace
  <2>3. AllAdministrative => UNCHANGED <<requests, nwps>>
    BY <1>2, AdministrativeIsQuiet
  <2> QED BY <2>1, <2>2, <2>3 DEF GateInv, GatedLeaveNoTrace, AllAdministrative, Free, Used
<1>3. ASSUME NEW c \in Controllers, nvme_admin_cmd(c), UNCHANGED <<tables, ioVars>>
      PROVE  GateInv'
  <2>1. UNCHANGED <<params, iocs, acs, uncorrectable, requests, nwps>>
    BY <1>3 DEF tables, ioVars
  <2>2. "DST" \in params[c].oacs
    BY <1>3, TableFacts DEF nvme_admin_cmd
  <2>3. PICK nsid \in Nsids, stc \in SelfTestCodes, failed \in BOOLEAN, now \in 0..MaxHours :
          nvme_dst(c, nsid, stc, failed, now)
    BY <1>3 DEF nvme_admin_cmd
  <2>4. dstList' \in [Controllers -> [Entries -> EntrySet]]
    <3>1. CASE stc \in {1, 2}
      <4>1. Result(stc, failed, nsid, now) \in EntrySet
        BY <3>1, SelfTestAssumption DEF Result, EntrySet
      <4>2. \A i \in Entries : i # 1 => i - 1 \in Entries
        BY SelfTestAssumption DEF Entries
      <4>3. CreateEntry(dstList[c], Result(stc, failed, nsid, now)) \in [Entries -> EntrySet]
        BY <4>1, <4>2 DEF CreateEntry, GateInv
      <4> QED BY <2>3, <3>1, <4>3 DEF nvme_dst, GateInv
    <3>2. CASE stc \notin {1, 2}
      BY <2>3, <3>2 DEF nvme_dst, GateInv
    <3> QED BY <3>1, <3>2
  <2>5. \A d \in Controllers \ {c} : dstList'[d] = dstList[d]
    BY <2>3 DEF nvme_dst, GateInv
  <2> QED BY <2>1, <2>2, <2>4, <2>5 DEF GateInv, GatedLeaveNoTrace, AllAdministrative, Free, Used
<1> QED BY <1>1, <1>2, <1>3 DEF Next

-----------------------------------------------------------------------------
(* What holds of the whole                                                 *)

\* What no controller was given leaves no trace.
THEOREM GatedCorrect == Spec => []GatedLeaveNoTrace
<1>1. GateInv => GatedLeaveNoTrace
  BY DEF GateInv
<1> QED BY <1>1, GateInit, GateStep, PTL DEF Spec

\* Every variable keeps its type, for a careful host.
THEOREM TypeCorrect == ASSUME Careful PROVE Spec => []TypeOK
<1>1. GateInv => params \in ParamChoices
  BY DEF GateInv
<1>2. Spec => []IoTypeOK
  BY ImplementsParts, IoTypeCorrect, PTL
<1>3. Spec => []DstTypeOK
  BY ImplementsParts, DstTypeCorrect, PTL
<1> QED BY <1>1, <1>2, <1>3, GateInit, GateStep, PTL DEF Spec, TypeOK

\* Whatever the controllers' parameters, a careful host's reads are regular.
THEOREM RegularReads == ASSUME Careful PROVE Spec => []ReadsAreRegular
<1>1. IoSpec => []ReadsAreRegular
  BY ReadsCorrect
<1> QED BY <1>1, ImplementsParts, PTL

\* Whatever the controllers' parameters, each one's log is newest first.
THEOREM LogsNewestFirst == Spec => []LogIsNewestFirst
BY ImplementsParts, LogCorrect, PTL

\* Whatever the controllers' parameters, permanent protection stands.
THEOREM ProtectionHolds == Spec => ProtectionStands
BY ImplementsParts, ProtectionCorrect, PTL
=============================================================================
