----------------------------- MODULE CommandSets -----------------------------
(***************************************************************************)
(* Which commands and features a controller takes: the tables that         *)
(* nvme_init_cse_iocs and nvme_init_cse_acs fill from the parameters oncs  *)
(* (add-oncs-device-parameter.patch, add-write-uncorrectable-command.patch,*)
(* reservations.patch), oacs (oacs.patch) and administrative               *)
(* (admin-controller.patch).  A command is named by its opcode's constant. *)
(***************************************************************************)

\* params: the names of the bits set in oncs and oacs; administrative; bootpart,
\* whether there is a device for boot partitions; subsys, whether the
\* controller belongs to a subsystem.
NVME_ONCS == {"COMPARE", "WRITE_UNCOR", "DSM", "WRITE_ZEROES", "FEATURES",
              "RESERVATIONS", "TIMESTAMP", "VERIFY", "COPY"}
NVME_OACS == {"FORMAT", "NS_MGMT", "DST"}

DefaultOncs == {"COMPARE", "WRITE_UNCOR", "DSM", "WRITE_ZEROES", "FEATURES", "TIMESTAMP",
                "VERIFY", "COPY"}
DefaultOacs == NVME_OACS

Params ==
  {p \in [oncs : SUBSET NVME_ONCS, oacs : SUBSET NVME_OACS, administrative : BOOLEAN,
          bootpart : BOOLEAN, subsys : BOOLEAN] : p.administrative => p.subsys}

\* The bit of Verify, 0x80, is used where its opcode, 0x0c, should be.
VerifyIndex == "OPCODE_0x80"

nvme_init_cse_iocs(params) ==
  IF params.administrative THEN {}
  ELSE {"FLUSH", "WRITE", "READ"}
         \cup (params.oncs \cap {"COMPARE", "WRITE_UNCOR", "DSM", "WRITE_ZEROES", "COPY"})
         \cup (IF "VERIFY" \in params.oncs THEN {VerifyIndex} ELSE {})
         \cup (IF "RESERVATIONS" \in params.oncs /\ params.subsys
               THEN {"RSV_REGISTER", "RSV_REPORT", "RSV_ACQUIRE", "RSV_RELEASE"} ELSE {})

MutantAcs(params) ==                              \* oacs is not looked at
  {"GET_LOG_PAGE", "IDENTIFY", "ABORT", "SET_FEATURES", "GET_FEATURES", "ASYNC_EV_REQ",
   "NS_ATTACHMENT", "FORMAT_NVM", "DST"}
    \cup (IF params.administrative THEN {}
          ELSE {"DELETE_SQ", "CREATE_SQ", "DELETE_CQ", "CREATE_CQ"})

nvme_init_cse_acs(params) ==
  {"GET_LOG_PAGE", "IDENTIFY", "ABORT", "SET_FEATURES", "GET_FEATURES", "ASYNC_EV_REQ"}
    \cup (IF params.administrative THEN {}
          ELSE {"DELETE_SQ", "CREATE_SQ", "DELETE_CQ", "CREATE_CQ"})
    \cup (IF "NS_MGMT" \in params.oacs THEN {"NS_ATTACHMENT"} ELSE {})
    \cup (IF "FORMAT" \in params.oacs THEN {"FORMAT_NVM"} ELSE {})
    \cup (IF "DST" \in params.oacs THEN {"DST"} ELSE {})
    \cup (IF params.bootpart THEN {"DOWNLOAD_FW", "COMMIT_FW"} ELSE {})

AdminFeatures ==
  {"POWER_MANAGEMENT", "TEMPERATURE_THRESHOLD", "INTERRUPT_COALESCING",
   "INTERRUPT_VECTOR_CONF", "ASYNCHRONOUS_EVENT_CONF", "TIMESTAMP"}

\* The features the patches' modules use, of those in nvme_feature_support.
nvme_check_fid_support(params, fid) ==
  IF params.administrative THEN fid \in AdminFeatures
  ELSE fid \in AdminFeatures \cup {"NS_WRITE_PROTECTION", "HOST_IDENTIFIER",
                                   "RESERVATION_NOTICE_MASK"}
=============================================================================
