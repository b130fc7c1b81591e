----------------------------- MODULE MiEndpoint -----------------------------
(***************************************************************************)
(* What the endpoint of patches/nvme-mi-support.patch does with a request  *)
(* (nvme_mi_admin_command and its handlers): the configuration it leaves   *)
(* and the answer it hands to nvme_mi_send_resp.                           *)
(*                                                                         *)
(* A request is a record [nmimt, opc, nsid, dlen, dw, payload]: dw are its *)
(* dwords (dword0 and dword1, or sqentry10 to sqentry14), each a tuple of  *)
(* four bytes, the lowest first.  An answer is its header, the management  *)
(* response, and the source and size of its data.  Its status is left out: *)
(* nothing in nvme-mi-cli reads it.                                        *)
(***************************************************************************)
EXTENDS Integers

CONSTANTS
  Namespaces,     \* the identifiers nvme_ns finds
  IdentifySize    \* bytes of an identify structure, 4096

NVME_MI_CMD == 1
NVME_ADM_CMD == 2
SMBUS_I2C_FREQ == 1
MCTP_TRANS_UNIT_SIZE == 3

\* smbus_freq, mctp_unit_size and vpd_data.
Defaults == [freq |-> 1, unit |-> 64, vpd |-> "initial"]

U16(lo, hi) == lo + 256 * hi
Zero4 == <<0, 0, 0, 0>>

-----------------------------------------------------------------------------
(* Answers.  junk stands for a management response nobody has set.         *)

MiHeader == 8
AdminHeader == 20

Answer(hdr, mgmt, data, size) ==
  [hdr |-> hdr, mgmt |-> mgmt, data |-> data, size |-> size]
NoAnswer == Answer(0, 0, "none", 0)

Header(mgmt) == Answer(MiHeader, mgmt, "none", 0)
AdminStatus == Answer(AdminHeader, 0, "none", 0)

-----------------------------------------------------------------------------
(* NVMe-MI commands                                                        *)

\* A structure of 32 bytes, a list of no commands, or no answer.
nvme_mi_read_nvme_mi_ds(req) ==
  CASE req.dw[1][4] = 0 -> Answer(MiHeader, 32, "subsystem", 32)
    [] req.dw[1][4] = 4 -> Answer(MiHeader, 2, "commands", 2)
    [] OTHER -> NoAnswer

\* reportall and incf set, incvf and incpf clear.
nvme_mi_controller_health_ds(req, junk) ==
  IF req.dw[1][4] >= 128 /\ req.dw[1][4] % 8 = 1
  THEN Answer(MiHeader, 65536, "health", 18)
  ELSE Header(junk)

\* sizeof of a pointer: the header is all that is sent.
nvme_mi_nvm_subsys_health_status_poll(junk) == Header(junk)

nvme_mi_configuration_get(dev, req) ==
  CASE req.dw[1][1] = SMBUS_I2C_FREQ -> Header(dev.freq)
    [] req.dw[1][1] = MCTP_TRANS_UNIT_SIZE -> Header(dev.unit)
    [] OTHER -> NoAnswer

MutantFreqWide(dev, req) == [dev EXCEPT !.freq = req.dw[1][2]]      \* no mask

FreqSet(dev, req) == [dev EXCEPT !.freq = req.dw[1][2] % 16]

nvme_mi_configuration_set(dev, req) ==
  CASE req.dw[1][1] = SMBUS_I2C_FREQ -> FreqSet(dev, req)
    [] req.dw[1][1] = MCTP_TRANS_UNIT_SIZE ->
         [dev EXCEPT !.unit = U16(req.dw[2][1], req.dw[2][2])]
    [] OTHER -> dev

VpdSize == 8
VpdFits(req) ==
  U16(req.dw[1][1], req.dw[1][2]) + U16(req.dw[2][1], req.dw[2][2]) <= VpdSize

nvme_mi_vpd_read(req, junk) ==
  IF VpdFits(req)
  THEN Answer(MiHeader, junk, "vpd", U16(req.dw[2][1], req.dw[2][2]))
  ELSE Header(junk)

\* The offset counts structures, not bytes: one that is not 0 writes past the data.
nvme_mi_vpd_write(dev, req) ==
  IF VpdFits(req) /\ req.dw[1][1] = 0 /\ req.dw[2][1] > 0
  THEN [dev EXCEPT !.vpd = req.payload] ELSE dev

-----------------------------------------------------------------------------
(* NVMe commands through the endpoint.  cmdflags is 3 and dataofst 0.      *)

\* The structure of a namespace there is, or of the controller.
nvme_mi_admin_identify(req, junk) ==
  IF req.dlen > IdentifySize THEN Header(junk)
  ELSE IF \/ req.dw[1][1] = 0 /\ req.nsid \in Namespaces
          \/ req.dw[1][1] = 1
  THEN Answer(AdminHeader, 0, "identify", req.dlen)
  ELSE AdminStatus

\* The log identifier is compared with the whole dword.
nvme_mi_admin_get_log_page(req, junk) ==
  IF req.dw[1] # Zero4 THEN AdminStatus
  ELSE IF req.dlen > 64 THEN Header(junk)
  ELSE Answer(AdminHeader, 0, "errors", req.dlen)

nvme_mi_admin_get_features(req, junk) ==
  IF req.dlen > 0 THEN Header(junk) ELSE AdminStatus

-----------------------------------------------------------------------------
(* The dispatcher                                                          *)

DeviceAfter(dev, req) ==
  IF req.nmimt # NVME_MI_CMD THEN dev
  ELSE CASE req.opc = 3 -> nvme_mi_configuration_set(dev, req)
         [] req.opc = 6 -> nvme_mi_vpd_write(dev, req)
         [] OTHER -> dev

AnswerTo(dev, req, junk) ==
  IF req.nmimt = NVME_MI_CMD
  THEN CASE req.opc = 0 -> nvme_mi_read_nvme_mi_ds(req)
         [] req.opc = 1 -> nvme_mi_nvm_subsys_health_status_poll(junk)
         [] req.opc = 2 -> nvme_mi_controller_health_ds(req, junk)
         [] req.opc = 4 -> nvme_mi_configuration_get(dev, req)
         [] req.opc = 5 -> nvme_mi_vpd_read(req, junk)
         [] OTHER -> Header(IF req.opc = 3 /\ req.dw[1][1] = SMBUS_I2C_FREQ THEN 0 ELSE junk)
  ELSE CASE req.opc = 6 -> nvme_mi_admin_identify(req, junk)
         [] req.opc = 2 -> nvme_mi_admin_get_log_page(req, junk)
         [] req.opc = 10 -> nvme_mi_admin_get_features(req, junk)
         [] OTHER -> Header(junk)
=============================================================================
