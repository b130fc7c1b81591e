----------------------------- MODULE MiCommands -----------------------------
(***************************************************************************)
(* The commands of tools/nvme-mi-cli (mi_nvme.c): the options each one     *)
(* declares and the structure argconfig_parse writes them to, the request  *)
(* it makes of that structure, and what it asks of the answer.             *)
(*                                                                         *)
(* The structure is memory: a function from an offset to a byte.  An       *)
(* option's type says how many bytes are written, whatever the size of the *)
(* field, so a value can spill into the next one.                          *)
(***************************************************************************)
EXTENDS MiEndpoint

Bytes == 0..255
WordLimit == 65536                                \* 2^16
Words == 0..(WordLimit - 1)
Offsets == 0..23

\* Numbers a user may type are below this.
NumberLimit == 16777216                           \* 2^24

\* Byte i (from 0) of n, and a value read from memory.
ByteOf(n, i) ==
  IF i = 0 THEN n % 256
  ELSE IF i = 1 THEN (n \div 256) % 256
  ELSE IF i = 2 THEN n \div 65536 ELSE 0
Word(mem, i) == U16(mem[i], mem[i + 1])
Three(mem, i) == Word(mem, i) + 65536 * mem[i + 2]
Dword(mem, i) == <<mem[i], mem[i + 1], mem[i + 2], mem[i + 3]>>

-----------------------------------------------------------------------------
(* Options (argconfig.h, argconfig_parse)                                  *)

\* Bytes written by an option of each type.
WidthOf(type) ==
  CASE type \in {"NONE", "BYTE"} -> 1
    [] type = "SHORT" -> 2
    [] type = "POSITIVE" -> 4
    [] type \in {"LONG", "STRING"} -> 8

Accepts(type, n) ==
  CASE type = "BYTE" -> n < 256
    [] type = "SHORT" -> n < 65536
    [] OTHER -> TRUE

\* An option: its type, and the offset and size of its field.
Opt(type, at, size) == [type |-> type, at |-> at, size |-> size]

Written(opt) == opt.at..(opt.at + WidthOf(opt.type) - 1)

MutantStore(mem, opt, n) ==                       \* the width of a word, whatever the type
  [i \in Offsets |-> IF i \in opt.at..(opt.at + 3) THEN ByteOf(n, i - opt.at) ELSE mem[i]]

Store(mem, opt, n) ==
  [i \in Offsets |-> IF i \in Written(opt) THEN ByteOf(n, i - opt.at) ELSE mem[i]]

-----------------------------------------------------------------------------
(* The commands: whether the structure is initialised, and the options     *)

readnvmemids ==
  [init |-> FALSE, opts |-> [ctrlid |-> Opt("SHORT", 0, 2),
                             portid |-> Opt("BYTE", 2, 1),
                             dtyp   |-> Opt("BYTE", 3, 1)]]
shspoll == [init |-> FALSE, opts |-> [cs |-> Opt("SHORT", 0, 1)]]
chspoll ==
  [init |-> FALSE, opts |-> [cdw0 |-> Opt("SHORT", 0, 4), cdw1 |-> Opt("SHORT", 4, 4)]]
configget ==
  [init |-> FALSE, opts |-> [configid |-> Opt("BYTE", 0, 1), portid |-> Opt("BYTE", 1, 1)]]
configset ==
  [init |-> FALSE, opts |-> [configid   |-> Opt("BYTE", 0, 1),
                             portid     |-> Opt("BYTE", 1, 1),
                             smbusfreq  |-> Opt("BYTE", 2, 1),
                             mctpunitsz |-> Opt("BYTE", 4, 2)]]
vpdread ==
  [init |-> FALSE, opts |-> [dofst |-> Opt("SHORT", 0, 2),
                             dlen  |-> Opt("SHORT", 2, 2),
                             data  |-> Opt("STRING", 8, 8)]]
vpdwrite == [init |-> TRUE, opts |-> vpdread.opts]
identify ==
  [init |-> FALSE, opts |-> [cns   |-> Opt("SHORT", 0, 1),
                             cntid |-> Opt("BYTE", 2, 2),
                             nsid  |-> Opt("BYTE", 4, 2)]]
getlog ==
  [init |-> TRUE, opts |-> [log_id     |-> Opt("POSITIVE", 0, 1),
                            log_len    |-> Opt("POSITIVE", 4, 4),
                            lpo        |-> Opt("LONG", 8, 8),
                            lsp        |-> Opt("BYTE", 16, 1),
                            uuid_index |-> Opt("BYTE", 17, 1),
                            rae        |-> Opt("NONE", 20, 4)]]
getfeature ==
  [init |-> TRUE, opts |-> [namespace_id |-> Opt("POSITIVE", 0, 4),
                            feature_id   |-> Opt("POSITIVE", 4, 1),
                            sel          |-> Opt("BYTE", 5, 1),
                            cdw11        |-> Opt("POSITIVE", 8, 4),
                            data_len     |-> Opt("POSITIVE", 12, 4)]]

\* The table of the program, under the names a user types.
COMMAND_LIST ==
  [readnvmemids |-> readnvmemids, shspoll |-> shspoll, chspoll |-> chspoll,
   configget |-> configget, configset |-> configset, vpdread |-> vpdread,
   vpdwrite |-> vpdwrite, identify |-> identify, getlogpage |-> getlog,
   getfeatures |-> getfeature]

CommandNames == DOMAIN COMMAND_LIST
OptsOf(cmd) == COMMAND_LIST[cmd].opts

\* A log identifier of 0xff is the only default that is not 0.
InitialMem(cmd, stack) ==
  IF ~COMMAND_LIST[cmd].init THEN stack
  ELSE [i \in Offsets |-> IF cmd = "getlogpage" /\ i = 0 THEN 255 ELSE 0]

-----------------------------------------------------------------------------
(* The requests.  nvmemi_vpdwrite sends the opcode of VPD Read, for which  *)
(* execute_nvme_mi_command appends nothing of the data it is given.        *)

gencmd_nvmemi(opc, cdw0, cdw1) ==
  [nmimt |-> NVME_MI_CMD, opc |-> opc, nsid |-> 0, dlen |-> 0,
   dw |-> <<cdw0, cdw1, Zero4, Zero4, Zero4>>, payload |-> "none"]

gencmd_nvmemi_admin(opc, nsid, dlen, dw) ==
  [nmimt |-> NVME_ADM_CMD, opc |-> opc, nsid |-> nsid, dlen |-> dlen,
   dw |-> dw, payload |-> "none"]

nvmemi_readnvmemids(m) == gencmd_nvmemi(0, Dword(m, 0), Zero4)
nvmemi_shspoll(m) == gencmd_nvmemi(1, <<0, 0, 0, 128 * (m[0] % 2)>>, Zero4)
nvmemi_chspoll(m) == gencmd_nvmemi(2, Dword(m, 0), Dword(m, 4))
nvmemi_configget(m) == gencmd_nvmemi(4, <<m[0], 0, 0, m[1]>>, Zero4)

\* An identifier of neither kind leaves both dwords 0.
nvmemi_configset(m) ==
  IF m[0] = SMBUS_I2C_FREQ THEN gencmd_nvmemi(3, <<m[0], m[2], 0, m[1]>>, Zero4)
  ELSE IF m[0] = MCTP_TRANS_UNIT_SIZE
  THEN gencmd_nvmemi(3, <<m[0], 0, 0, m[1]>>, <<m[4], m[5], 0, 0>>)
  ELSE gencmd_nvmemi(3, Zero4, Zero4)

nvmemi_vpdread(m) == gencmd_nvmemi(5, <<m[0], m[1], 0, 0>>, <<m[2], m[3], 0, 0>>)
nvmemi_vpdwrite(m) == gencmd_nvmemi(5, <<m[0], m[1], 0, 0>>, <<m[2], m[3], 0, 0>>)

nvmemi_id(m) ==
  gencmd_nvmemi_admin(6, Word(m, 4), IF m[0] \in {0, 1} THEN IdentifySize ELSE 0,
                      <<<<m[0], 0, m[2], m[3]>>, Zero4, Zero4, Zero4, Zero4>>)

\* numd is one less than the length in dwords, modulo 2^32; rae is the top
\* bit of lsp's byte.
nvmemi_getlog(m) ==
  LET len == Three(m, 4)
      numd == len \div 4 - 1
      Numd(i) == IF numd < 0 THEN 255 ELSE ByteOf(numd, i)
      lsp == IF m[20] # 0 /\ m[16] < 128 THEN m[16] + 128 ELSE m[16]
  IN gencmd_nvmemi_admin(2, 0, len,
       <<<<m[0], lsp, Numd(0), Numd(1)>>, <<Numd(2), Numd(3), 0, 0>>,
         Dword(m, 8), Dword(m, 12), <<m[17], 0, 0, 0>>>>)

nvmemi_getfeature(m) ==
  gencmd_nvmemi_admin(10, 0, Three(m, 12),
                      <<<<m[4], m[5], 0, 0>>, Dword(m, 8), Zero4, Zero4, Zero4>>)

RequestOf(cmd, m) ==
  CASE cmd = "readnvmemids" -> nvmemi_readnvmemids(m)
    [] cmd = "shspoll" -> nvmemi_shspoll(m)
    [] cmd = "chspoll" -> nvmemi_chspoll(m)
    [] cmd = "configget" -> nvmemi_configget(m)
    [] cmd = "configset" -> nvmemi_configset(m)
    [] cmd = "vpdread" -> nvmemi_vpdread(m)
    [] cmd = "vpdwrite" -> nvmemi_vpdwrite(m)
    [] cmd = "identify" -> nvmemi_id(m)
    [] cmd = "getlogpage" -> nvmemi_getlog(m)
    [] cmd = "getfeatures" -> nvmemi_getfeature(m)

-----------------------------------------------------------------------------
(* The answers.  The bytes of data a command copies out of its answer: -1  *)
(* when it copies none, 0 of a length it then refuses.                     *)

CopySize(cmd, req, answer) ==
  CASE cmd = "readnvmemids" -> answer.mgmt % WordLimit
    [] cmd = "shspoll" -> 8
    [] cmd = "chspoll" -> 16 * (answer.mgmt \div WordLimit)
    [] cmd \in {"identify", "getlogpage", "getfeatures"} -> req.dlen
    [] OTHER -> -1

\* readnvmemids and chspoll give up when the management response says that
\* there is nothing to copy.
Refuses(cmd, req, answer) ==
  cmd \in {"readnvmemids", "chspoll"} /\ CopySize(cmd, req, answer) = 0
=============================================================================
