----------------------------- MODULE MiCliProofs -----------------------------
(***************************************************************************)
(* The processes of nvme-mi-cli and their endpoint: types, the refinement  *)
(* of MiService, and the first packet of an answer; then that what a user  *)
(* types is what the endpoint is asked for: for every set of numbers,      *)
(* every content of memory nobody has written, and every number of         *)
(* options.                                                                *)
(***************************************************************************)
EXTENDS MiCli, TLAPS

-----------------------------------------------------------------------------
(* Options, memory and requests                                            *)

\* Every option has one of the types there are, and begins in the structure.
RoomFor(opts) ==
  \A o \in DOMAIN opts :
    /\ opts[o].type \in {"NONE", "BYTE", "SHORT", "POSITIVE", "LONG", "STRING"}
    /\ opts[o].at \in Offsets

LEMMA OptionFacts ==
  ASSUME NEW cmd \in CommandNames
  PROVE  RoomFor(OptsOf(cmd))
<1>1. cmd \in {"readnvmemids", "shspoll", "chspoll", "configget", "configset", "vpdread", "vpdwrite", "identify", "getlogpage", "getfeatures"}
  BY DEF CommandNames, COMMAND_LIST
<1>2. RoomFor(OptsOf("readnvmemids"))
  <2>1. OptsOf("readnvmemids") = readnvmemids.opts
    BY DEF OptsOf, COMMAND_LIST
  <2>2. RoomFor(readnvmemids.opts)
    BY DEF RoomFor, readnvmemids, Opt, Offsets
  <2> QED BY <2>1, <2>2
<1>3. RoomFor(OptsOf("shspoll"))
  <2>1. OptsOf("shspoll") = shspoll.opts
    BY DEF OptsOf, COMMAND_LIST
  <2>2. RoomFor(shspoll.opts)
    BY DEF RoomFor, shspoll, Opt, Offsets
  <2> QED BY <2>1, <2>2
<1>4. RoomFor(OptsOf("chspoll"))
  <2>1. OptsOf("chspoll") = chspoll.opts
    BY DEF OptsOf, COMMAND_LIST
  <2>2. RoomFor(chspoll.opts)
    BY DEF RoomFor, chspoll, Opt, Offsets
  <2> QED BY <2>1, <2>2
<1>5. RoomFor(OptsOf("configget"))
  <2>1. OptsOf("configget") = configget.opts
    BY DEF OptsOf, COMMAND_LIST
  <2>2. RoomFor(configget.opts)
    BY DEF RoomFor, configget, Opt, Offsets
  <2> QED BY <2>1, <2>2
<1>6. RoomFor(OptsOf("configset"))
  <2>1. OptsOf("configset") = configset.opts
    BY DEF OptsOf, COMMAND_LIST
  <2>2. RoomFor(configset.opts)
    BY DEF RoomFor, configset, Opt, Offsets
  <2> QED BY <2>1, <2>2
<1>7. RoomFor(OptsOf("vpdread"))
  <2>1. OptsOf("vpdread") = vpdread.opts
    BY DEF OptsOf, COMMAND_LIST
  <2>2. RoomFor(vpdread.opts)
    BY DEF RoomFor, vpdread, Opt, Offsets
  <2> QED BY <2>1, <2>2
<1>8. RoomFor(OptsOf("vpdwrite"))
  <2>1. OptsOf("vpdwrite") = vpdwrite.opts
    BY DEF OptsOf, COMMAND_LIST
  <2>2. RoomFor(vpdwrite.opts)
    BY DEF RoomFor, vpdwrite, vpdread, Opt, Offsets
  <2> QED BY <2>1, <2>2
<1>9. RoomFor(OptsOf("identify"))
  <2>1. OptsOf("identify") = identify.opts
    BY DEF OptsOf, COMMAND_LIST
  <2>2. RoomFor(identify.opts)
    BY DEF RoomFor, identify, Opt, Offsets
  <2> QED BY <2>1, <2>2
<1>10. RoomFor(OptsOf("getlogpage"))
  <2>1. OptsOf("getlogpage") = getlog.opts
    BY DEF OptsOf, COMMAND_LIST
  <2>2. RoomFor(getlog.opts)
    BY DEF RoomFor, getlog, Opt, Offsets
  <2> QED BY <2>1, <2>2
<1>11. RoomFor(OptsOf("getfeatures"))
  <2>1. OptsOf("getfeatures") = getfeature.opts
    BY DEF OptsOf, COMMAND_LIST
  <2>2. RoomFor(getfeature.opts)
    BY DEF RoomFor, getfeature, Opt, Offsets
  <2> QED BY <2>1, <2>2
<1> QED BY <1>1, <1>2, <1>3, <1>4, <1>5, <1>6, <1>7, <1>8, <1>9, <1>10, <1>11

LEMMA Limit == NumberLimit = 16777216
BY SMT DEF NumberLimit

LEMMA RangeIs ==
  ASSUME NEW lim \in Nat
  PROVE  \A x : x \in 0..(lim - 1) <=> x \in Int /\ 0 <= x /\ x < lim
BY SMT

LEMMA Bounds ==
  /\ NumberLimit \in Nat /\ NumberLimit > 0
  /\ \A x : x \in Bytes <=> x \in Int /\ 0 <= x /\ x < 256
  /\ \A x : x \in Offsets => x \in Int
BY SMT DEF NumberLimit, Bytes, Offsets

LEMMA WordsAre ==
  /\ 0 \in Words
  /\ \A x : x \in Words <=> x \in Int /\ 0 <= x /\ x < WordLimit
<1>1. WordLimit \in Nat /\ 0 < WordLimit
  BY SMT DEF WordLimit
<1> QED BY <1>1, RangeIs DEF Words

LEMMA NumbersAre ==
  \A x : x \in 0..(NumberLimit - 1) <=> x \in Int /\ 0 <= x /\ x < NumberLimit
BY Bounds, RangeIs

LEMMA WordFacts ==
  ASSUME NEW a \in Bytes, NEW b \in Bytes
  PROVE  U16(a, b) \in Words
<1>1. a \in Int /\ 0 <= a /\ a < 256 /\ b \in Int /\ 0 <= b /\ b < 256
  BY Bounds, SMT
<1>2. U16(a, b) \in Int /\ 0 <= U16(a, b) /\ U16(a, b) < WordLimit
  BY ONLY <1>1, SMT DEF U16, WordLimit
<1> QED BY <1>2, WordsAre

LEMMA ByteFacts ==
  ASSUME NEW n \in Nat, n < NumberLimit, NEW i \in Int
  PROVE  ByteOf(n, i) \in Bytes
<1>1. n < 16777216
  BY Limit, SMT
<1>2. n \div 65536 \in 0..255 /\ n % 256 \in 0..255 /\ (n \div 256) % 256 \in 0..255
  BY <1>1, SMT
<1> QED BY <1>2, SMT DEF ByteOf, Bytes

LEMMA StoreFacts ==
  ASSUME NEW mem \in [Offsets -> Bytes], NEW opt, opt.at \in Offsets,
         NEW n \in Nat, n < NumberLimit
  PROVE  Store(mem, opt, n) \in [Offsets -> Bytes]
<1>2. ASSUME NEW i \in Offsets PROVE ByteOf(n, i - opt.at) \in Bytes
  <2>1. i - opt.at \in Int
    BY Bounds
  <2> QED BY <2>1, ByteFacts
<1> QED BY <1>2 DEF Store

Dwords == [1..4 -> Bytes]

LEMMA DwordFacts ==
  ASSUME NEW a \in Bytes, NEW b \in Bytes, NEW c \in Bytes, NEW d \in Bytes
  PROVE  <<a, b, c, d>> \in Dwords
BY DEF Dwords

LEMMA TupleFacts ==
  ASSUME NEW a \in Dwords, NEW b \in Dwords, NEW c \in Dwords, NEW d \in Dwords, NEW e \in Dwords
  PROVE  <<a, b, c, d, e>> \in [1..5 -> Dwords]
<1> QED OBVIOUS

LEMMA Small == /\ \A x \in 0..10 : x \in Bytes
               /\ Zero4 \in Dwords
               /\ 0 \in Words
<1>1. \A x \in 0..10 : x \in Bytes
  BY Bounds
<1>2. Zero4 \in Dwords
  BY <1>1, DwordFacts DEF Zero4
<1> QED BY <1>1, <1>2, WordsAre

LEMMA MiFacts ==
  ASSUME NEW opc \in Bytes, NEW a \in Dwords, NEW b \in Dwords
  PROVE  gencmd_nvmemi(opc, a, b) \in RequestSet
<1>2. <<a, b, Zero4, Zero4, Zero4>> \in [1..5 -> Dwords]
  BY TupleFacts, Small
<1>3. 0 \in 0..(NumberLimit - 1) /\ 0 \in Words
  BY Bounds, NumbersAre, Small
<1> QED BY <1>2, <1>3 DEF gencmd_nvmemi, RequestSet, Dwords

LEMMA AdminFacts ==
  ASSUME NEW opc \in Bytes, NEW nsid \in Words, NEW dlen \in 0..(NumberLimit - 1),
         NEW dw \in [1..5 -> Dwords]
  PROVE  gencmd_nvmemi_admin(opc, nsid, dlen, dw) \in RequestSet
BY DEF gencmd_nvmemi_admin, RequestSet, Dwords

LEMMA ByteAt ==
  ASSUME NEW m \in [Offsets -> Bytes], NEW i \in Nat, i <= 23
  PROVE  m[i] \in Bytes
BY DEF Offsets

LEMMA MemFacts ==
  ASSUME NEW m \in [Offsets -> Bytes], NEW i \in Nat, i <= 20
  PROVE  /\ Dword(m, i) \in Dwords
         /\ Word(m, i) \in Words
         /\ Three(m, i) \in Nat /\ Three(m, i) < NumberLimit
<1>1. m[i] \in Bytes /\ m[i + 1] \in Bytes /\ m[i + 2] \in Bytes /\ m[i + 3] \in Bytes
  BY DEF Offsets
<1>2. Dword(m, i) \in Dwords
  BY <1>1, DwordFacts DEF Dword
<1>3. Word(m, i) \in Words
  BY <1>1, WordFacts DEF Word
<1>4. Three(m, i) \in Nat /\ Three(m, i) < NumberLimit
  <2>1. Word(m, i) \in Int /\ 0 <= Word(m, i) /\ Word(m, i) < WordLimit
    BY <1>3, WordsAre
  <2>2. m[i + 2] \in Int /\ 0 <= m[i + 2] /\ m[i + 2] <= 255
    BY <1>1, SMT DEF Bytes
  <2> QED BY ONLY <2>1, <2>2, Limit, SMT DEF Three, WordLimit
<1> QED BY <1>2, <1>3, <1>4

LEMMA IdentifyFits == IdentifySize \in 0..(NumberLimit - 1)
<1>1. IdentifySize \in Int /\ 0 <= IdentifySize /\ IdentifySize <= 4096
  BY MiCliAssumption, SMT
<1>2. IdentifySize < NumberLimit
  BY ONLY <1>1, Limit, SMT
<1> QED BY ONLY <1>1, <1>2, NumbersAre

LEMMA RequestIs ==
  ASSUME NEW m
  PROVE  /\ RequestOf("readnvmemids", m) = nvmemi_readnvmemids(m)
         /\ RequestOf("shspoll", m) = nvmemi_shspoll(m)
         /\ RequestOf("chspoll", m) = nvmemi_chspoll(m)
         /\ RequestOf("configget", m) = nvmemi_configget(m)
         /\ RequestOf("configset", m) = nvmemi_configset(m)
         /\ RequestOf("vpdread", m) = nvmemi_vpdread(m)
         /\ RequestOf("vpdwrite", m) = nvmemi_vpdwrite(m)
         /\ RequestOf("identify", m) = nvmemi_id(m)
         /\ RequestOf("getlogpage", m) = nvmemi_getlog(m)
         /\ RequestOf("getfeatures", m) = nvmemi_getfeature(m)
<1>1. RequestOf("readnvmemids", m) = nvmemi_readnvmemids(m)
  BY Zenon DEF RequestOf
<1>2. RequestOf("shspoll", m) = nvmemi_shspoll(m)
  BY Zenon DEF RequestOf
<1>3. RequestOf("chspoll", m) = nvmemi_chspoll(m)
  BY Zenon DEF RequestOf
<1>4. RequestOf("configget", m) = nvmemi_configget(m)
  BY Zenon DEF RequestOf
<1>5. RequestOf("configset", m) = nvmemi_configset(m)
  BY Zenon DEF RequestOf
<1>6. RequestOf("vpdread", m) = nvmemi_vpdread(m)
  BY Zenon DEF RequestOf
<1>7. RequestOf("vpdwrite", m) = nvmemi_vpdwrite(m)
  BY Zenon DEF RequestOf
<1>8. RequestOf("identify", m) = nvmemi_id(m)
  BY Zenon DEF RequestOf
<1>9. RequestOf("getlogpage", m) = nvmemi_getlog(m)
  BY Zenon DEF RequestOf
<1>10. RequestOf("getfeatures", m) = nvmemi_getfeature(m)
  BY Zenon DEF RequestOf
<1> QED BY <1>1, <1>2, <1>3, <1>4, <1>5, <1>6, <1>7, <1>8, <1>9, <1>10

\* The requests the ten commands make are requests.
LEMMA RequestType ==
  ASSUME NEW cmd \in CommandNames, NEW m \in [Offsets -> Bytes]
  PROVE  RequestOf(cmd, m) \in RequestSet
<1>m. /\ m[0] \in Bytes /\ m[1] \in Bytes /\ m[2] \in Bytes /\ m[3] \in Bytes
      /\ m[4] \in Bytes /\ m[5] \in Bytes /\ m[16] \in Bytes /\ m[17] \in Bytes
      /\ m[20] \in Bytes
  BY ByteAt
<1>d. Dword(m, 0) \in Dwords /\ Dword(m, 4) \in Dwords /\ Dword(m, 8) \in Dwords
      /\ Dword(m, 12) \in Dwords
  BY MemFacts
<1>z. Zero4 \in Dwords /\ 0 \in Bytes
  BY Small
<1>o. 0 \in Bytes /\ 1 \in Bytes /\ 2 \in Bytes /\ 3 \in Bytes /\ 4 \in Bytes /\ 5 \in Bytes
      /\ 6 \in Bytes /\ 10 \in Bytes
  BY Small
<1>1. nvmemi_readnvmemids(m) \in RequestSet
  BY <1>d, <1>o, <1>z, MiFacts DEF nvmemi_readnvmemids
<1>2. nvmemi_shspoll(m) \in RequestSet
  <2>1. 128 * (m[0] % 2) \in Bytes
    BY <1>m, SMT DEF Bytes
  <2> QED BY <2>1, <1>o, <1>z, DwordFacts, MiFacts DEF nvmemi_shspoll
<1>3. nvmemi_chspoll(m) \in RequestSet
  BY <1>d, <1>o, MiFacts DEF nvmemi_chspoll
<1>4. nvmemi_configget(m) \in RequestSet
  BY <1>m, <1>o, <1>z, DwordFacts, MiFacts DEF nvmemi_configget
<1>5. nvmemi_configset(m) \in RequestSet
  <2>1. gencmd_nvmemi(3, <<m[0], m[2], 0, m[1]>>, Zero4) \in RequestSet
    BY <1>m, <1>o, <1>z, DwordFacts, MiFacts
  <2>2. gencmd_nvmemi(3, <<m[0], 0, 0, m[1]>>, <<m[4], m[5], 0, 0>>) \in RequestSet
    BY <1>m, <1>o, <1>z, DwordFacts, MiFacts
  <2>3. gencmd_nvmemi(3, Zero4, Zero4) \in RequestSet
    BY <1>o, <1>z, MiFacts
  <2> QED BY <2>1, <2>2, <2>3, Zenon DEF nvmemi_configset
<1>6. nvmemi_vpdread(m) \in RequestSet
  BY <1>m, <1>o, <1>z, DwordFacts, MiFacts DEF nvmemi_vpdread
<1>7. nvmemi_vpdwrite(m) \in RequestSet
  BY <1>m, <1>o, <1>z, DwordFacts, MiFacts DEF nvmemi_vpdwrite
<1>8. nvmemi_id(m) \in RequestSet
  <2>1. Word(m, 4) \in Words
    BY MemFacts
  <2>2. (IF m[0] \in {0, 1} THEN IdentifySize ELSE 0) \in 0..(NumberLimit - 1)
    BY IdentifyFits, NumbersAre, Bounds
  <2>3. <<<<m[0], 0, m[2], m[3]>>, Zero4, Zero4, Zero4, Zero4>> \in [1..5 -> Dwords]
    BY <1>m, <1>z, DwordFacts, TupleFacts
  <2> QED BY <2>1, <2>2, <2>3, <1>o, AdminFacts DEF nvmemi_id
<1>9. nvmemi_getlog(m) \in RequestSet
  <2> DEFINE len == Three(m, 4)
             numd == len \div 4 - 1
             Numd(i) == IF numd < 0 THEN 255 ELSE ByteOf(numd, i)
             lsp == IF m[20] # 0 /\ m[16] < 128 THEN m[16] + 128 ELSE m[16]
  <2>1. len \in Nat /\ len < NumberLimit
    BY MemFacts
  <2>2. lsp \in Bytes
    BY <1>m, SMT DEF Bytes
  <2>3. \A i \in 0..3 : Numd(i) \in Bytes
    <3>1. CASE numd < 0
      BY <3>1, SMT DEF Bytes
    <3>2. CASE ~(numd < 0)
      <4>1. numd \in Nat /\ numd < NumberLimit
        BY <3>2, <2>1, Limit, SMT
      <4> HIDE DEF numd
      <4> QED BY <4>1, <3>2, ByteFacts
    <3> QED BY <3>1, <3>2
  <2> HIDE DEF len, Numd, lsp
  <2>4. len \in 0..(NumberLimit - 1)
    BY <2>1, NumbersAre
  <2>5. /\ <<m[0], lsp, Numd(0), Numd(1)>> \in Dwords
        /\ <<Numd(2), Numd(3), 0, 0>> \in Dwords
        /\ <<m[17], 0, 0, 0>> \in Dwords
    <3>1. Numd(0) \in Bytes /\ Numd(1) \in Bytes /\ Numd(2) \in Bytes /\ Numd(3) \in Bytes
      BY <2>3
    <3> QED BY <3>1, <2>2, <1>m, <1>o, DwordFacts
  <2>6. <<<<m[0], lsp, Numd(0), Numd(1)>>, <<Numd(2), Numd(3), 0, 0>>,
          Dword(m, 8), Dword(m, 12), <<m[17], 0, 0, 0>>>> \in [1..5 -> Dwords]
    BY <2>5, <1>d, TupleFacts
  <2>7. 0 \in Words
    BY Small
  <2>8. gencmd_nvmemi_admin(2, 0, len,
          <<<<m[0], lsp, Numd(0), Numd(1)>>, <<Numd(2), Numd(3), 0, 0>>,
            Dword(m, 8), Dword(m, 12), <<m[17], 0, 0, 0>>>>) \in RequestSet
    BY <2>4, <2>6, <2>7, <1>o, AdminFacts
  <2> QED BY <2>8, Zenon DEF nvmemi_getlog, len, Numd, lsp
<1>10. nvmemi_getfeature(m) \in RequestSet
  <2>1. Three(m, 12) \in 0..(NumberLimit - 1)
    BY MemFacts, NumbersAre
  <2>2. <<<<m[4], m[5], 0, 0>>, Dword(m, 8), Zero4, Zero4, Zero4>> \in [1..5 -> Dwords]
    BY <1>m, <1>d, <1>o, <1>z, DwordFacts, TupleFacts
  <2>3. 0 \in Words
    BY Small
  <2> QED BY <2>1, <2>2, <2>3, <1>o, AdminFacts DEF nvmemi_getfeature
<1>c. cmd \in {"readnvmemids", "shspoll", "chspoll", "configget", "configset", "vpdread", "vpdwrite", "identify", "getlogpage", "getfeatures"}
  BY DEF CommandNames, COMMAND_LIST
<1> QED BY <1>c, RequestIs, <1>1, <1>2, <1>3, <1>4, <1>5, <1>6, <1>7, <1>8, <1>9, <1>10

-----------------------------------------------------------------------------
(* Types                                                                   *)

AfterSet == [freq : 0..15, unit : Words, vpd : {"initial", "none", "file"}]

LEMMA RequestFields ==
  ASSUME NEW req \in RequestSet
  PROVE  /\ req.nmimt \in {NVME_MI_CMD, NVME_ADM_CMD} /\ req.opc \in Bytes
         /\ req.payload \in {"none", "file"}
         /\ req.dlen \in Nat
         /\ \A i \in 1..5 : req.dw[i] \in Dwords
         /\ \A i \in 1..5, j \in 1..4 : req.dw[i][j] \in Bytes
<1>1. req.dlen \in Nat
  <2>1. req.dlen \in 0..(NumberLimit - 1)
    BY DEF RequestSet
  <2> QED BY <2>1, NumbersAre
<1>2. req.dw \in [1..5 -> Dwords]
  BY DEF RequestSet, Dwords
<1>3. \A i \in 1..5 : req.dw[i] \in Dwords
  BY <1>2
<1>4. \A i \in 1..5, j \in 1..4 : req.dw[i][j] \in Bytes
  BY <1>3 DEF Dwords
<1> QED BY <1>1, <1>3, <1>4 DEF RequestSet

LEMMA DeviceType ==
  ASSUME NEW d \in DeviceSet, NEW req \in RequestSet
  PROVE  DeviceAfter(d, req) \in AfterSet
<1>f. /\ req.dw[1][1] \in Bytes /\ req.dw[1][2] \in Bytes
      /\ req.dw[2][1] \in Bytes /\ req.dw[2][2] \in Bytes
      /\ req.payload \in {"none", "file"}
  BY RequestFields
<1>d. d \in AfterSet
  BY DEF DeviceSet, AfterSet
<1>1. FreqSet(d, req) \in AfterSet
  <2>1. req.dw[1][2] % 16 \in 0..15
    <3>1. req.dw[1][2] \in Nat
      BY <1>f, Bounds
    <3> QED BY ONLY <3>1, SMT
  <2> QED BY <2>1, <1>d DEF FreqSet, AfterSet
<1>2. [d EXCEPT !.unit = U16(req.dw[2][1], req.dw[2][2])] \in AfterSet
  <2>1. U16(req.dw[2][1], req.dw[2][2]) \in Words
    BY <1>f, WordFacts
  <2> QED BY <2>1, <1>d DEF AfterSet
<1>3. nvme_mi_configuration_set(d, req) \in AfterSet
  BY <1>1, <1>2, <1>d, Zenon DEF nvme_mi_configuration_set
<1>4. nvme_mi_vpd_write(d, req) \in AfterSet
  <2>1. [d EXCEPT !.vpd = req.payload] \in AfterSet
    BY <1>f, <1>d DEF AfterSet
  <2> QED BY <2>1, <1>d, Zenon DEF nvme_mi_vpd_write
<1> QED BY <1>3, <1>4, <1>d, Zenon DEF DeviceAfter

LEMMA AnswerFacts ==
  ASSUME NEW hdr \in {0, MiHeader, AdminHeader}, NEW mgmt \in Nat, NEW size \in Nat,
         NEW data \in {"none", "subsystem", "commands", "health", "vpd", "identify", "errors"}
  PROVE  Answer(hdr, mgmt, data, size) \in AnswerSet
BY DEF Answer, AnswerSet

LEMMA HeaderFacts ==
  /\ NoAnswer \in AnswerSet /\ AdminStatus \in AnswerSet
  /\ \A mgmt \in Nat : Header(mgmt) \in AnswerSet
BY AnswerFacts DEF NoAnswer, AdminStatus, Header

LEMMA AnswerType ==
  ASSUME NEW d \in AfterSet, NEW req \in RequestSet, NEW junk \in Nat
  PROVE  AnswerTo(d, req, junk) \in AnswerSet
<1>f. d.freq \in Nat /\ d.unit \in Nat /\ req.dlen \in Nat
  <2>1. d.unit \in Words /\ d.freq \in 0..15
    BY DEF AfterSet
  <2> QED BY <2>1, WordsAre, RequestFields
<1>h. Header(junk) \in AnswerSet
  BY HeaderFacts
<1>1. nvme_mi_read_nvme_mi_ds(req) \in AnswerSet
  <2>1. Answer(MiHeader, 32, "subsystem", 32) \in AnswerSet
    BY AnswerFacts
  <2>2. Answer(MiHeader, 2, "commands", 2) \in AnswerSet
    BY AnswerFacts
  <2> QED BY <2>1, <2>2, HeaderFacts, Zenon DEF nvme_mi_read_nvme_mi_ds
<1>2. nvme_mi_nvm_subsys_health_status_poll(junk) \in AnswerSet
  BY <1>h DEF nvme_mi_nvm_subsys_health_status_poll
<1>3. nvme_mi_controller_health_ds(req, junk) \in AnswerSet
  <2>1. Answer(MiHeader, 65536, "health", 18) \in AnswerSet
    BY AnswerFacts, SMT
  <2>2. ASSUME NEW P \in AnswerSet, NEW Q \in AnswerSet, NEW R
        PROVE (IF R THEN P ELSE Q) \in AnswerSet
    OBVIOUS
  <2> QED BY <2>1, <2>2, <1>h, SMT DEF nvme_mi_controller_health_ds
<1>4. nvme_mi_configuration_get(d, req) \in AnswerSet
  BY <1>f, HeaderFacts, Zenon DEF nvme_mi_configuration_get
<1>5. nvme_mi_vpd_read(req, junk) \in AnswerSet
  <2>1. U16(req.dw[2][1], req.dw[2][2]) \in Nat
    BY RequestFields, WordFacts, WordsAre
  <2>2. Answer(MiHeader, junk, "vpd", U16(req.dw[2][1], req.dw[2][2])) \in AnswerSet
    BY <2>1, AnswerFacts
  <2> QED BY <2>2, <1>h, Zenon DEF nvme_mi_vpd_read
<1>6. nvme_mi_admin_identify(req, junk) \in AnswerSet
  <2>1. Answer(AdminHeader, 0, "identify", req.dlen) \in AnswerSet
    BY <1>f, AnswerFacts
  <2> QED BY <2>1, <1>h, HeaderFacts, Zenon DEF nvme_mi_admin_identify
<1>7. nvme_mi_admin_get_log_page(req, junk) \in AnswerSet
  <2>1. Answer(AdminHeader, 0, "errors", req.dlen) \in AnswerSet
    BY <1>f, AnswerFacts
  <2> QED BY <2>1, <1>h, HeaderFacts, Zenon DEF nvme_mi_admin_get_log_page
<1>8. nvme_mi_admin_get_features(req, junk) \in AnswerSet
  BY <1>h, HeaderFacts, Zenon DEF nvme_mi_admin_get_features
<1>9. Header(IF req.opc = 3 /\ req.dw[1][1] = SMBUS_I2C_FREQ THEN 0 ELSE junk) \in AnswerSet
  BY HeaderFacts
<1> QED
  BY <1>1, <1>2, <1>3, <1>4, <1>5, <1>6, <1>7, <1>8, <1>9, <1>h, Zenon DEF AnswerTo

LEMMA MemType ==
  ASSUME NEW cmd \in CommandNames, NEW stack \in [Offsets -> Bytes]
  PROVE  InitialMem(cmd, stack) \in [Offsets -> Bytes]
BY DEF InitialMem, Bytes

LEMMA Assumed ==
  /\ \A cmd \in CommandNames : \A o \in DOMAIN OptsOf(cmd) :
       \A n \in Numbers[o] : n \in Nat /\ n < NumberLimit
  /\ Stacks \subseteq [Offsets -> Bytes]
  /\ Junk \subseteq Nat
  /\ MaxOptions \in Nat /\ MaxOpenRetry \in Nat /\ MaxOpenRetry > 0
<1>1. /\ \A cmd \in CommandNames : \A o \in DOMAIN OptsOf(cmd) :
           Numbers[o] \subseteq 0..(NumberLimit - 1)
      /\ MaxOptions \in Nat /\ MaxOpenRetry \in Nat \ {0}
      /\ Stacks \subseteq [Offsets -> Bytes]
      /\ Junk \subseteq 0..(NumberLimit - 1)
  BY MiCliAssumption, SMT
<1>2. \A x \in 0..(NumberLimit - 1) : x \in Nat /\ x < NumberLimit
  BY NumbersAre
<1> QED BY <1>1, <1>2

LEMMA Named ==
  /\ \A cmd \in CommandNames : DOMAIN OptsOf(cmd) \subseteq OptionNames
  /\ "smbusfreq" \in OptionNames /\ "configid" \in OptionNames /\ "data" \in OptionNames
<1>1. \A cmd \in CommandNames : DOMAIN OptsOf(cmd) \subseteq OptionNames
  BY DEF OptionNames
<1>2. "smbusfreq" \in DOMAIN OptsOf("configset") /\ "configid" \in DOMAIN OptsOf("configset")
  <2>1. OptsOf("configset") = configset.opts
    BY DEF OptsOf, COMMAND_LIST
  <2> QED BY <2>1 DEF configset
<1>3. "data" \in DOMAIN OptsOf("vpdread")
  <2>1. OptsOf("vpdread") = vpdread.opts
    BY DEF OptsOf, COMMAND_LIST
  <2> QED BY <2>1 DEF vpdread
<1>4. "configset" \in CommandNames /\ "vpdread" \in CommandNames
  BY DEF CommandNames, COMMAND_LIST
<1> QED BY <1>1, <1>2, <1>3, <1>4

LEMMA NoProcessFacts ==
  /\ NoProcess \in ProcessSet
  /\ NoProcess.pc = "idle" /\ NoProcess.cmd = "none" /\ NoProcess.chunks = <<>>
  /\ NoProcess.copy.read = 0 /\ NoProcess.copy.total = 0 /\ NoProcess.ok = FALSE
  /\ NoProcess.ran = {}
  /\ NoProcess.typed = [o \in OptionNames |-> None]
  /\ NoProcess.mem = [i \in Offsets |-> 0]
<1>1. NoRequest \in RequestSet
  <2>1. 255 \in Bytes
    BY SMT DEF Bytes
  <2> QED BY <2>1, Small, MiFacts DEF NoRequest
<1>2. NoCopy \in CopySet
  BY DEF NoCopy, CopySet
<1>3. [i \in Offsets |-> 0] \in [Offsets -> Bytes]
  BY Small
<1>4. [o \in OptionNames |-> None] \in [OptionNames -> Nat \cup {None}]
  OBVIOUS
<1>5. 0 \in 0..MaxOptions /\ 0 \in 0..(MaxOpenRetry - 1)
  BY Assumed
<1>6. 1 \in Words \ {0}
  BY SMT DEF Words, WordLimit
<1>7. <<>> \in Seq(CopySet)
  OBVIOUS
<1>8. NoAnswer \in AnswerSet
  BY HeaderFacts
<1>9. NoProcess \in ProcessSet
  BY <1>1, <1>2, <1>3, <1>4, <1>5, <1>6, <1>7, <1>8 DEF NoProcess, ProcessSet
<1> QED BY <1>9 DEF NoProcess, NoCopy

LEMMA DefaultsFacts == Defaults \in DeviceSet /\ Defaults.freq \in Nat
<1>1. 64 \in Words \ {0}
  BY SMT DEF Words, WordLimit
<1> QED BY <1>1 DEF Defaults, DeviceSet

LEMMA LineFacts ==
  /\ InStep \in LineSet /\ Shifted \in LineSet /\ Lost \in LineSet
  /\ \A q \in RequestSet : [InStep EXCEPT !.owed = {q}] \in LineSet
BY DEF InStep, Shifted, Lost, LineSet

LEMMA LineFields ==
  /\ InStep.st = "in step" /\ InStep.owed = {}
  /\ Shifted.st = "shifted" /\ Shifted.owed = {}
  /\ Lost.st = "lost" /\ Lost.owed = {}
  /\ \A q : /\ [InStep EXCEPT !.owed = {q}].st = "in step"
            /\ [InStep EXCEPT !.owed = {q}].owed = {q}
BY DEF InStep, Shifted, Lost

\* What the types need besides: a process on its way has a command, and the
\* length of a chunk that is yet to be copied is not negative.
Progress ==
  /\ cli.pc \notin {"idle", "end"} => cli.cmd \in CommandNames
  /\ cli.copy.read < cli.copy.total => cli.copy.len >= 0

LEMMA EndedFacts ==
  ASSUME TypeOK, Progress, NEW rv \in {0, 12, 34, CRASH, ENOTTY, FAIL}, NEW ok \in BOOLEAN
  PROVE  /\ Ended(rv, ok) \in ProcessSet
         /\ Ended(rv, ok).pc = "end" /\ Ended(rv, ok).copy = cli.copy
<1>1. cli \in ProcessSet
  BY DEF TypeOK
<1>2. Ended(rv, ok) \in ProcessSet
  BY ONLY <1>1, rv \in {0, 12, 34, CRASH, ENOTTY, FAIL}, ok \in BOOLEAN, ZenonT(30)
     DEF ProcessSet, Ended
<1> QED BY <1>1, <1>2 DEF ProcessSet, Ended

LEMMA TypeInit == Init => TypeOK /\ Progress
<1> SUFFICES ASSUME Init PROVE TypeOK /\ Progress
  OBVIOUS
<1>1. /\ cli = NoProcess /\ dev = Defaults /\ slave = FALSE /\ line = InStep
  BY DEF Init
<1>2. TypeOK
  BY <1>1, NoProcessFacts, DefaultsFacts, LineFacts DEF TypeOK
<1>3. Progress
  BY <1>1, NoProcessFacts DEF Progress
<1> QED BY <1>2, <1>3

\* The same of the machine started again.
LEMMA RestTypes ==
  ASSUME Restarts
  PROVE  TypeOK' /\ Progress'
<1>0. /\ cli' = NoProcess /\ dev' = Defaults /\ slave' = FALSE /\ line' = InStep
  BY DEF Restarts
<1>1. TypeOK'
  BY <1>0, NoProcessFacts, DefaultsFacts, LineFacts DEF TypeOK
<1>2. Progress'
  BY <1>0, NoProcessFacts DEF Progress
<1> QED BY <1>1, <1>2

LEMMA InvokeType ==
  ASSUME TypeOK, Progress, NEW cmd \in CommandNames, Invoke(cmd)
  PROVE  TypeOK' /\ Progress'
<1>1. PICK stack \in [Offsets -> Bytes] :
        cli' = [NoProcess EXCEPT !.pc = "parse", !.cmd = cmd,
                  !.mem = InitialMem(cmd, stack), !.left = MaxOptions]
  <2>1. [i \in Offsets |-> 0] \in [Offsets -> Bytes]
    BY Small
  <2>2. \A t \in Stacks : t \in [Offsets -> Bytes]
    BY Assumed
  <2> QED BY <2>1, <2>2, Zenon DEF Invoke
<1>2. InitialMem(cmd, stack) \in [Offsets -> Bytes]
  BY MemType
<1>3. MaxOptions \in 0..MaxOptions
  BY Assumed
<1>4. cli' \in ProcessSet /\ cli'.cmd = cmd /\ cli'.copy = NoProcess.copy
  BY <1>1, <1>2, <1>3, NoProcessFacts DEF ProcessSet
<1> QED BY <1>4, NoProcessFacts DEF Invoke, TypeOK, Progress

LEMMA ParseType ==
  ASSUME TypeOK, Progress,
         (\E o \in DOMAIN Numbers : ParseOption(o)) \/ ParseFails \/ ParseEnds
  PROVE  TypeOK' /\ Progress'
<1>1. ASSUME NEW o \in DOMAIN Numbers, ParseOption(o)
      PROVE  TypeOK' /\ Progress'
  <2>1. cli.cmd \in CommandNames /\ o \in DOMAIN OptsOf(cli.cmd)
    BY <1>1 DEF ParseOption, Progress
  <2> DEFINE opt == OptsOf(cli.cmd)[o]
  <2>2. PICK n \in Numbers[o] :
          cli' = [cli EXCEPT !.left = @ - 1, !.typed[o] = n, !.mem = Store(cli.mem, opt, n)]
    BY <1>1 DEF ParseOption
  <2>3. n \in Nat /\ n < NumberLimit
    BY <2>1, Assumed
  <2>4. cli.mem \in [Offsets -> Bytes] /\ cli.left \in 0..MaxOptions /\ cli.left > 0
        /\ cli.typed \in [OptionNames -> Nat \cup {None}]
    BY <1>1 DEF TypeOK, ProcessSet, ParseOption
  <2>5. opt.at \in Offsets
    BY <2>1, OptionFacts DEF RoomFor
  <2> HIDE DEF opt
  <2>6. Store(cli.mem, opt, n) \in [Offsets -> Bytes]
    BY <2>3, <2>4, <2>5, StoreFacts
  <2>7. [cli.typed EXCEPT ![o] = n] \in [OptionNames -> Nat \cup {None}]
    BY <2>1, <2>3, <2>4, Named
  <2>8. cli.left - 1 \in 0..MaxOptions
    BY <2>4, Assumed
  <2>9. cli' = [cli EXCEPT !.left = cli.left - 1, !.typed = [cli.typed EXCEPT ![o] = n],
                           !.mem = Store(cli.mem, opt, n)]
    BY <2>2 DEF TypeOK, ProcessSet
  <2>10. cli' \in ProcessSet /\ cli'.cmd = cli.cmd /\ cli'.copy = cli.copy
    BY <2>6, <2>7, <2>8, <2>9 DEF TypeOK, ProcessSet
  <2> QED BY <1>1, <2>1, <2>10 DEF ParseOption, TypeOK, Progress
<1>2. CASE ParseFails
  <2>1. PICK rv \in {0, 12, 34} : cli' = Ended(rv, FALSE)
    BY <1>2 DEF ParseFails, ErrnoValues
  <2> QED BY <1>2, <2>1, EndedFacts DEF ParseFails, TypeOK, Progress
<1>3. CASE ParseEnds
  <2>1. 0 \in 0..MaxOptions
    BY Assumed
  <2> QED BY <1>3, <2>1 DEF ParseEnds, TypeOK, Progress, ProcessSet
<1> QED BY <1>1, <1>2, <1>3

LEMMA HoldsType ==
  ASSUME slave \in BOOLEAN, NEW answer, NEW unit
  PROVE  Holds(answer, unit) \in BOOLEAN
<1>1. Cut(answer.hdr, answer.size, unit) \in BOOLEAN
  BY DEF Cut
<1> QED BY <1>1 DEF Holds

\* What the execution of a request does to the process and the endpoint.
LEMMA ExecutesFacts ==
  ASSUME TypeOK, NEW q \in RequestSet, Executes(q)
  PROVE  /\ dev' = DeviceAfter(dev, q) /\ dev' \in DeviceSet
         /\ slave' \in BOOLEAN
         /\ cli' \in ProcessSet /\ cli'.pc = "receive" /\ cli'.ran = {q}
         /\ cli'.cmd = cli.cmd /\ cli'.mem = cli.mem /\ cli'.typed = cli.typed
         /\ cli'.req = cli.req /\ cli'.copy = cli.copy /\ cli'.chunks = cli.chunks
         /\ \E junk \in Junk : cli'.answer = AnswerTo(dev', q, junk)
<1> DEFINE after == DeviceAfter(dev, q)
<1>1. after \in AfterSet /\ after.unit > 0 /\ dev' = after
  BY DeviceType DEF Executes, TypeOK
<1>2. after.unit \in Words \ {0}
  BY <1>1 DEF AfterSet
<1> DEFINE answer(junk) == AnswerTo(after, q, junk)
<1>3. PICK junk \in Junk :
        /\ cli' = [cli EXCEPT !.pc = "receive", !.ran = {q}, !.answer = answer(junk),
                     !.unit = after.unit, !.clean = Comes(answer(junk), after.unit)]
        /\ slave' = Holds(answer(junk), after.unit)
  BY Zenon DEF Executes
<1>5. slave' \in BOOLEAN
  BY <1>3, HoldsType DEF TypeOK
<1>6. Comes(answer(junk), after.unit) \in BOOLEAN
  BY DEF Comes
<1>7. answer(junk) \in AnswerSet
  BY <1>1, AnswerType, Assumed
<1>8. dev' \in DeviceSet
  BY <1>1, <1>2 DEF AfterSet, DeviceSet
<1>10. cli'.answer = AnswerTo(dev', q, junk)
  <2>1. cli'.answer = answer(junk)
    BY <1>3 DEF TypeOK, ProcessSet
  <2> QED BY <1>1, <2>1
<1> HIDE DEF after, answer
<1>11. {q} \in SUBSET RequestSet
  OBVIOUS
<1>12. cli' \in ProcessSet
  BY <1>2, <1>3, <1>6, <1>7, <1>11 DEF TypeOK, ProcessSet
<1>13. /\ cli'.pc = "receive" /\ cli'.ran = {q}
       /\ cli'.cmd = cli.cmd /\ cli'.mem = cli.mem /\ cli'.typed = cli.typed
       /\ cli'.req = cli.req /\ cli'.copy = cli.copy /\ cli'.chunks = cli.chunks
  BY <1>3 DEF TypeOK, ProcessSet
<1> QED BY <1>1, <1>5, <1>8, <1>10, <1>12, <1>13 DEF after

\* The process reads what is not its answer.
LEMMA UnheardFacts ==
  ASSUME TypeOK, cli' = [cli EXCEPT !.pc = "receive", !.clean = FALSE]
  PROVE  /\ cli' \in ProcessSet /\ cli'.pc = "receive" /\ ~cli'.clean
         /\ cli'.ran = cli.ran /\ cli'.answer = cli.answer
         /\ cli'.cmd = cli.cmd /\ cli'.mem = cli.mem /\ cli'.typed = cli.typed
         /\ cli'.req = cli.req /\ cli'.copy = cli.copy /\ cli'.chunks = cli.chunks
<1>0. cli \in ProcessSet
  BY DEF TypeOK
<1>1. cli' \in ProcessSet
  BY ONLY <1>0, cli' = [cli EXCEPT !.pc = "receive", !.clean = FALSE], ZenonT(40)
     DEF ProcessSet
<1> QED BY <1>0, <1>1 DEF ProcessSet

\* What becomes of the line: the request before is executed, or none is.
Executed == \E q \in RequestSet :
  /\ Executes(q) /\ line.st = "in step"
  /\ q \in line.owed /\ line' = Shifted

Unheard ==
  /\ cli' = [cli EXCEPT !.pc = "receive", !.clean = FALSE]
  /\ line' \in LineAfterUnheard
  /\ UNCHANGED <<dev, slave>>

CutOff ==
  cli' \in {NotSent, NoProcess} /\ line' = Lost /\ UNCHANGED <<dev, slave>>

LEMMA TransmitCases ==
  ASSUME TypeOK, TransmitStep
  PROVE  cli.pc = "send" /\ (Executed \/ Unheard \/ CutOff \/ Restarts)
<1>1. CASE TransmitLate
  <2>1. PICK q \in line.owed : Executes(q)
    BY <1>1, Zenon DEF TransmitLate
  <2>2. q \in RequestSet
    BY DEF TypeOK, LineSet
  <2> QED BY <1>1, <2>1, <2>2, Zenon DEF TransmitLate, Executed
<1>2. CASE TransmitUnheard
  BY <1>2, Zenon DEF TransmitUnheard, Unheard
<1>3. CASE TransmitCut
  BY <1>3, Zenon DEF TransmitCut, CutOff
<1>4. CASE TransmitHangs
  BY <1>4, Zenon DEF TransmitHangs
<1> QED BY <1>1, <1>2, <1>3, <1>4 DEF TransmitStep

\* Where it leaves the process.
LEMMA TransmitKeeps ==
  ASSUME TypeOK, TransmitStep
  PROVE  /\ cli.pc = "send"
         /\ \/ /\ cli'.pc = "receive"
               /\ cli'.cmd = cli.cmd /\ cli'.mem = cli.mem /\ cli'.typed = cli.typed
               /\ cli'.req = cli.req /\ cli'.copy = cli.copy /\ cli'.chunks = cli.chunks
            \/ cli' = Ended(FAIL, FALSE)
            \/ cli' = NoProcess
<1>1. CASE Executed
  <2>1. PICK q \in RequestSet : Executes(q)
    BY <1>1, Zenon DEF Executed
  <2> QED BY <2>1, ExecutesFacts, TransmitCases
<1>2. CASE Unheard
  BY <1>2, UnheardFacts, TransmitCases DEF Unheard
<1>3. CASE CutOff
  BY <1>3, TransmitCases DEF CutOff, NotSent
<1>4. CASE Restarts
  BY <1>4, TransmitCases DEF Restarts
<1> QED BY <1>1, <1>2, <1>3, <1>4, TransmitCases

LEMMA ExecuteType ==
  ASSUME TypeOK, Progress, ExecuteStep
  PROVE  TypeOK' /\ Progress'
<1>u. cli.pc \in {"open", "send"} /\ cli.cmd \in CommandNames
  BY TransmitCases DEF ExecuteStep, OpenDevice, OpenFails, OpenAgain, SendFails, Progress
<1>1. CASE OpenDevice
  <2>1. RequestOf(cli.cmd, cli.mem) \in RequestSet
    BY <1>u, RequestType DEF TypeOK, ProcessSet
  <2> QED BY <1>1, <1>u, <2>1 DEF OpenDevice, TypeOK, ProcessSet, Progress
<1>2. CASE OpenFails
  <2>1. CASE cli' = Ended(FAIL, FALSE)
    BY <1>2, <2>1, EndedFacts DEF OpenFails, TypeOK, Progress
  <2>2. CASE cli.tries + 1 < MaxOpenRetry /\ cli' = [cli EXCEPT !.tries = cli.tries + 1]
    <3>1. cli.tries + 1 \in 0..(MaxOpenRetry - 1)
      BY <2>2, Assumed DEF TypeOK, ProcessSet
    <3> QED BY <1>2, <1>u, <2>2, <3>1 DEF OpenFails, TypeOK, ProcessSet, Progress
  <2> QED BY <1>2, <2>1, <2>2 DEF OpenFails, OpenAgain
<1>3. CASE SendFails
  <2>1. PICK rv \in {FAIL, CRASH} : cli' = Ended(rv, FALSE)
    BY <1>3 DEF SendFails, NotSent
  <2> QED BY <1>3, <2>1, EndedFacts DEF SendFails, TypeOK, Progress
<1>4. CASE TransmitStep
  <2>1. CASE Executed
    <3>1. PICK q \in RequestSet : Executes(q) /\ (UNCHANGED line \/ line' = Shifted)
      BY <2>1, Zenon DEF Executed
    <3>2. line' \in LineSet
      BY <3>1, LineFacts DEF TypeOK
    <3>3. /\ dev' \in DeviceSet /\ slave' \in BOOLEAN
          /\ cli' \in ProcessSet /\ cli'.pc = "receive"
          /\ cli'.cmd = cli.cmd /\ cli'.copy = cli.copy
      BY <3>1, ExecutesFacts
    <3> QED BY <1>u, <3>2, <3>3 DEF TypeOK, Progress
  <2>2. CASE Unheard
    <3>1. line' \in LineSet
      <4>1. cli.req \in RequestSet
        BY DEF TypeOK, ProcessSet
      <4> QED BY <2>2, <4>1, LineFacts DEF Unheard, LineAfterUnheard
    <3>2. cli' \in ProcessSet /\ cli'.cmd = cli.cmd /\ cli'.copy = cli.copy
      BY <2>2, UnheardFacts DEF Unheard
    <3> QED BY <1>u, <2>2, <3>1, <3>2 DEF Unheard, TypeOK, Progress
  <2>3. CASE CutOff
    <3>1. CASE cli' = Ended(FAIL, FALSE)
      BY <2>3, <3>1, EndedFacts, LineFacts DEF CutOff, TypeOK, Progress
    <3>2. CASE cli' = NoProcess
      BY <2>3, <3>2, NoProcessFacts, LineFacts DEF CutOff, TypeOK, Progress
    <3> QED BY <2>3, <3>1, <3>2 DEF CutOff, NotSent
  <2> QED BY <1>4, <2>1, <2>2, <2>3, TransmitCases, RestTypes
<1> QED BY <1>1, <1>2, <1>3, <1>4 DEF ExecuteStep

\* Where the copy of an answer starts, and a turn of its loop.
LEMMA StartFacts ==
  ASSUME NEW hdr \in {MiHeader, AdminHeader}, NEW size \in Nat, NEW length \in Nat,
         CopyStart(hdr, size, length).total >= 0
  PROVE  /\ CopyStart(hdr, size, length) \in CopySet
         /\ CopyStart(hdr, size, length).len >= 0
         /\ CopyStart(hdr, size, length).off = PacketHeader + hdr
BY DEF CopyStart, CopySet, Least, PacketHeader, HostUnit, CrcSize, MiHeader, AdminHeader

LEMMA NextFacts ==
  ASSUME NEW copy \in CopySet, copy.read < copy.total, copy.len >= 0
  PROVE  /\ CopyNext(copy) \in CopySet
         /\ CopyNext(copy).read < CopyNext(copy).total => CopyNext(copy).len >= 0
BY DEF CopyNext, CopySet, PacketHeader, HostUnit

LEMMA SizeFacts ==
  ASSUME NEW cmd \in CommandNames, NEW req \in RequestSet, NEW answer \in AnswerSet
  PROVE  CopySize(cmd, req, answer) \in Int
<1>1. answer.mgmt \in Nat /\ req.dlen \in Nat
  BY RequestFields DEF AnswerSet
<1>2. answer.mgmt % WordLimit \in Int /\ 16 * (answer.mgmt \div WordLimit) \in Int
  BY ONLY <1>1, SMT DEF WordLimit
<1> QED BY <1>1, <1>2, SMT DEF CopySize

LEMMA LengthFacts ==
  ASSUME NEW answer \in AnswerSet, NEW unit \in Words \ {0}
  PROVE  ReplyLength(answer.hdr, answer.size, unit) \in Nat
<1>1. unit \in Nat /\ unit > 0
  BY WordsAre
<1>2. Total(answer.hdr, answer.size) \in Nat
  BY SMT DEF Total, CrcSize, AnswerSet, MiHeader, AdminHeader
<1>3. (Total(answer.hdr, answer.size) + unit - 1) \div unit \in Nat
  BY ONLY <1>1, <1>2, SMT
<1> QED BY <1>2, <1>3 DEF ReplyLength, Packets

LEMMA HeaderOfFacts ==
  ASSUME NEW req
  PROVE  HeaderOf(req) \in {MiHeader, AdminHeader}
BY DEF HeaderOf

\* What Handle does, by where it leaves the process.
LEMMA HandleCases ==
  ASSUME TypeOK, Progress, Handle
  PROVE  \/ \E rv \in {FAIL, CRASH} : cli' = Ended(rv, FALSE)
         \/ /\ cli' = [cli EXCEPT !.pc = "copy",
                         !.copy = CopyStart(HeaderOf(cli.req),
                                    CopySize(cli.cmd, cli.req, cli.answer),
                                    ReplyLength(cli.answer.hdr, cli.answer.size, cli.unit))]
            /\ cli'.copy \in CopySet /\ cli'.copy.len >= 0
            /\ cli'.copy.off = PacketHeader + HeaderOf(cli.req)
            /\ CopySize(cli.cmd, cli.req, cli.answer) >= 0
         \/ cli' = Ended(0, TRUE)
<1> DEFINE size == CopySize(cli.cmd, cli.req, cli.answer)
           length == ReplyLength(cli.answer.hdr, cli.answer.size, cli.unit)
           start == CopyStart(HeaderOf(cli.req), size, length)
<1>1. size \in Int /\ length \in Nat
  BY SizeFacts, LengthFacts DEF TypeOK, ProcessSet, Progress, Handle
<1>2. \/ cli' = Ended(FAIL, FALSE)
      \/ cli' = Ended(CRASH, FALSE)
      \/ size >= 0 /\ ~(start.total < 0) /\ cli' = [cli EXCEPT !.pc = "copy", !.copy = start]
      \/ cli' = Ended(0, TRUE)
  BY Zenon DEF Handle
<1>3. ASSUME size >= 0, ~(start.total < 0), cli' = [cli EXCEPT !.pc = "copy", !.copy = start]
      PROVE  /\ cli'.copy \in CopySet /\ cli'.copy.len >= 0
             /\ cli'.copy.off = PacketHeader + HeaderOf(cli.req)
  <2>1. size \in Nat /\ length \in Nat
    BY <1>1, <1>3
  <2>2. start.total \in Int
    <3>1. HeaderOf(cli.req) \in Int
      BY HeaderOfFacts DEF MiHeader, AdminHeader
    <3> HIDE DEF size, length
    <3> QED BY <2>1, <3>1 DEF CopyStart, CrcSize
  <2> HIDE DEF size, length
  <2>3. start \in CopySet /\ start.len >= 0 /\ start.off = PacketHeader + HeaderOf(cli.req)
    BY <1>3, <2>1, <2>2, StartFacts, HeaderOfFacts
  <2> HIDE DEF start
  <2> QED BY <1>3, <2>3 DEF TypeOK, ProcessSet
<1> HIDE DEF size, length
<1> QED BY <1>2, <1>3 DEF size, length

LEMMA ReceiveCases ==
  ASSUME TypeOK, Receive
  PROVE  /\ cli.pc = "receive" /\ UNCHANGED <<dev, slave, line>>
         /\ \/ cli' = Ended(FAIL, FALSE)
            \/ /\ cli' \in ProcessSet /\ cli'.pc = "handle" /\ cli'.cmd = cli.cmd
               /\ cli'.mem = cli.mem /\ cli'.typed = cli.typed /\ cli'.req = cli.req
               /\ cli'.answer = cli.answer /\ cli'.copy = cli.copy
               /\ cli'.chunks = cli.chunks /\ cli'.ran = cli.ran
               /\ (cli'.clean => cli.clean)
<1>0. cli \in ProcessSet
  BY DEF TypeOK
<1>1. ASSUME NEW clean \in BOOLEAN, cli' = [cli EXCEPT !.pc = "handle", !.clean = clean]
      PROVE  /\ cli' \in ProcessSet /\ cli'.pc = "handle" /\ cli'.cmd = cli.cmd
             /\ cli'.mem = cli.mem /\ cli'.typed = cli.typed /\ cli'.req = cli.req
             /\ cli'.answer = cli.answer /\ cli'.copy = cli.copy
             /\ cli'.chunks = cli.chunks /\ cli'.ran = cli.ran /\ cli'.clean = clean
  <2>1. cli' \in ProcessSet
    BY ONLY <1>0, <1>1, clean \in BOOLEAN, ZenonT(40) DEF ProcessSet
  <2> QED BY <1>0, <1>1, <2>1 DEF ProcessSet
<1>2. cli.clean \in BOOLEAN
  BY <1>0 DEF ProcessSet
<1>3. [cli EXCEPT !.pc = "handle"] = [cli EXCEPT !.pc = "handle", !.clean = cli.clean]
  BY ONLY <1>0 DEF ProcessSet
<1> QED BY <1>1, <1>2, <1>3 DEF Receive

LEMMA ReplyType ==
  ASSUME TypeOK, Progress, AnswerStep
  PROVE  TypeOK' /\ Progress'
<1>u. UNCHANGED <<dev, slave, line>>
  BY DEF AnswerStep, Receive, HandleGarbled, Handle, CopyChunk, CopyEnds
<1>e. ASSUME NEW rv \in {0, 12, 34, CRASH, ENOTTY, FAIL}, NEW ok \in BOOLEAN,
             cli' = Ended(rv, ok)
      PROVE  TypeOK' /\ Progress'
  BY <1>e, <1>u, EndedFacts DEF TypeOK, Progress
<1>1. CASE Receive
  <2>1. cli.pc = "receive"
    BY <1>1, ReceiveCases
  <2>2. CASE cli' = Ended(FAIL, FALSE)
    BY <1>e, <2>2
  <2>3. CASE /\ cli' \in ProcessSet /\ cli'.pc = "handle" /\ cli'.cmd = cli.cmd
             /\ cli'.copy = cli.copy
    BY <1>u, <2>1, <2>3 DEF TypeOK, Progress
  <2> QED BY <1>1, <2>2, <2>3, ReceiveCases
<1>2. CASE HandleGarbled
  BY <1>2, <1>e DEF HandleGarbled
<1>3. CASE Handle
  <2>0. cli.pc = "handle"
    BY <1>3 DEF Handle
  <2>1. CASE \E rv \in {FAIL, CRASH} : cli' = Ended(rv, FALSE)
    BY <1>e, <2>1
  <2>2. ASSUME NEW c \in CopySet, c.len >= 0, cli' = [cli EXCEPT !.pc = "copy", !.copy = c]
        PROVE  TypeOK' /\ Progress'
    BY <1>u, <2>0, <2>2 DEF TypeOK, ProcessSet, Progress
  <2>3. CASE cli' = Ended(0, TRUE)
    <3>1. cli' \in ProcessSet /\ cli'.pc = "end" /\ cli'.copy = cli.copy
      BY <2>3, EndedFacts
    <3> QED BY <1>u, <3>1 DEF TypeOK, Progress
  <2>4. ASSUME NEW c, cli' = [cli EXCEPT !.pc = "copy", !.copy = c]
        PROVE  cli'.copy = c
    BY <2>4 DEF TypeOK, ProcessSet
  <2> QED BY <1>3, <2>1, <2>2, <2>3, <2>4, HandleCases
<1>4. CASE CopyChunk
  <2>1. /\ cli.copy \in CopySet /\ cli.copy.len >= 0 /\ cli.copy.read < cli.copy.total
        /\ cli.chunks \in Seq(CopySet)
    BY <1>4 DEF CopyChunk, TypeOK, ProcessSet, Progress
  <2>2. Append(cli.chunks, cli.copy) \in Seq(CopySet)
    BY <2>1
  <2>3. /\ CopyNext(cli.copy) \in CopySet
        /\ CopyNext(cli.copy).read < CopyNext(cli.copy).total => CopyNext(cli.copy).len >= 0
    BY <2>1, NextFacts
  <2>4. cli' = [cli EXCEPT !.chunks = Append(cli.chunks, cli.copy),
                           !.copy = CopyNext(cli.copy)]
    BY <1>4 DEF CopyChunk, TypeOK, ProcessSet
  <2>5. /\ cli' \in ProcessSet /\ cli'.cmd = cli.cmd /\ cli'.pc = cli.pc
        /\ cli'.copy = CopyNext(cli.copy)
    BY <2>2, <2>3, <2>4 DEF TypeOK, ProcessSet
  <2> QED BY <1>u, <2>3, <2>5 DEF TypeOK, Progress
<1>5. CASE CopyEnds
  BY <1>5, <1>e DEF CopyEnds
<1> QED BY <1>1, <1>2, <1>3, <1>4, <1>5 DEF AnswerStep

LEMMA RestType ==
  ASSUME TypeOK, Progress, NoCommand \/ Kill \/ Reboot
  PROVE  TypeOK' /\ Progress'
<1>1. CASE NoCommand
  <2>1. PICK rv \in {0, ENOTTY} : cli' = [NoProcess EXCEPT !.pc = "end", !.rv = rv]
    BY <1>1 DEF NoCommand
  <2>2. cli' \in ProcessSet /\ cli'.pc = "end" /\ cli'.copy = NoProcess.copy
    BY <2>1, NoProcessFacts DEF ProcessSet
  <2> QED BY <1>1, <2>2, NoProcessFacts DEF NoCommand, TypeOK, Progress
<1>2. CASE Kill
  BY <1>2, NoProcessFacts DEF Kill, TypeOK, Progress
<1> QED BY <1>1, <1>2, RestTypes DEF Reboot

\* One step keeps the types, and what they need besides.
LEMMA TypeStep == TypeOK /\ Progress /\ [Next]_vars => TypeOK' /\ Progress'
<1> SUFFICES ASSUME TypeOK, Progress, [Next]_vars PROVE TypeOK' /\ Progress'
  OBVIOUS
<1>1. CASE UNCHANGED vars
  BY <1>1 DEF vars, TypeOK, Progress
<1>2. CASE Next
  BY <1>2, InvokeType, ParseType, ExecuteType, ReplyType, RestType
     DEF Next, CliStep, ParseStep
<1> QED BY <1>1, <1>2

\* The endpoint's settings, the process and its request, the answer and the
\* chunks copied of it stay in their ranges, whatever is typed and in whatever
\* order processes run and are killed (main, executecommand, getresponsedata).
THEOREM TypeCorrect == Spec => []TypeOK
<1>1. Init => TypeOK /\ Progress
  BY TypeInit
<1>2. TypeOK /\ Progress /\ [Next]_vars => (TypeOK /\ Progress)'
  BY TypeStep
<1> QED BY <1>1, <1>2, PTL DEF Spec

-----------------------------------------------------------------------------
(* The refinement                                                          *)

\* The session of a process c where the line is l.
SessionOf(l, c) ==
  [st |-> CASE l.st = "lost" -> "lost"
            [] l.st # "lost" /\ c.pc = "send" -> "asked"
            [] l.st # "lost" /\ c.pc \in {"receive", "handle", "copy"} ->
                 IF c.ran = {} THEN "none" ELSE "asked"
            [] l.st # "lost" /\ c.pc = "end" /\ c.ok /\ c.clean -> "answered"
            [] OTHER -> "none",
   req |-> c.req,
   ran |-> c.ran]

LEMMA SessionIs ==
  /\ Session = SessionOf(line, cli) /\ Session' = SessionOf(line', cli')
BY Zenon DEF Session, SessionOf

LEMMA SessionFacts ==
  ASSUME NEW l, NEW c
  PROVE  /\ SessionOf(l, c).req = c.req /\ SessionOf(l, c).ran = c.ran
         /\ SessionOf(l, c) = [st |-> SessionOf(l, c).st, req |-> c.req, ran |-> c.ran]
         /\ l.st = "lost" => SessionOf(l, c).st = "lost"
         /\ l.st # "lost" =>
              /\ c.pc = "send" => SessionOf(l, c).st = "asked"
              /\ c.pc \in {"receive", "handle", "copy"} =>
                   SessionOf(l, c).st = IF c.ran = {} THEN "none" ELSE "asked"
              /\ c.pc = "end" /\ c.ok /\ c.clean => SessionOf(l, c).st = "answered"
              /\ c.pc = "end" /\ ~(c.ok /\ c.clean) => SessionOf(l, c).st = "none"
              /\ c.pc \in {"idle", "parse", "open"} => SessionOf(l, c).st = "none"
<1>1. /\ SessionOf(l, c).req = c.req /\ SessionOf(l, c).ran = c.ran
      /\ SessionOf(l, c) = [st |-> SessionOf(l, c).st, req |-> c.req, ran |-> c.ran]
  BY DEF SessionOf
<1>2. l.st = "lost" => SessionOf(l, c).st = "lost"
  BY DEF SessionOf
<1>3. l.st # "lost" =>
        /\ c.pc = "send" => SessionOf(l, c).st = "asked"
        /\ c.pc \in {"receive", "handle", "copy"} =>
             SessionOf(l, c).st = IF c.ran = {} THEN "none" ELSE "asked"
  BY SMT DEF SessionOf
<1>4. l.st # "lost" =>
        /\ c.pc = "end" /\ c.ok /\ c.clean => SessionOf(l, c).st = "answered"
        /\ c.pc = "end" /\ ~(c.ok /\ c.clean) => SessionOf(l, c).st = "none"
        /\ c.pc \in {"idle", "parse", "open"} => SessionOf(l, c).st = "none"
  BY SMT DEF SessionOf
<1> QED BY <1>1, <1>2, <1>3, <1>4

\* Before its request is sent nothing is executed for a process, and an answer
\* that comes whole is that of a request which was.
Ran ==
  /\ cli.pc \in {"idle", "parse", "open", "send"} => cli.ran = {}
  /\ cli.pc \in {"receive", "handle"} /\ cli.clean => cli.ran # {}
  /\ cli.pc = "copy" => cli.ran # {}

\* One request waits, if any, where the endpoint is in step.
Lines ==
  \/ line \in {InStep, Shifted, Lost}
  \/ \E q \in RequestSet : line = [InStep EXCEPT !.owed = {q}]

LEMMA EndedSession ==
  ASSUME TypeOK, NEW rv, NEW ok \in BOOLEAN, cli' = Ended(rv, ok)
  PROVE  /\ cli'.pc = "end" /\ cli'.ok = ok /\ cli'.req = cli.req
         /\ cli'.ran = cli.ran /\ cli'.clean = cli.clean
BY DEF Ended, TypeOK, ProcessSet

LEMMA RanStep ==
  ASSUME TypeOK, Progress, TypeOK', Ran, [Next]_vars
  PROVE  Ran'
<1>e. ASSUME NEW rv, NEW ok \in BOOLEAN, cli' = Ended(rv, ok)
      PROVE  Ran'
  BY <1>e, EndedSession DEF Ran
<1>n. ASSUME cli'.ran = {}, cli'.pc \in {"idle", "parse", "open", "send", "end"}
      PROVE  Ran'
  BY <1>n DEF Ran
<1>1. ASSUME NEW cmd \in CommandNames, Invoke(cmd)
      PROVE  Ran'
  <2>1. cli'.pc = "parse" /\ cli'.ran = {}
    BY <1>1, NoProcessFacts DEF Invoke, ProcessSet
  <2> QED BY <2>1, <1>n
<1>2. CASE NoCommand \/ Kill \/ Reboot
  <2>1. cli'.pc \in {"idle", "end"} /\ cli'.ran = {}
    BY <1>2, NoProcessFacts DEF NoCommand, Kill, Reboot, Restarts, ProcessSet
  <2> QED BY <2>1, <1>n
<1>3. ASSUME NEW o \in DOMAIN Numbers, ParseOption(o)
      PROVE  Ran'
  <2>1. cli.pc = "parse" /\ cli'.pc = "parse" /\ cli'.ran = cli.ran
    BY <1>3 DEF ParseOption, TypeOK, ProcessSet
  <2> QED BY <2>1, <1>n DEF Ran
<1>4. CASE ParseFails \/ SendFails \/ HandleGarbled \/ CopyEnds
  BY <1>4, <1>e DEF ParseFails, SendFails, NotSent, HandleGarbled, CopyEnds
<1>5. CASE ParseEnds \/ OpenDevice
  <2>1. cli.pc \in {"parse", "open"} /\ cli'.pc \in {"open", "send"} /\ cli'.ran = cli.ran
    BY <1>5 DEF ParseEnds, OpenDevice, TypeOK, ProcessSet
  <2> QED BY <2>1, <1>n DEF Ran
<1>6. CASE OpenFails
  <2>1. CASE cli' = Ended(FAIL, FALSE)
    BY <2>1, <1>e
  <2>2. CASE cli' = [cli EXCEPT !.tries = @ + 1]
    <3>1. cli.pc = "open" /\ cli'.pc = "open" /\ cli'.ran = cli.ran
      BY <1>6, <2>2 DEF OpenFails, OpenAgain, TypeOK, ProcessSet
    <3> QED BY <3>1, <1>n DEF Ran
  <2> QED BY <1>6, <2>1, <2>2 DEF OpenFails, OpenAgain
<1>7. CASE TransmitStep
  <2>1. CASE Executed
    <3>1. PICK q \in RequestSet : Executes(q)
      BY <2>1, Zenon DEF Executed
    <3>2. cli'.pc = "receive" /\ cli'.ran = {q}
      BY <3>1, ExecutesFacts
    <3> QED BY <3>2 DEF Ran
  <2>2. CASE Unheard
    <3>1. cli'.pc = "receive" /\ ~cli'.clean
      BY <2>2, UnheardFacts DEF Unheard
    <3> QED BY <3>1 DEF Ran
  <2>3. CASE CutOff
    <3>1. cli' = Ended(FAIL, FALSE) \/ cli' = NoProcess
      BY <2>3 DEF CutOff, NotSent
    <3> QED BY <3>1, <1>e, <1>n, NoProcessFacts
  <2>4. CASE Restarts
    BY <2>4, <1>n, NoProcessFacts DEF Restarts
  <2> QED BY <1>7, <2>1, <2>2, <2>3, <2>4, TransmitCases
<1>8. CASE Receive
  <2>0. cli.pc = "receive"
    BY <1>8, ReceiveCases
  <2>1. CASE cli' = Ended(FAIL, FALSE)
    BY <2>1, <1>e
  <2>2. CASE cli'.pc = "handle" /\ cli'.ran = cli.ran /\ (cli'.clean => cli.clean)
    BY <2>0, <2>2 DEF Ran
  <2> QED BY <1>8, <2>1, <2>2, ReceiveCases
<1>9. CASE Handle
  <2>0. cli.pc = "handle" /\ cli.clean
    BY <1>9 DEF Handle
  <2>1. CASE \E rv \in {FAIL, CRASH} : cli' = Ended(rv, FALSE)
    BY <2>1, <1>e
  <2>2. ASSUME NEW c, cli' = [cli EXCEPT !.pc = "copy", !.copy = c]
        PROVE  Ran'
    <3>1. cli'.pc = "copy" /\ cli'.ran = cli.ran
      BY <2>2 DEF TypeOK, ProcessSet
    <3> QED BY <2>0, <3>1 DEF Ran
  <2>3. CASE cli' = Ended(0, TRUE)
    <3>1. cli'.pc = "end"
      BY <2>3 DEF Ended, TypeOK, ProcessSet
    <3> QED BY <3>1 DEF Ran
  <2> QED BY <1>9, <2>1, <2>2, <2>3, HandleCases
<1>10. CASE CopyChunk
  <2>1. cli.pc = "copy" /\ cli'.pc = "copy" /\ cli'.ran = cli.ran
    BY <1>10 DEF CopyChunk, TypeOK, ProcessSet
  <2> QED BY <2>1 DEF Ran
<1>11. CASE UNCHANGED vars
  BY <1>11 DEF vars, Ran
<1> QED
  BY <1>1, <1>2, <1>3, <1>4, <1>5, <1>6, <1>7, <1>8, <1>9, <1>10, <1>11
     DEF Next, CliStep, ParseStep, ExecuteStep, AnswerStep

\* Only the transmission of a request, and a restart, change the line.
LEMMA LineKept ==
  ASSUME TypeOK, [Next]_vars, ~TransmitStep, ~Reboot
  PROVE  UNCHANGED <<dev, line>>
<1>1. ASSUME NEW cmd \in CommandNames, Invoke(cmd)
      PROVE  UNCHANGED <<dev, line>>
  BY <1>1 DEF Invoke
<1>2. ASSUME NEW o \in DOMAIN Numbers, ParseOption(o)
      PROVE  UNCHANGED <<dev, line>>
  BY <1>2 DEF ParseOption
<1>3. CASE NoCommand \/ Kill \/ ParseFails \/ ParseEnds \/ OpenDevice \/ OpenFails \/ SendFails
  BY <1>3 DEF NoCommand, Kill, ParseFails, ParseEnds, OpenDevice, OpenFails, SendFails
<1>4. CASE Receive \/ HandleGarbled \/ Handle \/ CopyChunk \/ CopyEnds
  BY <1>4, ReceiveCases DEF HandleGarbled, Handle, CopyChunk, CopyEnds
<1>5. CASE UNCHANGED vars
  BY <1>5 DEF vars
<1> QED
  BY <1>1, <1>2, <1>3, <1>4, <1>5 DEF Next, CliStep, ParseStep, ExecuteStep, AnswerStep

LEMMA LinesStep ==
  ASSUME TypeOK, Lines, [Next]_vars
  PROVE  Lines'
<1>1. CASE TransmitStep
  <2>1. CASE Executed
    BY <2>1 DEF Executed, Lines
  <2>2. CASE Unheard
    <3>1. cli.req \in RequestSet
      BY DEF TypeOK, ProcessSet
    <3>2. CASE line = InStep /\ ~TwoPackets(cli.req)
      BY <2>2, <3>1, <3>2 DEF Unheard, LineAfterUnheard, Lines
    <3>3. CASE ~(line = InStep /\ ~TwoPackets(cli.req))
      <4>1. line' \in {InStep, Shifted, Lost}
        BY <2>2, <3>3 DEF Unheard, LineAfterUnheard
      <4> QED BY <4>1 DEF Lines
    <3> QED BY <3>2, <3>3
  <2>3. CASE CutOff
    BY <2>3 DEF CutOff, Lines
  <2>4. CASE Restarts
    BY <2>4 DEF Restarts, Lines
  <2> QED BY <1>1, <2>1, <2>2, <2>3, <2>4, TransmitCases
<1>2. CASE Reboot
  BY <1>2 DEF Reboot, Restarts, Lines
<1>3. CASE ~TransmitStep /\ ~Reboot
  BY <1>3, LineKept DEF Lines
<1> QED BY <1>1, <1>2, <1>3

-----------------------------------------------------------------------------
(* Steps of the service                                                    *)

\* The line is lost.
LEMMA LoseFacts ==
  ASSUME line'.st = "lost"
  PROVE  Service!Next
<1>1. Session'.st = "lost"
  BY SessionIs, SessionFacts
<1> QED BY <1>1 DEF Service!Next, Service!Lose

\* A process gives up, or has not asked yet.
LEMMA LeaveFacts ==
  ASSUME UNCHANGED dev, line'.owed = line.owed, line.st # "lost", line'.st # "lost",
         \/ cli'.pc \in {"idle", "parse", "open"}
         \/ cli'.pc = "end" /\ ~(cli'.ok /\ cli'.clean)
         \/ cli'.pc \in {"receive", "handle", "copy"} /\ cli'.ran = {}
  PROVE  Service!Next
<1>1. SessionOf(line', cli').st = "none"
  BY SessionFacts
<1>2. SessionOf(line, cli).st # "lost"
  BY SMT DEF SessionOf
<1> QED BY <1>1, <1>2, SessionIs DEF Service!Next, Service!Leave

LEMMA Answering ==
  ASSUME NEW s, NEW r, NEW req, NEW ran, NEW st,
         s = [st |-> s.st, req |-> req, ran |-> ran], r = [st |-> st, req |-> req, ran |-> ran]
  PROVE  r = [s EXCEPT !.st = st]
OBVIOUS

\* A process that knows of the request that was executed goes on, or has its answer.
LEMMA GoesOnFacts ==
  ASSUME UNCHANGED <<dev, line>>, line.st # "lost", cli'.req = cli.req, cli'.ran = cli.ran,
         cli.pc \in {"receive", "handle", "copy"}, cli'.pc \in {"receive", "handle", "copy"}
  PROVE  UNCHANGED Service!vars
<1>1. SessionOf(line', cli') = SessionOf(line, cli) /\ line'.owed = line.owed
  <2>1. SessionOf(line', cli').st = SessionOf(line, cli).st
    BY SessionFacts
  <2> QED BY <2>1, SessionFacts
<1> QED BY <1>1, SessionIs DEF Service!vars

LEMMA AnswerStepFacts ==
  ASSUME UNCHANGED <<dev, line>>, line.st # "lost", cli'.req = cli.req, cli'.ran = cli.ran,
         cli.pc \in {"receive", "handle", "copy"}, cli.ran # {}, cli'.pc = "end"
  PROVE  Service!Next
<1>1. CASE cli'.ok /\ cli'.clean
  <2>1. SessionOf(line, cli).st = "asked" /\ SessionOf(line', cli').st = "answered"
    BY <1>1, SessionFacts
  <2>2. SessionOf(line', cli') = [SessionOf(line, cli) EXCEPT !.st = "answered"]
    BY <2>1, SessionFacts, Answering
  <2>3. SessionOf(line, cli).ran # {} /\ line'.owed = line.owed
    BY SessionFacts
  <2> QED BY <2>1, <2>2, <2>3, SessionIs DEF Service!Next, Service!Answer
<1>2. CASE ~(cli'.ok /\ cli'.clean)
  BY <1>2, LeaveFacts
<1> QED BY <1>1, <1>2

LEMMA AskFacts ==
  ASSUME TypeOK', Ran, OpenDevice, line.st # "lost"
  PROVE  Service!Next
<1>1. /\ cli.pc = "open" /\ cli'.pc = "send" /\ cli'.ran = cli.ran /\ UNCHANGED <<dev, line>>
      /\ cli'.req \in RequestSet
  <2>1. cli'.req \in RequestSet
    BY DEF TypeOK, ProcessSet
  <2>2. cli.pc = "open" /\ UNCHANGED <<dev, line>>
    BY DEF OpenDevice
  <2>3. cli' = [cli EXCEPT !.pc = "send", !.req = RequestOf(cli.cmd, cli.mem)]
    BY DEF OpenDevice
  <2>4. cli'.pc = "send" /\ cli'.ran = cli.ran
    BY <2>3 DEF TypeOK, ProcessSet
  <2> QED BY <2>1, <2>2, <2>4
<1>2. SessionOf(line, cli).st = "none" /\ SessionOf(line', cli').st = "asked"
  BY <1>1, SessionFacts
<1>3. SessionOf(line', cli').req \in RequestSet /\ SessionOf(line', cli').ran = {}
  BY <1>1, SessionFacts DEF Ran
<1>4. line'.owed = line.owed
  BY <1>1
<1> QED BY <1>1, <1>2, <1>3, <1>4, SessionIs DEF Service!Next, Service!Ask

\* A request is executed: the one that waited.
LEMMA ExecuteFacts ==
  ASSUME TypeOK, Ran, Lines, Executed, cli.pc = "send"
  PROVE  Service!Next
<1>1. PICK q \in RequestSet :
        /\ Executes(q) /\ line.st = "in step"
        /\ q \in line.owed /\ line' = Shifted
  BY Zenon DEF Executed
<1>2. /\ dev' = DeviceAfter(dev, q)
      /\ cli'.pc = "receive" /\ cli'.ran = {q} /\ cli'.req = cli.req
  BY <1>1, ExecutesFacts
<1>3. line'.owed = {} /\ line'.st # "lost" /\ q \in line.owed
  BY <1>1 DEF Shifted
<1>4. cli.ran = {}
  BY DEF Ran
<1>5. SessionOf(line, cli).st = "asked" /\ SessionOf(line', cli').st = "asked"
  <2>1. line.st # "lost" /\ line'.st # "lost"
    BY <1>1, <1>3
  <2>2. cli.pc = "send" /\ cli'.pc \in {"receive", "handle", "copy"} /\ cli'.ran # {}
    BY <1>2
  <2>3. SessionOf(line, cli).st = "asked"
    BY ONLY <2>1, <2>2, SessionFacts
  <2>4. SessionOf(line', cli').st = "asked"
    BY ONLY <2>1, <2>2, SessionFacts
  <2> QED BY <2>3, <2>4
<1>6. SessionOf(line', cli') = [SessionOf(line, cli) EXCEPT !.ran = {q}]
  BY <1>2, <1>5, SessionFacts DEF SessionOf
<1>7. SessionOf(line, cli).ran = {} /\ SessionOf(line, cli).req = cli.req
  BY <1>4, SessionFacts
<1>8. Service!Execute
  BY <1>2, <1>3, <1>5, <1>6, <1>7, SessionIs, Zenon DEF Service!Execute
<1> QED BY <1>8 DEF Service!Next

\* A request is written and not executed: it waits, if it is a single packet.
LEMMA UnheardService ==
  ASSUME TypeOK, Ran, Lines, Unheard, cli.pc = "send", line'.st # "lost"
  PROVE  Service!Next
<1>1. /\ cli'.pc = "receive" /\ cli'.ran = {} /\ UNCHANGED dev
  BY UnheardFacts DEF Unheard, Ran
<1>2. line # Lost
  <2>1. line = Lost => line' = Lost
    BY LineFields DEF Unheard, LineAfterUnheard
  <2> QED BY <2>1, LineFields
<1>3. line.st # "lost"
  BY <1>2, LineFields DEF Lines
<1>4. CASE line = InStep /\ ~TwoPackets(cli.req)
  <2>1. line' = [InStep EXCEPT !.owed = {cli.req}]
    BY <1>4 DEF Unheard, LineAfterUnheard
  <2>2. line.owed = {} /\ line'.owed = {cli.req}
    BY <1>4, <2>1, LineFields
  <2>3. SessionOf(line, cli).st = "asked" /\ SessionOf(line', cli').st = "none"
    BY <1>1, <1>3, SessionFacts
  <2>4. SessionOf(line, cli).ran = {} /\ SessionOf(line, cli).req = cli.req
    BY SessionFacts DEF Ran
  <2> QED BY <1>1, <2>1, <2>2, <2>3, <2>4, SessionIs DEF Service!Next, Service!Hold
<1>5. CASE ~(line = InStep /\ ~TwoPackets(cli.req))
  <2>1. line' = Shifted /\ line \in {InStep, Shifted}
    BY <1>5, LineFields DEF Unheard, LineAfterUnheard
  <2>2. line'.owed = {} /\ line.owed = {}
    BY <2>1, LineFields
  <2>3. line'.owed = line.owed
    BY <2>2
  <2> QED BY <1>1, <1>3, <2>3, LeaveFacts
<1> QED BY <1>4, <1>5

LEMMA RestartService ==
  ASSUME Restarts
  PROVE  Service!Next
<1>1. cli' = NoProcess /\ dev' = Defaults /\ line' = InStep
  BY DEF Restarts
<1>2. SessionOf(line', cli').st = "none"
  <2>1. line'.st # "lost" /\ cli'.pc = "idle"
    BY <1>1, NoProcessFacts, LineFields
  <2> QED BY ONLY <2>1, SessionFacts
<1>3. line'.owed = {}
  BY <1>1, LineFields
<1> QED BY <1>1, <1>2, <1>3, SessionIs DEF Service!Next, Service!Restart

LEMMA TransmitService ==
  ASSUME TypeOK, Ran, Lines, TransmitStep, line'.st # "lost"
  PROVE  Service!Next
<1>1. CASE Executed
  BY <1>1, ExecuteFacts, TransmitCases
<1>2. CASE Unheard
  BY <1>2, UnheardService, TransmitCases
<1>3. CASE CutOff
  BY <1>3 DEF CutOff, Lost
<1>4. CASE Restarts
  BY <1>4, RestartService
<1> QED BY <1>1, <1>2, <1>3, <1>4, TransmitCases

\* A step that sends nothing: the session asks, goes on, is answered or left.
LEMMA ProcessService ==
  ASSUME TypeOK, Progress, TypeOK', Ran, [Next]_vars, ~TransmitStep, ~Reboot,
         line'.st # "lost"
  PROVE  [Service!Next]_(Service!vars)
<1>u. UNCHANGED <<dev, line>> /\ line.st # "lost" /\ line'.owed = line.owed
  BY LineKept
<1>e. ASSUME NEW rv, cli' = Ended(rv, FALSE)
      PROVE  Service!Next
  BY <1>e, <1>u, EndedSession, LeaveFacts
<1>l. ASSUME cli'.pc \in {"idle", "parse", "open"}
      PROVE  Service!Next
  BY <1>l, <1>u, LeaveFacts
<1>g. ASSUME cli'.req = cli.req, cli'.ran = cli.ran,
             cli.pc \in {"receive", "handle", "copy"}, cli'.pc \in {"receive", "handle", "copy"}
      PROVE  UNCHANGED Service!vars
  BY <1>g, <1>u, GoesOnFacts
<1>a. ASSUME cli'.req = cli.req, cli'.ran = cli.ran, cli.ran # {},
             cli.pc \in {"receive", "handle", "copy"}, cli'.pc = "end"
      PROVE  Service!Next
  BY <1>a, <1>u, AnswerStepFacts
<1>1. ASSUME NEW cmd \in CommandNames, Invoke(cmd)
      PROVE  Service!Next
  <2>1. cli'.pc = "parse"
    BY <1>1, NoProcessFacts DEF Invoke, ProcessSet
  <2> QED BY <2>1, <1>l
<1>2. CASE NoCommand
  <2>1. cli'.pc = "end" /\ ~cli'.ok
    BY <1>2, NoProcessFacts DEF NoCommand, ProcessSet
  <2> QED BY <2>1, <1>u, LeaveFacts
<1>3. ASSUME NEW o \in DOMAIN Numbers, ParseOption(o)
      PROVE  Service!Next
  <2>1. cli'.pc = "parse"
    BY <1>3 DEF ParseOption, TypeOK, ProcessSet
  <2> QED BY <2>1, <1>l
<1>4. CASE ParseFails \/ SendFails
  BY <1>4, <1>e DEF ParseFails, SendFails, NotSent
<1>5. CASE ParseEnds
  <2>1. cli'.pc = "open"
    BY <1>5 DEF ParseEnds, TypeOK, ProcessSet
  <2> QED BY <2>1, <1>l
<1>6. CASE OpenDevice
  BY <1>6, <1>u, AskFacts
<1>7. CASE OpenFails
  <2>1. CASE cli' = Ended(FAIL, FALSE)
    BY <2>1, <1>e
  <2>2. CASE cli' = [cli EXCEPT !.tries = @ + 1]
    <3>1. cli'.pc = "open"
      BY <1>7, <2>2 DEF OpenFails, OpenAgain, TypeOK, ProcessSet
    <3> QED BY <3>1, <1>l
  <2> QED BY <1>7, <2>1, <2>2 DEF OpenFails, OpenAgain
<1>8. CASE Receive
  <2>1. CASE cli' = Ended(FAIL, FALSE)
    BY <2>1, <1>e
  <2>2. CASE cli'.pc = "handle" /\ cli'.req = cli.req /\ cli'.ran = cli.ran
    BY <1>8, <2>2, <1>g, ReceiveCases
  <2> QED BY <1>8, <2>1, <2>2, ReceiveCases
<1>9. CASE HandleGarbled
  <2>1. CASE cli' = Ended(0, TRUE)
    <3>1. cli'.pc = "end" /\ ~cli'.clean
      BY <1>9, <2>1, EndedSession DEF HandleGarbled
    <3> QED BY <3>1, <1>u, LeaveFacts
  <2> QED BY <1>9, <2>1, <1>e DEF HandleGarbled
<1>10. CASE Handle
  <2>0. cli.pc = "handle" /\ cli.ran # {}
    BY <1>10 DEF Handle, Ran
  <2>1. CASE \E rv \in {FAIL, CRASH} : cli' = Ended(rv, FALSE)
    BY <2>1, <1>e
  <2>2. ASSUME NEW c, cli' = [cli EXCEPT !.pc = "copy", !.copy = c]
        PROVE  UNCHANGED Service!vars
    <3>1. cli'.pc = "copy" /\ cli'.req = cli.req /\ cli'.ran = cli.ran
      BY <2>2 DEF TypeOK, ProcessSet
    <3> QED BY <2>0, <3>1, <1>g
  <2>3. CASE cli' = Ended(0, TRUE)
    <3>1. cli'.pc = "end" /\ cli'.req = cli.req /\ cli'.ran = cli.ran
      BY <2>3 DEF Ended, TypeOK, ProcessSet
    <3> QED BY <2>0, <3>1, <1>a
  <2> QED BY <1>10, <2>1, <2>2, <2>3, HandleCases
<1>11. CASE CopyChunk
  <2>1. cli.pc = "copy" /\ cli'.pc = "copy" /\ cli'.req = cli.req /\ cli'.ran = cli.ran
    BY <1>11 DEF CopyChunk, TypeOK, ProcessSet
  <2> QED BY <2>1, <1>g
<1>12. CASE CopyEnds
  <2>1. cli.pc = "copy" /\ cli.ran # {} /\ cli' = Ended(0, TRUE)
    BY <1>12 DEF CopyEnds, Ran
  <2>2. cli'.pc = "end" /\ cli'.req = cli.req /\ cli'.ran = cli.ran
    BY <2>1, EndedSession
  <2> QED BY <2>1, <2>2, <1>a
<1>13. CASE Kill
  <2>1. cli'.pc = "idle"
    BY <1>13, NoProcessFacts DEF Kill
  <2> QED BY <2>1, <1>l
<1>14. CASE UNCHANGED vars
  <2>1. SessionOf(line', cli') = SessionOf(line, cli)
    BY <1>14 DEF vars
  <2> QED BY <1>u, <2>1, SessionIs DEF Service!vars
<1> QED
  BY <1>1, <1>2, <1>3, <1>4, <1>5, <1>6, <1>7, <1>8, <1>9, <1>10, <1>11, <1>12, <1>13, <1>14
     DEF Next, CliStep, ParseStep, ExecuteStep, AnswerStep

LEMMA ServiceStep ==
  ASSUME TypeOK, Progress, TypeOK', Ran, Lines, [Next]_vars
  PROVE  [Service!Next]_(Service!vars)
<1>1. CASE line'.st = "lost"
  BY <1>1, LoseFacts
<1>2. CASE line'.st # "lost" /\ TransmitStep
  BY <1>2, TransmitService
<1>3. CASE Reboot
  BY <1>3, RestartService DEF Reboot
<1>4. CASE line'.st # "lost" /\ ~TransmitStep /\ ~Reboot
  BY <1>4, ProcessService
<1> QED BY <1>1, <1>2, <1>3, <1>4

\* A request of the tool is executed once at most, as some process made it and
\* before any later one, never by that process and only when the next one
\* writes, which reads its answer; a process that reports success of an answer that came
\* whole has that of the request executed meanwhile; nothing but requests and a
\* restart changes the endpoint, whatever is killed, fails or is answered in
\* bytes nobody can take apart, until the line is lost (executecommand,
\* xmit_pkt, nvme_mi_admin_command): the processes and the endpoint implement
\* MiService, with requests late.
THEOREM CliImplements == Spec => ImplementsService
<1> DEFINE Inv == TypeOK /\ Progress /\ Ran /\ Lines
<1>1. Init => Inv
  BY TypeInit, NoProcessFacts DEF Init, Ran, Lines
<1>2. Inv /\ [Next]_vars => Inv'
  BY TypeStep, RanStep, LinesStep
<1>3. Init => Service!Init
  <2> SUFFICES ASSUME Init PROVE Service!Init
    OBVIOUS
  <2>1. line = InStep /\ cli = NoProcess /\ dev = Defaults
    BY DEF Init
  <2>2. SessionOf(line, cli).st = "none"
    <3>1. line.st # "lost" /\ cli.pc = "idle"
      BY <2>1, NoProcessFacts, LineFields
    <3> QED BY ONLY <3>1, SessionFacts
  <2>3. line.owed = {}
    BY <2>1, LineFields
  <2> QED BY <2>1, <2>2, <2>3, SessionIs DEF Service!Init
<1>4. Inv /\ Inv' /\ [Next]_vars => [Service!Next]_(Service!vars)
  BY ServiceStep
<1> QED BY <1>1, <1>2, <1>3, <1>4, PTL DEF Spec, ImplementsService, Service!Spec

-----------------------------------------------------------------------------
(* What is copied out of the first packet                                  *)

\* The first chunk lies behind the headers, and so does the chunk that will be.
FirstChunk ==
  /\ cli.chunks # <<>> =>
       /\ cli.pc \in {"copy", "end"}
       /\ cli.chunks[1].off = PacketHeader + HeaderOf(cli.req)
  /\ (cli.pc = "copy" /\ cli.chunks = <<>>) =>
       cli.copy.off = PacketHeader + HeaderOf(cli.req)

LEMMA FirstStep ==
  ASSUME TypeOK, Progress, TypeOK', FirstChunk, [Next]_vars
  PROVE  FirstChunk'
<1>e. ASSUME NEW rv, NEW ok, cli' = Ended(rv, ok)
      PROVE  FirstChunk'
  <2>1. cli'.pc = "end" /\ cli'.chunks = cli.chunks /\ cli'.req = cli.req
    BY <1>e DEF Ended, TypeOK, ProcessSet
  <2> QED BY <2>1 DEF FirstChunk
<1>n. ASSUME cli'.chunks = <<>>, cli'.pc # "copy"
      PROVE  FirstChunk'
  BY <1>n DEF FirstChunk
<1>s. ASSUME cli'.chunks = cli.chunks, cli.pc \notin {"copy", "end"}, cli'.pc # "copy"
      PROVE  FirstChunk'
  <2>1. cli.chunks = <<>>
    BY <1>s DEF FirstChunk
  <2> QED BY <1>s, <2>1, <1>n
<1>1. ASSUME NEW cmd \in CommandNames, Invoke(cmd)
      PROVE  FirstChunk'
  <2>1. cli'.pc = "parse" /\ cli'.chunks = <<>>
    BY <1>1, NoProcessFacts DEF Invoke, ProcessSet
  <2> QED BY <2>1, <1>n
<1>2. CASE NoCommand \/ Kill \/ Reboot
  <2>1. cli'.pc # "copy" /\ cli'.chunks = <<>>
    BY <1>2, NoProcessFacts DEF NoCommand, Kill, Reboot, Restarts, ProcessSet
  <2> QED BY <2>1, <1>n
<1>3. ASSUME NEW o \in DOMAIN Numbers, ParseOption(o)
      PROVE  FirstChunk'
  <2>1. cli.pc = "parse" /\ cli'.pc = "parse" /\ cli'.chunks = cli.chunks
    BY <1>3 DEF ParseOption, TypeOK, ProcessSet
  <2> QED BY <2>1, <1>s
<1>4. CASE ParseFails \/ SendFails \/ HandleGarbled \/ CopyEnds
  BY <1>4, <1>e DEF ParseFails, SendFails, NotSent, HandleGarbled, CopyEnds
<1>5. CASE ParseEnds \/ OpenDevice \/ TransmitStep
  <2>1. CASE ParseEnds
    BY <2>1, <1>s DEF ParseEnds, TypeOK, ProcessSet
  <2>2. CASE OpenDevice
    BY <2>2, <1>s DEF OpenDevice, TypeOK, ProcessSet
  <2>3. CASE TransmitStep
    <3>1. CASE cli.pc = "send" /\ cli'.pc = "receive" /\ cli'.chunks = cli.chunks
      BY <3>1, <1>s
    <3>2. CASE cli' = Ended(FAIL, FALSE)
      BY <3>2, <1>e
    <3>3. CASE cli' = NoProcess
      BY <3>3, <1>n, NoProcessFacts
    <3> QED BY <2>3, <3>1, <3>2, <3>3, TransmitKeeps
  <2> QED BY <1>5, <2>1, <2>2, <2>3
<1>6. CASE OpenFails
  <2>1. CASE cli' = Ended(FAIL, FALSE)
    BY <2>1, <1>e
  <2>2. CASE cli' = [cli EXCEPT !.tries = @ + 1]
    <3>1. cli.pc = "open" /\ cli'.pc = "open" /\ cli'.chunks = cli.chunks
      BY <1>6, <2>2 DEF OpenFails, OpenAgain, TypeOK, ProcessSet
    <3> QED BY <3>1, <1>s
  <2> QED BY <1>6, <2>1, <2>2 DEF OpenFails, OpenAgain
<1>7. CASE Receive
  <2>0. cli.pc = "receive"
    BY <1>7, ReceiveCases
  <2>1. CASE cli' = Ended(FAIL, FALSE)
    BY <2>1, <1>e
  <2>2. CASE cli'.pc = "handle" /\ cli'.chunks = cli.chunks
    BY <2>0, <2>2, <1>s
  <2> QED BY <1>7, <2>1, <2>2, ReceiveCases
<1>8. CASE Handle
  <2>0. cli.pc = "handle" /\ cli.chunks = <<>>
    BY <1>8 DEF Handle, FirstChunk
  <2>1. CASE \E rv \in {FAIL, CRASH} : cli' = Ended(rv, FALSE)
    BY <2>1, <1>e
  <2>2. ASSUME NEW c, cli' = [cli EXCEPT !.pc = "copy", !.copy = c],
               cli'.copy.off = PacketHeader + HeaderOf(cli.req)
        PROVE  FirstChunk'
    <3>1. cli'.chunks = <<>> /\ cli'.req = cli.req
      BY <2>0, <2>2 DEF TypeOK, ProcessSet
    <3> QED BY <3>1, <2>2 DEF FirstChunk
  <2>3. CASE cli' = Ended(0, TRUE)
    <3>1. cli'.pc = "end" /\ cli'.chunks = <<>>
      BY <2>0, <2>3 DEF Ended, TypeOK, ProcessSet
    <3> QED BY <3>1, <1>n
  <2> QED BY <1>8, <2>1, <2>2, <2>3, HandleCases
<1>9. CASE CopyChunk
  <2>1. /\ cli.pc = "copy" /\ cli'.pc = "copy" /\ cli'.req = cli.req
        /\ cli'.chunks = Append(cli.chunks, cli.copy)
        /\ cli.chunks \in Seq(CopySet) /\ cli.copy \in CopySet
    BY <1>9 DEF CopyChunk, TypeOK, ProcessSet
  <2>2. CASE cli.chunks = <<>>
    <3>1. cli'.chunks[1] = cli.copy /\ cli'.chunks # <<>>
      BY <2>1, <2>2
    <3> QED BY <2>1, <2>2, <3>1 DEF FirstChunk
  <2>3. CASE cli.chunks # <<>>
    <3>1. cli'.chunks[1] = cli.chunks[1] /\ cli'.chunks # <<>>
      BY <2>1, <2>3
    <3> QED BY <2>1, <2>3, <3>1 DEF FirstChunk
  <2> QED BY <2>2, <2>3
<1>10. CASE UNCHANGED vars
  BY <1>10 DEF vars, FirstChunk
<1> QED
  BY <1>1, <1>2, <1>3, <1>4, <1>5, <1>6, <1>7, <1>8, <1>9, <1>10
     DEF Next, CliStep, ParseStep, ExecuteStep, AnswerStep

\* A byte of the first packet is the byte of data behind the answer's header.
LEMMA FirstPacketData ==
  ASSUME NEW hdr \in {MiHeader, AdminHeader}, NEW size \in Nat, NEW unit \in Nat,
         NEW d \in Nat, d < size, d < unit - hdr
  PROVE  DataAt(PacketHeader + hdr + d, hdr, size, unit) = d
<1> DEFINE i == PacketHeader + hdr + d
           packet == i \div (unit + PacketHeader + 1)
           rest == i % (unit + PacketHeader + 1)
<1>1. hdr \in Nat /\ i \in Nat /\ i < unit + PacketHeader + 1
  BY DEF PacketHeader, MiHeader, AdminHeader
<1>2. ASSUME NEW n \in Nat, NEW m \in Nat, n < m
      PROVE  n \div m = 0 /\ n % m = n
  BY <1>2, SMT
<1>3. unit + PacketHeader + 1 \in Nat
  BY DEF PacketHeader
<1>4. packet = 0 /\ rest = i
  <2> HIDE DEF i
  <2> QED BY <1>1, <1>2, <1>3
<1>5. DataAt(i, hdr, size, unit) =
        IF rest - PacketHeader \in 0..(unit - 1)
             /\ packet * unit + (rest - PacketHeader) - hdr \in 0..(size - 1)
        THEN packet * unit + (rest - PacketHeader) - hdr ELSE -1
  BY DEF DataAt
<1>6. rest - PacketHeader = hdr + d
  BY <1>1, <1>4 DEF PacketHeader
<1>7. packet * unit + (rest - PacketHeader) - hdr = d
  <2> HIDE DEF rest, packet, i
  <2> QED BY <1>1, <1>4, <1>6
<1>8. hdr + d \in 0..(unit - 1) /\ d \in 0..(size - 1)
  BY <1>1
<1> HIDE DEF rest, packet, i
<1>9. DataAt(i, hdr, size, unit) = d
  BY <1>5, <1>6, <1>7, <1>8
<1> QED BY <1>9 DEF i

\* What getresponsedata copies out of the first packet is the endpoint's data,
\* byte by byte, for every unit size and every length of an answer.
THEOREM FirstPacketCorrect == Spec => []FirstPacketInOrder
<1>1. Init => TypeOK /\ Progress /\ FirstChunk
  <2>1. Init => cli = NoProcess
    BY DEF Init
  <2>2. Init => FirstChunk
    BY <2>1, NoProcessFacts DEF FirstChunk
  <2> QED BY <2>2, TypeInit
<1>2. TypeOK /\ Progress /\ FirstChunk /\ [Next]_vars => (TypeOK /\ Progress /\ FirstChunk)'
  BY TypeStep, FirstStep
<1>3. TypeOK /\ FirstChunk => FirstPacketInOrder
  <2> SUFFICES ASSUME TypeOK, FirstChunk, cli.chunks # <<>>,
                      cli.answer.hdr = HeaderOf(cli.req),
                      NEW d \in 0..(Least(cli.chunks[1].len,
                               Least(cli.answer.size, cli.unit - cli.answer.hdr)) - 1)
               PROVE  DataAt(cli.chunks[1].off + d, cli.answer.hdr, cli.answer.size,
                             cli.unit) = d
    BY DEF FirstPacketInOrder
  <2>1. /\ cli.chunks[1] \in CopySet /\ cli.answer.size \in Nat /\ cli.unit \in Nat
        /\ cli.answer.hdr \in {MiHeader, AdminHeader}
    <3>1. cli.unit \in Words
      BY DEF TypeOK, ProcessSet
    <3>2. cli.chunks \in Seq(CopySet) /\ cli.answer \in AnswerSet
      BY DEF TypeOK, ProcessSet
    <3> QED BY <3>1, <3>2, WordsAre, HeaderOfFacts DEF AnswerSet
  <2>2. cli.chunks[1].len \in Int /\ cli.answer.hdr \in Nat
    BY <2>1 DEF CopySet, MiHeader, AdminHeader
  <2>3. d \in Nat /\ d < cli.answer.size /\ d < cli.unit - cli.answer.hdr
    BY ONLY <2>1, <2>2,
       d \in 0..(Least(cli.chunks[1].len,
                       Least(cli.answer.size, cli.unit - cli.answer.hdr)) - 1)
       DEF Least
  <2>4. cli.chunks[1].off = PacketHeader + cli.answer.hdr
    BY DEF FirstChunk
  <2> QED BY <2>1, <2>3, <2>4, FirstPacketData
<1> QED BY <1>1, <1>2, <1>3, PTL DEF Spec

-----------------------------------------------------------------------------
(* Options arrive                                                          *)

\* n, typed for an option, is in memory as it was typed.
Arrives(opt, mem, n) ==
  /\ n \in Nat /\ n < NumberLimit /\ Accepts(opt.type, n)
  /\ \A i \in Written(opt) : i \in Offsets => mem[i] = ByteOf(n, i - opt.at)

ArrivedIn(cmd, mem, typed) ==
  \A o \in DOMAIN OptsOf(cmd) :
    (Sound(cmd, o) /\ typed[o] # None) => Arrives(OptsOf(cmd)[o], mem, typed[o])

-----------------------------------------------------------------------------
(* Numbers and their bytes                                                 *)

LEMMA ByteArrives ==
  ASSUME NEW mem, NEW n, NEW at \in Offsets, NEW size, Arrives(Opt("BYTE", at, size), mem, n)
  PROVE  mem[at] = n /\ n \in Nat /\ n < 256
<1>1. at \in Int
  BY DEF Offsets
<1>2. n \in Nat /\ n < 256
  BY SMT DEF Arrives, Opt, Accepts
<1>3. at \in Written(Opt("BYTE", at, size))
  BY <1>1, SMT DEF Opt, Written, WidthOf
<1>4. mem[at] = ByteOf(n, at - at)
  BY <1>3, Zenon DEF Arrives, Opt
<1>5. ByteOf(n, at - at) = n
  BY ONLY <1>1, <1>2, SMT DEF ByteOf
<1> QED BY <1>2, <1>4, <1>5

LEMMA ByteOption ==
  ASSUME NEW mem, NEW n, NEW opt, NEW at \in Offsets, opt = Opt("BYTE", at, 1),
         Arrives(opt, mem, n)
  PROVE  mem[at] = n
BY ByteArrives

LEMMA ShortArrives ==
  ASSUME NEW mem, NEW n, NEW at \in Nat, at < 20, NEW size,
         Arrives(Opt("SHORT", at, size), mem, n)
  PROVE  U16(mem[at], mem[at + 1]) = n
<1>1. at \in Offsets /\ at + 1 \in Offsets
  BY DEF Offsets
<1>2. n \in Nat /\ n < 65536
  BY SMT DEF Arrives, Opt, Accepts
<1>3. at \in Written(Opt("SHORT", at, size)) /\ at + 1 \in Written(Opt("SHORT", at, size))
  BY SMT DEF Opt, Written, WidthOf
<1>4. mem[at] = ByteOf(n, at - at) /\ mem[at + 1] = ByteOf(n, (at + 1) - at)
  BY <1>1, <1>3, SMT DEF Arrives, Opt
<1>5. ByteOf(n, at - at) = n % 256 /\ ByteOf(n, (at + 1) - at) = (n \div 256) % 256
  BY ONLY at \in Nat, <1>2, SMT DEF ByteOf
<1>6. (n % 256) + 256 * ((n \div 256) % 256) = n
  BY ONLY <1>2, SMT
<1> QED BY ONLY <1>4, <1>5, <1>6, SMT DEF U16

LEMMA PositiveArrives ==
  ASSUME NEW mem, NEW n, NEW at \in Nat, at < 20, NEW size,
         Arrives(Opt("POSITIVE", at, size), mem, n)
  PROVE  Three(mem, at) = n
<1>1. at \in Offsets /\ at + 1 \in Offsets /\ at + 2 \in Offsets
  BY DEF Offsets
<1>2. n \in Nat /\ n < NumberLimit
  BY DEF Arrives
<1>3. /\ at \in Written(Opt("POSITIVE", at, size))
      /\ at + 1 \in Written(Opt("POSITIVE", at, size))
      /\ at + 2 \in Written(Opt("POSITIVE", at, size))
  BY SMT DEF Opt, Written, WidthOf
<1>4. /\ mem[at] = ByteOf(n, at - at) /\ mem[at + 1] = ByteOf(n, (at + 1) - at)
      /\ mem[at + 2] = ByteOf(n, (at + 2) - at)
  BY <1>1, <1>3, SMT DEF Arrives, Opt
<1>5. /\ ByteOf(n, at - at) = n % 256 /\ ByteOf(n, (at + 1) - at) = (n \div 256) % 256
      /\ ByteOf(n, (at + 2) - at) = n \div 65536
  BY ONLY at \in Nat, <1>2, SMT DEF ByteOf
<1>6. (n % 256) + 256 * ((n \div 256) % 256) + 65536 * (n \div 65536) = n
  BY ONLY <1>2, SMT
<1> QED BY ONLY <1>4, <1>5, <1>6, SMT DEF Three, Word, U16

-----------------------------------------------------------------------------
(* The process                                                             *)

\* Memory holds what was typed, until the process ends.
Arrived == cli.pc \notin {"idle", "end"} => ArrivedIn(cli.cmd, cli.mem, cli.typed)

\* The request is the one the command makes of its memory.
Requested ==
  cli.pc \in {"send", "receive", "handle", "copy"} => cli.req = RequestOf(cli.cmd, cli.mem)

\* Storing one option leaves the sound ones before it where they are.
LEMMA StoreKeeps ==
  ASSUME NEW cmd \in CommandNames, NEW o \in DOMAIN OptsOf(cmd),
         NEW mem, NEW typed \in [OptionNames -> Nat \cup {None}],
         NEW n \in Nat, n < NumberLimit, Accepts(OptsOf(cmd)[o].type, n),
         ArrivedIn(cmd, mem, typed)
  PROVE  ArrivedIn(cmd, Store(mem, OptsOf(cmd)[o], n), [typed EXCEPT ![o] = n])
<1> DEFINE opts == OptsOf(cmd)
           stored == Store(mem, opts[o], n)
           after == [typed EXCEPT ![o] = n]
<1>1. SUFFICES ASSUME NEW p \in DOMAIN opts, Sound(cmd, p), after[p] # None
               PROVE  Arrives(opts[p], stored, after[p])
  BY DEF ArrivedIn
<1>2. CASE p = o
  <2>1. after[p] = n
    BY <1>2, Named
  <2>2. \A i \in Written(opts[o]) : i \in Offsets => stored[i] = ByteOf(n, i - opts[o].at)
    BY DEF Store
  <2> QED BY <1>2, <2>1, <2>2, Zenon DEF Arrives
<1>3. CASE p # o
  <2>1. after[p] = typed[p]
    BY <1>3, Named
  <2>2. Arrives(opts[p], mem, typed[p])
    BY <1>1, <2>1, Zenon DEF ArrivedIn
  <2>3. Written(opts[o]) \cap Written(opts[p]) = {}
    BY <1>1, <1>3, Zenon DEF Sound
  <2>4. \A i \in Written(opts[p]) : i \in Offsets => stored[i] = mem[i]
    BY <2>3 DEF Store
  <2> QED BY <2>1, <2>2, <2>4, Zenon DEF Arrives
<1> QED BY <1>2, <1>3

LEMMA ArrivedStep ==
  ASSUME TypeOK, Progress, TypeOK', Arrived, Requested, [Next]_vars
  PROVE  Arrived' /\ Requested'
<1>n. ASSUME cli'.pc \in {"idle", "end"} PROVE Arrived' /\ Requested'
  BY <1>n DEF Arrived, Requested
<1>e. ASSUME NEW rv, NEW ok, cli' = Ended(rv, ok)
      PROVE  Arrived' /\ Requested'
  <2>1. cli'.pc = "end"
    BY <1>e DEF Ended, TypeOK, ProcessSet
  <2> QED BY <2>1, <1>n
<1>s. ASSUME cli'.cmd = cli.cmd, cli'.mem = cli.mem, cli'.typed = cli.typed,
             cli.pc \notin {"idle", "end"}
      PROVE  Arrived'
  BY <1>s DEF Arrived
<1>r. ASSUME cli'.cmd = cli.cmd, cli'.mem = cli.mem, cli'.typed = cli.typed,
             cli'.req = cli.req, cli.pc \in {"send", "receive", "handle", "copy"}
      PROVE  Arrived' /\ Requested'
  BY <1>r, <1>s DEF Requested
<1>1. ASSUME NEW cmd \in CommandNames, Invoke(cmd)
      PROVE  Arrived' /\ Requested'
  <2>1. cli'.pc = "parse" /\ cli'.cmd = cmd /\ cli'.typed = [o \in OptionNames |-> None]
    BY <1>1, NoProcessFacts DEF Invoke, ProcessSet
  <2>2. \A o \in DOMAIN OptsOf(cmd) : cli'.typed[o] = None
    BY <2>1, Named
  <2> QED BY <2>1, <2>2 DEF Arrived, ArrivedIn, Requested
<1>2. CASE NoCommand \/ Kill \/ Reboot
  <2>1. cli'.pc \in {"idle", "end"}
    BY <1>2, NoProcessFacts DEF NoCommand, Kill, Reboot, Restarts, ProcessSet
  <2> QED BY <2>1, <1>n
<1>3. ASSUME NEW o \in DOMAIN Numbers, ParseOption(o)
      PROVE  Arrived' /\ Requested'
  <2>1. cli.pc = "parse" /\ cli.cmd \in CommandNames /\ o \in DOMAIN OptsOf(cli.cmd)
    BY <1>3 DEF ParseOption, Progress
  <2> DEFINE opt == OptsOf(cli.cmd)[o]
  <2>2. PICK n \in Numbers[o] :
          /\ Accepts(opt.type, n)
          /\ cli' = [cli EXCEPT !.left = @ - 1, !.typed[o] = n, !.mem = Store(cli.mem, opt, n)]
    BY <1>3 DEF ParseOption
  <2>3. n \in Nat /\ n < NumberLimit
    BY <2>1, Assumed
  <2> HIDE DEF opt
  <2>4. /\ cli'.pc = "parse" /\ cli'.cmd = cli.cmd /\ cli'.mem = Store(cli.mem, opt, n)
        /\ cli'.typed = [cli.typed EXCEPT ![o] = n]
    BY <2>1, <2>2 DEF TypeOK, ProcessSet
  <2>5. cli.typed \in [OptionNames -> Nat \cup {None}]
    BY DEF TypeOK, ProcessSet
  <2>6. ArrivedIn(cli.cmd, Store(cli.mem, opt, n), [cli.typed EXCEPT ![o] = n])
    BY <2>1, <2>2, <2>3, <2>5, StoreKeeps DEF Arrived, opt
  <2> QED BY <2>4, <2>6 DEF Arrived, Requested
<1>4. CASE ParseFails \/ SendFails \/ HandleGarbled \/ CopyEnds
  BY <1>4, <1>e DEF ParseFails, SendFails, NotSent, HandleGarbled, CopyEnds
<1>5. CASE ParseEnds
  <2>1. /\ cli.pc = "parse" /\ cli'.pc = "open" /\ cli'.cmd = cli.cmd
        /\ cli'.mem = cli.mem /\ cli'.typed = cli.typed
    BY <1>5 DEF ParseEnds, TypeOK, ProcessSet
  <2> QED BY <2>1, <1>s DEF Requested
<1>6. CASE OpenDevice
  <2>1. /\ cli.pc = "open" /\ cli'.pc = "send" /\ cli'.cmd = cli.cmd
        /\ cli'.mem = cli.mem /\ cli'.typed = cli.typed
        /\ cli'.req = RequestOf(cli.cmd, cli.mem)
    BY <1>6 DEF OpenDevice, TypeOK, ProcessSet
  <2> QED BY <2>1, <1>s DEF Requested
<1>7. CASE OpenFails
  <2>1. CASE cli' = Ended(FAIL, FALSE)
    BY <2>1, <1>e
  <2>2. CASE cli' = [cli EXCEPT !.tries = @ + 1]
    <3>1. /\ cli.pc = "open" /\ cli'.pc = "open" /\ cli'.cmd = cli.cmd
          /\ cli'.mem = cli.mem /\ cli'.typed = cli.typed
      BY <1>7, <2>2 DEF OpenFails, OpenAgain, TypeOK, ProcessSet
    <3> QED BY <3>1, <1>s DEF Requested
  <2> QED BY <1>7, <2>1, <2>2 DEF OpenFails, OpenAgain
<1>8. CASE TransmitStep \/ CopyChunk
  <2>1. CASE TransmitStep
    <3>1. CASE /\ cli'.cmd = cli.cmd /\ cli'.mem = cli.mem /\ cli'.typed = cli.typed
               /\ cli'.req = cli.req
      BY <2>1, <3>1, <1>r, TransmitKeeps
    <3>2. CASE cli' = Ended(FAIL, FALSE)
      BY <3>2, <1>e
    <3>3. CASE cli' = NoProcess
      BY <3>3, <1>n, NoProcessFacts
    <3> QED BY <2>1, <3>1, <3>2, <3>3, TransmitKeeps
  <2>2. CASE CopyChunk
    <3>1. /\ cli.pc = "copy" /\ cli'.cmd = cli.cmd
          /\ cli'.mem = cli.mem /\ cli'.typed = cli.typed /\ cli'.req = cli.req
      BY <2>2 DEF CopyChunk, TypeOK, ProcessSet
    <3> QED BY <3>1, <1>r
  <2> QED BY <1>8, <2>1, <2>2
<1>9. CASE Receive
  <2>0. cli.pc = "receive"
    BY <1>9, ReceiveCases
  <2>1. CASE cli' = Ended(FAIL, FALSE)
    BY <2>1, <1>e
  <2>2. CASE /\ cli'.cmd = cli.cmd /\ cli'.mem = cli.mem /\ cli'.typed = cli.typed
             /\ cli'.req = cli.req
    BY <2>0, <2>2, <1>r
  <2> QED BY <1>9, <2>1, <2>2, ReceiveCases
<1>10. CASE Handle
  <2>0. cli.pc = "handle"
    BY <1>10 DEF Handle
  <2>1. CASE \E rv \in {FAIL, CRASH} : cli' = Ended(rv, FALSE)
    BY <2>1, <1>e
  <2>2. ASSUME NEW c, cli' = [cli EXCEPT !.pc = "copy", !.copy = c]
        PROVE  Arrived' /\ Requested'
    <3>1. /\ cli'.cmd = cli.cmd /\ cli'.mem = cli.mem /\ cli'.typed = cli.typed
          /\ cli'.req = cli.req
      BY <2>2 DEF TypeOK, ProcessSet
    <3> QED BY <2>0, <3>1, <1>r
  <2>3. CASE cli' = Ended(0, TRUE)
    <3>1. cli'.pc = "end"
      BY <2>3 DEF Ended, TypeOK, ProcessSet
    <3> QED BY <3>1, <1>n
  <2> QED BY <1>10, <2>1, <2>2, <2>3, HandleCases
<1>11. CASE UNCHANGED vars
  BY <1>11 DEF vars, Arrived, Requested
<1> QED
  BY <1>1, <1>2, <1>3, <1>4, <1>5, <1>6, <1>7, <1>8, <1>9, <1>10, <1>11
     DEF Next, CliStep, ParseStep, ExecuteStep, AnswerStep

-----------------------------------------------------------------------------
(* The options each request carries                                        *)

LEMMA Table ==
  /\ {"ctrlid", "portid", "dtyp"} \subseteq DOMAIN OptsOf("readnvmemids")
  /\ OptsOf("readnvmemids")["ctrlid"] = Opt("SHORT", 0, 2)
  /\ OptsOf("readnvmemids")["portid"] = Opt("BYTE", 2, 1)
  /\ OptsOf("readnvmemids")["dtyp"] = Opt("BYTE", 3, 1)
  /\ {"configid", "portid"} \subseteq DOMAIN OptsOf("configget")
  /\ OptsOf("configget")["configid"] = Opt("BYTE", 0, 1)
  /\ OptsOf("configget")["portid"] = Opt("BYTE", 1, 1)
  /\ {"smbusfreq", "portid"} \subseteq DOMAIN OptsOf("configset")
  /\ OptsOf("configset")["smbusfreq"] = Opt("BYTE", 2, 1)
  /\ OptsOf("configset")["portid"] = Opt("BYTE", 1, 1)
  /\ {"dofst", "dlen"} \subseteq DOMAIN OptsOf("vpdread")
  /\ OptsOf("vpdread")["dofst"] = Opt("SHORT", 0, 2)
  /\ OptsOf("vpdread")["dlen"] = Opt("SHORT", 2, 2)
  /\ {"dofst", "dlen"} \subseteq DOMAIN OptsOf("vpdwrite")
  /\ OptsOf("vpdwrite")["dofst"] = Opt("SHORT", 0, 2)
  /\ OptsOf("vpdwrite")["dlen"] = Opt("SHORT", 2, 2)
  /\ {"log_len", "uuid_index"} \subseteq DOMAIN OptsOf("getlogpage")
  /\ OptsOf("getlogpage")["log_len"] = Opt("POSITIVE", 4, 4)
  /\ OptsOf("getlogpage")["uuid_index"] = Opt("BYTE", 17, 1)
  /\ {"data_len"} \subseteq DOMAIN OptsOf("getfeatures")
  /\ OptsOf("getfeatures")["data_len"] = Opt("POSITIVE", 12, 4)
<1>1. OptsOf("readnvmemids") = readnvmemids.opts
  BY DEF OptsOf, COMMAND_LIST
<1>2. OptsOf("configget") = configget.opts
  BY DEF OptsOf, COMMAND_LIST
<1>3. OptsOf("configset") = configset.opts
  BY DEF OptsOf, COMMAND_LIST
<1>4. OptsOf("vpdread") = vpdread.opts
  BY DEF OptsOf, COMMAND_LIST
<1>5. OptsOf("vpdwrite") = vpdwrite.opts
  BY DEF OptsOf, COMMAND_LIST
<1>6. OptsOf("getlogpage") = getlog.opts
  BY DEF OptsOf, COMMAND_LIST
<1>7. OptsOf("getfeatures") = getfeature.opts
  BY DEF OptsOf, COMMAND_LIST
<1>8. vpdwrite.opts = vpdread.opts
  BY DEF vpdwrite
<1> QED
  BY <1>1, <1>2, <1>3, <1>4, <1>5, <1>6, <1>7, <1>8
     DEF readnvmemids, configget, configset, vpdread, getlog, getfeature

\* A request that sets the frequency is that of configset, for its identifier.
LEMMA FrequencyRequest ==
  ASSUME NEW cmd \in CommandNames, NEW m \in [Offsets -> Bytes],
         SetsFrequency(RequestOf(cmd, m))
  PROVE  cmd = "configset" /\ RequestOf(cmd, m).dw[1] = <<m[0], m[2], 0, m[1]>>
<1> DEFINE req == RequestOf(cmd, m)
<1>k. req.nmimt = NVME_MI_CMD /\ req.opc = 3 /\ req.dw[1][1] = SMBUS_I2C_FREQ
  BY DEF SetsFrequency
<1>1. ASSUME NEW opc, NEW a, NEW b
      PROVE  /\ gencmd_nvmemi(opc, a, b).opc = opc
             /\ gencmd_nvmemi(opc, a, b).dw[1] = a
  BY DEF gencmd_nvmemi
<1>2. ASSUME NEW opc, NEW nsid, NEW dlen, NEW dw
      PROVE  gencmd_nvmemi_admin(opc, nsid, dlen, dw).nmimt # NVME_MI_CMD
  BY DEF gencmd_nvmemi_admin, NVME_MI_CMD, NVME_ADM_CMD
<1>3. cmd = "configset"
  <2>1. nvmemi_readnvmemids(m).opc # 3
    BY <1>1 DEF nvmemi_readnvmemids
  <2>2. nvmemi_shspoll(m).opc # 3
    BY <1>1 DEF nvmemi_shspoll
  <2>3. nvmemi_chspoll(m).opc # 3
    BY <1>1 DEF nvmemi_chspoll
  <2>4. nvmemi_configget(m).opc # 3
    BY <1>1 DEF nvmemi_configget
  <2>5. nvmemi_vpdread(m).opc # 3
    BY <1>1 DEF nvmemi_vpdread
  <2>6. nvmemi_vpdwrite(m).opc # 3
    BY <1>1 DEF nvmemi_vpdwrite
  <2>7. nvmemi_id(m).nmimt # NVME_MI_CMD
    BY <1>2 DEF nvmemi_id
  <2>8. nvmemi_getlog(m).nmimt # NVME_MI_CMD
    BY <1>2 DEF nvmemi_getlog
  <2>9. nvmemi_getfeature(m).nmimt # NVME_MI_CMD
    BY <1>2 DEF nvmemi_getfeature
  <2>10. cmd \in {"readnvmemids", "shspoll", "chspoll", "configget", "configset", "vpdread",
                  "vpdwrite", "identify", "getlogpage", "getfeatures"}
    BY DEF CommandNames, COMMAND_LIST
  <2>11. RequestOf(cmd, m).opc = 3 /\ RequestOf(cmd, m).nmimt = NVME_MI_CMD
    BY <1>k
  <2> QED
    BY ONLY <2>1, <2>2, <2>3, <2>4, <2>5, <2>6, <2>7, <2>8, <2>9, <2>10, <2>11, RequestIs
<1>4. req = nvmemi_configset(m)
  BY <1>3, RequestIs
<1> HIDE DEF req
<1>5. CASE m[0] = SMBUS_I2C_FREQ
  <2>1. req = gencmd_nvmemi(3, <<m[0], m[2], 0, m[1]>>, Zero4)
    BY <1>4, <1>5 DEF nvmemi_configset
  <2> QED BY <1>1, <1>3, <2>1 DEF req
<1>6. CASE m[0] # SMBUS_I2C_FREQ
  <2>1. \/ req = gencmd_nvmemi(3, <<m[0], 0, 0, m[1]>>, <<m[4], m[5], 0, 0>>)
        \/ req = gencmd_nvmemi(3, Zero4, Zero4)
    BY <1>4, <1>6, Zenon DEF nvmemi_configset
  <2>2. req.dw[1] = <<m[0], 0, 0, m[1]>> \/ req.dw[1] = Zero4
    BY <1>1, <2>1
  <2>3. req.dw[1][1] # SMBUS_I2C_FREQ
    BY <1>6, <2>2 DEF Zero4, SMBUS_I2C_FREQ
  <2> QED BY <1>k, <2>3
<1> QED BY <1>5, <1>6

LEMMA CarriedArrives ==
  ASSUME NEW cmd \in CommandNames, NEW m \in [Offsets -> Bytes], NEW typed,
         ArrivedIn(cmd, m, typed),
         NEW o \in DOMAIN Carried(cmd, RequestOf(cmd, m)),
         Sound(cmd, o), typed[o] # None
  PROVE  Carried(cmd, RequestOf(cmd, m))[o] = typed[o]
<1> DEFINE req == RequestOf(cmd, m)
<1>o. ASSUME o \in DOMAIN OptsOf(cmd) PROVE Arrives(OptsOf(cmd)[o], m, typed[o])
  BY <1>o, Zenon DEF ArrivedIn
<1>b. ASSUME NEW at \in Offsets, NEW size, o \in DOMAIN OptsOf(cmd),
             OptsOf(cmd)[o] = Opt("BYTE", at, size)
      PROVE  m[at] = typed[o]
  <2>1. Arrives(Opt("BYTE", at, size), m, typed[o])
    BY <1>b, <1>o
  <2> QED BY ONLY at \in Offsets, <2>1, ByteArrives
<1>w. ASSUME NEW at \in Nat, at < 20, NEW size, o \in DOMAIN OptsOf(cmd),
             OptsOf(cmd)[o] = Opt("SHORT", at, size)
      PROVE  U16(m[at], m[at + 1]) = typed[o]
  <2>1. Arrives(Opt("SHORT", at, size), m, typed[o])
    BY <1>w, <1>o
  <2> QED BY ONLY at \in Nat, at < 20, <2>1, ShortArrives
<1>p. ASSUME NEW at \in Nat, at < 20, NEW size, o \in DOMAIN OptsOf(cmd),
             OptsOf(cmd)[o] = Opt("POSITIVE", at, size)
      PROVE  Three(m, at) = typed[o]
  <2>1. Arrives(Opt("POSITIVE", at, size), m, typed[o])
    BY <1>p, <1>o
  <2> QED BY ONLY at \in Nat, at < 20, <2>1, PositiveArrives
<1>a. 0 \in Offsets /\ 1 \in Offsets /\ 2 \in Offsets /\ 3 \in Offsets /\ 17 \in Offsets
  BY DEF Offsets
<1>1. CASE cmd = "readnvmemids"
  <2>1. req = gencmd_nvmemi(0, Dword(m, 0), Zero4)
    BY <1>1, RequestIs DEF nvmemi_readnvmemids
  <2>2. req.dw[1] = <<m[0], m[1], m[2], m[3]>>
    BY <2>1 DEF gencmd_nvmemi, Dword
  <2>3. Carried(cmd, req) = [ctrlid |-> U16(req.dw[1][1], req.dw[1][2]),
                             portid |-> req.dw[1][3], dtyp |-> req.dw[1][4]]
    BY <1>1, Zenon DEF Carried
  <2> HIDE DEF req
  <2>4. Carried(cmd, req) = [ctrlid |-> U16(m[0], m[1]), portid |-> m[2], dtyp |-> m[3]]
    BY <2>2, <2>3
  <2>5. o \in {"ctrlid", "portid", "dtyp"}
    BY <2>4 DEF req
  <2>6. o = "ctrlid" => U16(m[0], m[0 + 1]) = typed[o]
    BY <1>1, <1>w, Table
  <2>7. (o = "portid" => m[2] = typed[o]) /\ (o = "dtyp" => m[3] = typed[o])
    BY <1>1, <1>a, <1>b, Table
  <2> QED BY <2>4, <2>5, <2>6, <2>7 DEF req
<1>2. CASE cmd = "configget"
  <2>1. req = gencmd_nvmemi(4, <<m[0], 0, 0, m[1]>>, Zero4)
    BY <1>2, RequestIs DEF nvmemi_configget
  <2>2. req.dw[1] = <<m[0], 0, 0, m[1]>>
    BY <2>1 DEF gencmd_nvmemi
  <2>3. Carried(cmd, req) = [configid |-> req.dw[1][1], portid |-> req.dw[1][4]]
    BY <1>2, Zenon DEF Carried
  <2> HIDE DEF req
  <2>4. Carried(cmd, req) = [configid |-> m[0], portid |-> m[1]]
    BY <2>2, <2>3
  <2>5. o \in {"configid", "portid"}
    BY <2>4 DEF req
  <2>6. (o = "configid" => m[0] = typed[o]) /\ (o = "portid" => m[1] = typed[o])
    BY <1>2, <1>a, <1>b, Table
  <2> QED BY <2>4, <2>5, <2>6 DEF req
<1>3. CASE cmd = "configset" /\ SetsFrequency(req)
  <2>1. req.dw[1] = <<m[0], m[2], 0, m[1]>>
    BY <1>3, FrequencyRequest
  <2>2. Carried(cmd, req) = [smbusfreq |-> req.dw[1][2], portid |-> req.dw[1][4]]
    BY <1>3, Zenon DEF Carried
  <2> HIDE DEF req
  <2>3. Carried(cmd, req) = [smbusfreq |-> m[2], portid |-> m[1]]
    BY <2>1, <2>2
  <2>4. o \in {"smbusfreq", "portid"}
    BY <2>3 DEF req
  <2>5. (o = "smbusfreq" => m[2] = typed[o]) /\ (o = "portid" => m[1] = typed[o])
    BY <1>3, <1>a, <1>b, Table
  <2> QED BY <2>3, <2>4, <2>5 DEF req
<1>4. CASE cmd \in {"vpdread", "vpdwrite"}
  <2>1. req = gencmd_nvmemi(5, <<m[0], m[1], 0, 0>>, <<m[2], m[3], 0, 0>>)
    <3>1. CASE cmd = "vpdread"
      BY <3>1, RequestIs DEF nvmemi_vpdread
    <3>2. CASE cmd = "vpdwrite"
      BY <3>2, RequestIs DEF nvmemi_vpdwrite
    <3> QED BY <1>4, <3>1, <3>2
  <2>2. req.dw[1] = <<m[0], m[1], 0, 0>> /\ req.dw[2] = <<m[2], m[3], 0, 0>>
    BY <2>1 DEF gencmd_nvmemi
  <2>3. Carried(cmd, req) = [dofst |-> U16(req.dw[1][1], req.dw[1][2]),
                             dlen |-> U16(req.dw[2][1], req.dw[2][2])]
    <3>1. CASE cmd = "vpdread"
      BY <3>1, Zenon DEF Carried
    <3>2. CASE cmd = "vpdwrite"
      BY <3>2, Zenon DEF Carried
    <3> QED BY <1>4, <3>1, <3>2
  <2> HIDE DEF req
  <2>4. Carried(cmd, req) = [dofst |-> U16(m[0], m[1]), dlen |-> U16(m[2], m[3])]
    BY <2>2, <2>3
  <2>5. o \in {"dofst", "dlen"}
    BY <2>4 DEF req
  <2>6. /\ o = "dofst" => U16(m[0], m[0 + 1]) = typed[o]
        /\ o = "dlen" => U16(m[2], m[2 + 1]) = typed[o]
    BY <1>4, <1>w, Table
  <2> QED BY <2>4, <2>5, <2>6 DEF req
<1>5. CASE cmd = "getlogpage"
  <2>1. req = nvmemi_getlog(m)
    BY <1>5, RequestIs
  <2>2. req.dlen = Three(m, 4) /\ req.dw[5][1] = m[17]
    BY <2>1 DEF nvmemi_getlog, gencmd_nvmemi_admin
  <2>3. Carried(cmd, req) = [log_len |-> req.dlen, uuid_index |-> req.dw[5][1]]
    BY <1>5, Zenon DEF Carried
  <2> HIDE DEF req
  <2>4. Carried(cmd, req) = [log_len |-> Three(m, 4), uuid_index |-> m[17]]
    BY <2>2, <2>3
  <2>5. o \in {"log_len", "uuid_index"}
    BY <2>4 DEF req
  <2>6. o = "log_len" => Three(m, 4) = typed[o]
    BY <1>5, <1>p, Table
  <2>7. o = "uuid_index" => m[17] = typed[o]
    BY <1>5, <1>a, <1>b, Table
  <2> QED BY <2>4, <2>5, <2>6, <2>7 DEF req
<1>6. CASE cmd = "getfeatures"
  <2>1. req = nvmemi_getfeature(m)
    BY <1>6, RequestIs
  <2>2. req.dlen = Three(m, 12)
    BY <2>1 DEF nvmemi_getfeature, gencmd_nvmemi_admin
  <2>3. Carried(cmd, req) = [data_len |-> req.dlen]
    BY <1>6, Zenon DEF Carried
  <2> HIDE DEF req
  <2>4. o = "data_len"
    BY <2>3 DEF req
  <2>5. Three(m, 12) = typed[o]
    BY <1>6, <1>p, <2>4, Table
  <2> QED BY <2>2, <2>3, <2>4, <2>5 DEF req
<1>7. CASE /\ cmd \notin {"readnvmemids", "configget", "vpdread", "vpdwrite", "getlogpage",
                          "getfeatures"}
           /\ ~(cmd = "configset" /\ SetsFrequency(req))
  <2>1. Carried(cmd, req) = <<>>
    <3> HIDE DEF req
    <3> QED BY <1>7, SMT DEF Carried
  <2> QED BY <2>1
<1> QED BY <1>1, <1>2, <1>3, <1>4, <1>5, <1>6, <1>7

\* The value typed last for an option that is declared well is the one the
\* endpoint is asked for, in whatever order and however often the options were
\* typed, and whatever the structure held before (argconfig_parse and the
\* nvmemi_ functions).
THEOREM SoundOptionsCorrect == Spec => []SoundOptionsArrive
<1>1. Init => TypeOK /\ Progress /\ Arrived /\ Requested
  <2>1. Init => cli.pc = "idle"
    BY NoProcessFacts DEF Init
  <2> QED BY <2>1, TypeInit DEF Arrived, Requested
<1>2. TypeOK /\ Progress /\ Arrived /\ Requested /\ [Next]_vars
        => (TypeOK /\ Progress /\ Arrived /\ Requested)'
  BY TypeStep, ArrivedStep
<1>3. TypeOK /\ Progress /\ Arrived /\ Requested => SoundOptionsArrive
  BY CarriedArrives
     DEF SoundOptionsArrive, Arrived, Requested, Progress, TypeOK, ProcessSet
<1> QED BY <1>1, <1>2, <1>3, PTL DEF Spec
=============================================================================
