---------------------------- MODULE MiTransport ----------------------------
(***************************************************************************)
(* NVMe-MI over the emulated SMBus: a management host (tools/nvme-mi-cli)  *)
(* writes a request, one byte per bus transfer, to the endpoint device     *)
(* nvme-mi-i2c; the endpoint reassembles the packets, runs the command and *)
(* posts the answer, packet by packet, to the device nvme-mi-i2c-slave,    *)
(* from which the host reads it, again a byte at a time.  The two devices  *)
(* are those of patches/nvme-mi-support.patch.                             *)
(*                                                                         *)
(* A byte on the bus is one step, and the answer is posted within the step *)
(* of the byte that ends the request: i2c_send runs to its end.  Lengths,  *)
(* positions and the end-of-message flag are the code's; the rest of the   *)
(* data is a pattern that tells one request, and one position, from        *)
(* another.  There is one host at a time, which may be killed; the machine *)
(* may be started again.                                                   *)
(*                                                                         *)
(* The tool counts one byte more into a packet than the endpoint does      *)
(* (CountExtra), so that a request of one packet is still a byte short     *)
(* when it has been written, and the first byte of the next process ends   *)
(* it.  From then on the endpoint takes the middle of packets for their    *)
(* beginning.  The model follows it up to the end of the first packet it   *)
(* makes of them, through the answer the host reads meanwhile; what it     *)
(* does after that, and after a host is killed between two bytes of a      *)
(* packet, is left out: line then says that it is lost.                    *)
(***************************************************************************)
EXTENDS Integers, SequencesExt

CONSTANTS
  Requests,       \* what a host may ask: records [kind, len, arg]
  CountExtra,     \* byte count of a request packet less its payload: 5 in
                  \* xmit_pkt; the endpoint takes 4
  HostUnit,       \* mctp_tus, the host's payload per packet
  DefaultUnit,    \* NVME_MI_DEF_MCTP_TRANS_UNIT_SIZE
  Units,          \* the unit sizes a host may configure
  ReadSizes,      \* the size of the answer to a read, of each type of data
  AckSize,        \* size of the answer to Configuration Set
  CrcBytes,       \* values a byte of a checksum may have
  BufSize,        \* MAX_NVME_MI_BUF_SIZE, the bytes the slave keeps
  MayAbort,       \* where a host may be killed: a subset of {"write", "read"}
  Pattern(_, _)   \* the data: byte i of what a process with a tag says and is told

READ == 1          \* a command answered with data, or with an error
CONFIG_UNIT == 2   \* Configuration Set of the transmission unit size
UNKNOWN == 3       \* Read NVMe-MI Data Structure or Configuration Get of a
                   \* type the handler does not know: nothing is sent
CrcSize == 4
Overhead == 9      \* NVME_MI_SMBUS_HEADER_AND_PEC

\* Bytes in a byte stream of an answer of size data bytes in packets of unit.
PacketsOf(size, unit) == (size + unit - 1) \div unit
StreamLen(size, unit) ==
  size + CrcSize + Overhead * PacketsOf(size + CrcSize, unit)

Bytes == 0..255
Tags == {1, 2}
AnswerSizes == {ReadSizes[t] : t \in DOMAIN ReadSizes} \cup {AckSize}

ASSUME MiAssumption ==
  /\ HostUnit \in 1..250                             \* the byte count is a byte
  /\ Requests # {}
  /\ \A r \in Requests :
       /\ r \in [kind : {READ, CONFIG_UNIT, UNKNOWN}, len : Nat, arg : Bytes]
       /\ r.len >= 3
       /\ r.kind = READ => r.arg \in DOMAIN ReadSizes
       /\ r.kind = CONFIG_UNIT => r.arg \in Units
       /\ \A tag \in Tags : \A i \in 1..r.len : Pattern(tag, i) \in Bytes
  /\ BufSize \in Nat
  /\ AnswerSizes \subseteq Nat
  /\ \A s \in AnswerSizes :
       /\ \A u \in Units \cup {DefaultUnit} : StreamLen(s, u) <= BufSize
       /\ \A tag \in Tags : \A i \in 1..s : Pattern(tag, i) \in Bytes
  /\ Units \cup {DefaultUnit} \subseteq 1..250
  /\ CountExtra \in {4, 5}
  /\ CrcBytes \subseteq Bytes
  /\ MayAbort \subseteq {"write", "read"}

VARIABLES
  ep,      \* the endpoint: misendrecv and mctp_unit_size
  slave,   \* the slave: Nvmemislave
  host,    \* the nvme-mi-cli process that uses the bus
  line     \* history: whether endpoint and host agree where packets begin, and
           \* the request, if any, that the endpoint is still a byte short of

vars == <<ep, slave, host, line>>

-----------------------------------------------------------------------------
(* What is said: a request, tagged with the process that sends it, and the *)
(* data of its answer.                                                     *)

Message(r, tag) ==
  <<r.kind, r.arg, tag>> \o [i \in 1..(r.len - 3) |-> Pattern(tag, i)]
AnswerData(size, tag) == [i \in 1..size |-> Pattern(tag, i)]

-----------------------------------------------------------------------------
(* The host's packets (xmit_pkt).  The address byte is the transfer's, so  *)
(* a packet starts with the command code.                                  *)

MCTP_CMD_CODE == 15
SOM == 128
EOM == 64

HostPacket(payload, ctl) ==
  <<MCTP_CMD_CODE, Len(payload) + CountExtra, 45, 1, 0, 0, ctl>> \o payload \o <<0>>

MutantChunkControl(i, n) == (IF i = 1 THEN SOM ELSE 0) + EOM   \* ends every chunk

ChunkControl(i, n) == (IF i = 1 THEN SOM ELSE 0) + (IF i = n THEN EOM ELSE 0)

HostChunk(msg, i, n) ==
  HostPacket(SubSeq(msg, (i - 1) * HostUnit + 1,
                    IF i < n THEN i * HostUnit ELSE Len(msg)),
             ChunkControl(i, n))

xmit_pkt(msg) ==
  LET n == PacketsOf(Len(msg), HostUnit)
  IN FlattenSeq([i \in 1..n |-> HostChunk(msg, i, n)])

-----------------------------------------------------------------------------
(* The slave: each byte of an answer, and each byte the host reads.        *)

MutantEomBit(data) == data \div 64   \* the mask is missing

EomBit(data) == (data \div 64) % 2

MutantReaderAfter(s, done) == s.recvlen   \* an answer does not rewind the reader

ReaderAfter(s, done) == IF done THEN 0 ELSE s.recvlen

SlaveSend(s, data) ==
  LET len == IF s.pktpos = 2 THEN data + 1 ELSE s.pktlen
      eom == IF s.pktpos = 7 THEN EomBit(data) ELSE s.eom
      whole == s.pktpos + 1 = len + 3
      done == whole /\ eom = 1
  IN [sendlen |-> IF done THEN 0 ELSE s.sendlen + 1,
      recvlen |-> ReaderAfter(s, done),
      pktpos |-> IF whole THEN 0 ELSE s.pktpos + 1,
      pktlen |-> IF whole THEN 0 ELSE len,
      eom |-> IF done THEN 0 ELSE eom,
      syncflag |-> ~done,
      recvbuffer |-> [s.recvbuffer EXCEPT ![s.sendlen + 1] = data]]

\* While an answer is incomplete the slave returns -1, that is 0xff.
SlaveRecvByte == IF slave.syncflag THEN 255 ELSE slave.recvbuffer[slave.recvlen + 1]
SlaveAfterRecv ==
  IF slave.syncflag THEN slave ELSE [slave EXCEPT !.recvlen = @ + 1]

-----------------------------------------------------------------------------
(* The endpoint's answers (nvme_mi_send_resp).                             *)

\* Forgets a byte of the header.
MutantByteCount(sent) == (sent + 4) % 256

ByteCount(sent) == (sent + 5) % 256

MutantPacketStart(unit, i) == 0             \* every packet starts from the first byte

PacketStart(unit, i) == (i - 1) * unit

\* Packet i of an answer.  The checksum of the message goes over the end of
\* the last packet, one byte later than its place, so the packet's own
\* checksum is lost and the byte before it is whatever follows the answer in
\* memory: crc stands for each of the three.  A last packet of one or two
\* bytes of payload has its control byte overwritten too.
RespPacket(resp, unit, crc, i) ==
  LET size == Len(resp) + CrcSize
      last == i = PacketsOf(size, unit)
      sent == IF last THEN size - (i - 1) * unit ELSE unit
      Byte(j) ==
        IF last /\ j > sent + Overhead - CrcSize THEN crc
        ELSE IF j = 3 THEN ByteCount(sent)
        ELSE IF j = 8 THEN (IF i = 1 THEN SOM ELSE 0) + (IF last THEN EOM ELSE 0)
        ELSE IF j < 8 THEN 0
        ELSE IF j <= 8 + sent /\ PacketStart(unit, i) + j - 8 <= Len(resp)
             THEN resp[PacketStart(unit, i) + j - 8] ELSE crc
  IN [j \in 1..(sent + Overhead) |-> Byte(j)]

send_resp(resp, unit, crc) ==
  FlattenSeq([i \in 1..PacketsOf(Len(resp) + CrcSize, unit)
                |-> RespPacket(resp, unit, crc, i)])

\* The checksum leaves the control byte of the last packet alone.
KeepsEnd(size, unit) ==
  (size + CrcSize) - (PacketsOf(size + CrcSize, unit) - 1) * unit >= 3

\* nvme_mi_admin_command and its handlers, as far as the transport can tell
\* them apart: the unit size they leave and the bytes they send with it.
MutantUnitAfter(cmd) == ep.unit             \* the setting is acknowledged and not kept

UnitAfter(cmd) == IF cmd[1] = CONFIG_UNIT THEN cmd[2] ELSE ep.unit

Answer(cmd, crc) ==
  CASE cmd[1] = READ /\ cmd[2] \in DOMAIN ReadSizes ->
         send_resp(AnswerData(ReadSizes[cmd[2]], cmd[3]), UnitAfter(cmd), crc)
    [] cmd[1] = CONFIG_UNIT ->
         send_resp(AnswerData(AckSize, cmd[3]), UnitAfter(cmd), crc)
    [] OTHER -> <<>>

-----------------------------------------------------------------------------
(* The endpoint: each byte of a request (nvme_mi_i2c_send).                *)

\* The end of a request: run it and post its answer.
RunCommand(cmd) ==
  \E crc \in CrcBytes :
    /\ slave' = FoldLeft(SlaveSend, slave, Answer(cmd, crc))
    /\ ep' = [pktlen |-> 0, pktpos |-> 0, eom |-> 0, packet |-> <<>>,
              cmdbuffer |-> cmd, offset |-> 0, unit |-> UnitAfter(cmd)]

\* What a byte makes of the packet the endpoint is in.
PacketLen(data) == IF ep.pktpos = 1 THEN data + 1 ELSE ep.pktlen
PacketEom(data) == IF ep.pktpos = 6 THEN EomBit(data) ELSE ep.eom
EndsPacket(data) == ep.pktpos + 1 = PacketLen(data) + 3
EndsRequest(data) == EndsPacket(data) /\ PacketEom(data) # 0

\* packet is sendrecvbuf from index 1; the payload starts at index 8.
EndpointSend(data) ==
  LET packet == Append(ep.packet, data)
      cmd == SubSeq(ep.cmdbuffer, 1, ep.offset)
               \o SubSeq(packet, 8, 8 + (PacketLen(data) - 5) - 1)
  IN IF ~EndsPacket(data)
     THEN /\ ep' = [ep EXCEPT !.pktpos = @ + 1, !.pktlen = PacketLen(data),
                              !.eom = PacketEom(data), !.packet = packet]
          /\ UNCHANGED slave
     ELSE IF ~EndsRequest(data)
     THEN /\ ep' = [ep EXCEPT !.pktpos = 0, !.pktlen = 0, !.packet = <<>>,
                              !.cmdbuffer = cmd, !.offset = Len(cmd)]
          /\ UNCHANGED slave
     ELSE RunCommand(cmd)

-----------------------------------------------------------------------------
(* The host: mi_pkt_transaction, xmit_pkt and rcv_pkt over qemu_mi_write   *)
(* and qemu_mi_read.  A read of no bytes reads one.  The retries of        *)
(* qemu_mi_read never happen: a byte is never equal to -1.                 *)

\* gets is history: the request executed while the process wrote, none or one.
NoHost == [pc |-> "idle", req |-> CHOOSE r \in Requests : TRUE, tag |-> 1,
           todo |-> <<>>, reply |-> <<>>, left |-> 0, inHeader |-> TRUE, eom |-> 0,
           gets |-> {}]

Self == [req |-> host.req, tag |-> host.tag]

Start(r) ==
  /\ line.st # "lost"
  /\ host.pc \in {"idle", "done"}
  /\ \E tag \in Tags \ {host.tag} :
       host' = [NoHost EXCEPT !.pc = "write", !.req = r, !.tag = tag,
                              !.todo = xmit_pkt(Message(r, tag))]
  /\ UNCHANGED <<ep, slave, line>>

\* The request a byte ends: the host's own, or the one that was a byte short.
EndedBy(data) ==
  IF ~EndsRequest(data) THEN {} ELSE IF line.owed # {} THEN line.owed ELSE {Self}

DataSize(r) == IF r.kind = READ THEN ReadSizes[r.arg] ELSE AckSize
UnitSet(unit, r) == IF r.kind = CONFIG_UNIT THEN r.arg ELSE unit

SlaveLosesEnd(r) == r.kind # UNKNOWN /\ ~KeepsEnd(DataSize(r), UnitSet(ep.unit, r))

\* A packet ends CountExtra - 4 bytes after the host's.
LineAfter(data) ==
  [st |-> IF \/ line.st = "shifted" /\ EndsPacket(data)
             \/ \E q \in EndedBy(data) : SlaveLosesEnd(q.req)
          THEN "lost"
          ELSE IF EndsPacket(data) /\ CountExtra # 4 THEN "shifted" ELSE line.st,
   owed |-> IF EndsRequest(data) THEN {}
            ELSE IF Len(host.todo) = 1 /\ line.st = "in step" /\ ~EndsPacket(data)
            THEN {Self} ELSE line.owed]

\* What the endpoint makes of the packet it ends after the first that began in
\* the middle of another is left out.
WriteByte ==
  /\ line.st # "lost"
  /\ host.pc = "write"
  /\ LET data == Head(host.todo)
         gets == host.gets \cup EndedBy(data)
     IN /\ IF line.st = "shifted" /\ EndsPacket(data) THEN UNCHANGED <<ep, slave>>
           ELSE EndpointSend(data)
        /\ line' = LineAfter(data)
        /\ host' = IF Len(host.todo) > 1
                   THEN [host EXCEPT !.todo = Tail(@), !.gets = gets]
                   ELSE [host EXCEPT !.pc = "read", !.todo = <<>>, !.left = 8, !.gets = gets]

ReadMore(n) == IF n = 0 THEN 1 ELSE n
CountWrap == 65536         \* qemu_mi_read takes its num_bytes in 16 bits

\* Bytes past the end of the slave's buffer are left out.
ReadByte ==
  /\ line.st # "lost"
  /\ host.pc = "read"
  /\ slave.syncflag \/ slave.recvlen < BufSize
  /\ slave' = SlaveAfterRecv
  /\ LET reply == Append(host.reply, SlaveRecvByte)
         n == Len(reply)
     IN host' =
          IF host.left > 1 THEN [host EXCEPT !.reply = reply, !.left = @ - 1]
          ELSE IF host.inHeader
          THEN [host EXCEPT !.reply = reply, !.inHeader = FALSE,
                            !.eom = EomBit(reply[n]),
                            !.left = ReadMore((reply[n - 5] - 4) % CountWrap)]
          ELSE IF host.eom = 1
          THEN [host EXCEPT !.reply = reply, !.pc = "done", !.left = 0]
          ELSE [host EXCEPT !.reply = reply, !.inHeader = TRUE, !.left = 8]
  /\ UNCHANGED <<ep, line>>

\* The process is killed or a transfer fails; the devices notice nothing.
Abort ==
  /\ line.st # "lost"
  /\ host.pc \in MayAbort
  /\ host' = [NoHost EXCEPT !.tag = host.tag]
  /\ line' = IF host.pc = "write" THEN [line EXCEPT !.st = "lost"] ELSE line
  /\ UNCHANGED <<ep, slave>>

-----------------------------------------------------------------------------

InitialEp == [pktlen |-> 0, pktpos |-> 0, eom |-> 0, packet |-> <<>>,
              cmdbuffer |-> <<>>, offset |-> 0, unit |-> DefaultUnit]
InitialSlave == [sendlen |-> 0, recvlen |-> 0, pktpos |-> 0, pktlen |-> 0, eom |-> 0,
                 syncflag |-> FALSE, recvbuffer |-> [i \in 1..BufSize |-> 0]]
InStep == [st |-> "in step", owed |-> {}]

Init == ep = InitialEp /\ slave = InitialSlave /\ host = NoHost /\ line = InStep

\* The machine is started again.
Reboot == ep' = InitialEp /\ slave' = InitialSlave /\ host' = NoHost /\ line' = InStep

HostStep == WriteByte \/ ReadByte

Next == (\E r \in Requests : Start(r)) \/ HostStep \/ Abort \/ Reboot

\* ENABLED HostStep.
HostCanStep ==
  /\ line.st # "lost"
  /\ \/ host.pc = "write"
     \/ host.pc = "read" /\ (slave.syncflag \/ slave.recvlen < BufSize)

\* A process that is not killed goes on with its transfers: WF_vars(HostStep),
\* with its ENABLED spelled out.
HostFairness == []<>~HostCanStep \/ []<><<HostStep>>_vars

Spec == Init /\ [][Next]_vars /\ HostFairness

-----------------------------------------------------------------------------
(* Properties                                                              *)

Whose == [req : Requests, tag : Tags]

TypeOK ==
  /\ ep \in [pktlen : 0..256, pktpos : 0..259, eom : {0, 1}, packet : Seq(Bytes),
             cmdbuffer : Seq(Bytes), offset : 0..Len(ep.cmdbuffer),
             unit : Units \cup {DefaultUnit}]
  /\ slave \in [sendlen : 0..BufSize, recvlen : 0..BufSize, pktpos : 0..259,
                pktlen : 0..256, eom : {0, 1}, syncflag : BOOLEAN,
                recvbuffer : [1..BufSize -> Bytes]]
  /\ host \in [pc : {"idle", "write", "read", "done"}, req : Requests, tag : Tags,
               todo : Seq(Bytes), reply : Seq(Bytes), left : 0..(CountWrap - 1),
               inHeader : BOOLEAN, eom : {0, 1}, gets : SUBSET Whose]
  /\ line \in [st : {"in step", "shifted", "lost"}, owed : SUBSET Whose]

\* Once a host has written its request, the endpoint has taken it for whole and
\* has run the very message the host sent: the two agree where a packet ends,
\* a message of several packets is put together in order, and nothing of an
\* earlier one is left in the command buffer.
RequestArrives ==
  (host.pc = "read" /\ host.reply = <<>>) =>
    ep.pktpos = 0 /\ ep.offset = 0 /\ ep.cmdbuffer = Message(host.req, host.tag)

\* What the endpoint runs is a request as it was made.  Where the two sides
\* count alike it is the host's own; where they do not it is never its own but
\* the one written before it.  It holds as long as the endpoint is followed.
RunsAsMade ==
  line.st # "lost" =>
    /\ CountExtra = 4 /\ host.pc \in {"read", "done"} => host.gets = {Self}
    /\ CountExtra = 5 => Self \notin host.gets
    /\ \A q \in host.gets : SubSeq(ep.cmdbuffer, 1, q.req.len) = Message(q.req, q.tag)

\* The slave has always received a whole number of packets, the last of them
\* with the end-of-message flag, when the host can look: it is ready for the
\* next answer and lets the present one be read.  Only an answer whose last
\* packet has its control byte overwritten breaks it (SlaveLosesEnd).
SlaveHoldsWholeAnswer ==
  line.st # "lost" => slave.pktpos = 0 /\ slave.sendlen = 0 /\ ~slave.syncflag

\* Where byte k of the data lies in a reply whose packets carry ep.unit bytes.
ReplyIndex(k) == ((k - 1) \div ep.unit) * (ep.unit + Overhead) + 9 + ((k - 1) % ep.unit)

\* What a host reads is the answer to the request that was executed while it
\* wrote, from its first byte and in order, however far the hosts before it had
\* read theirs and whatever unit size they configured; when it stops reading it
\* has all of it.
ReadsAnswer ==
  line.st # "lost" =>
    \A q \in host.gets :
      q.req.kind # UNKNOWN =>
        /\ \A k \in 1..DataSize(q.req) :
             ReplyIndex(k) <= Len(host.reply)
               => host.reply[ReplyIndex(k)] = Pattern(q.tag, k)
        /\ host.pc = "done" => Len(host.reply) = StreamLen(DataSize(q.req), ep.unit)

\* The bus as the service a host may expect (MiService): the packets, the
\* endpoint's buffers, the slave and its reader implement requests that are
\* executed at most once, as they were made and in their order, on the time of
\* their process or of the next, and an answer that is the executed one's; hosts
\* that are killed while they read leave nothing behind that changes the next's.
Answered == host.pc = "done" /\ \A q \in host.gets : q.req.kind # UNKNOWN

Session ==
  [st |-> CASE line.st = "lost" -> "lost"
            [] line.st # "lost" /\ host.gets = {} ->
                 IF host.pc = "write" THEN "asked" ELSE "none"
            [] line.st # "lost" /\ host.gets # {} ->
                 IF ~RunsAsMade \/ ~ReadsAnswer THEN "other"
                 ELSE IF host.pc \in {"write", "read"} THEN "asked"
                 ELSE IF Answered THEN "answered" ELSE "none",
   req |-> host.req,
   ran |-> {q.req : q \in host.gets}]

Service == INSTANCE MiService
  WITH Defaults <- DefaultUnit, Apply <- UnitSet, Late <- CountExtra # 4,
       session <- Session, owed <- {q.req : q \in line.owed}, setting <- ep.unit

ImplementsService == Service!Spec

\* A host whose request is answered at all comes to the end of the answer,
\* unless it is killed: it never waits for bytes the slave does not have.
EveryAnswerIsRead ==
  (host.pc = "write" /\ host.req.kind # UNKNOWN) ~> host.pc \in {"done", "idle"}
=============================================================================
