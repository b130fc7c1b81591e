------------------------------- MODULE MiReply -------------------------------
(***************************************************************************)
(* Where the bytes of an answer lie in the reply nvme-mi-cli has read, and *)
(* where getresponsedata takes them from.                                  *)
(*                                                                         *)
(* An answer is a header of hdr bytes (8, or 20 of an NVMe command), size  *)
(* bytes of data and a checksum, in packets of unit bytes.  rcv_pkt stores *)
(* the packets one after the other, each with 8 bytes of header before and *)
(* one byte of checksum behind it.  getresponsedata reckons with packets   *)
(* of 64 bytes and forgets the byte behind each of them.                   *)
(***************************************************************************)
EXTENDS Integers

CrcSize == 4
PacketHeader == 8                   \* MCTP_PKT_HDR_SIZE
HostUnit == 64                      \* MCTP_TRANS_UNIT_SIZE_VAL_DEF

Least(a, b) == IF a < b THEN a ELSE b

Total(hdr, size) == hdr + size + CrcSize
Packets(hdr, size, unit) == (Total(hdr, size) + unit - 1) \div unit

\* streply.length: the byte counts of the packets less 4.
ReplyLength(hdr, size, unit) == Total(hdr, size) + Packets(hdr, size, unit)

\* Which byte of data lies at index i of the reply: -1 for one that is not data.
DataAt(i, hdr, size, unit) ==
  LET packet == i \div (unit + PacketHeader + 1)
      inPacket == (i % (unit + PacketHeader + 1)) - PacketHeader
      k == packet * unit + inPacket - hdr
  IN IF inPacket \in 0..(unit - 1) /\ k \in 0..(size - 1) THEN k ELSE -1

\* An answer the slave does not release, or releases without its end, or whose
\* byte count does not fit a byte: what is read then is not the answer.
Cut(hdr, size, unit) == (Total(hdr, size) - 1) % unit < 2
Unreadable(hdr, size, unit) ==
  Cut(hdr, size, unit) \/ Least(unit, Total(hdr, size)) > 250 \/ unit < hdr

\* getresponsedata, before its loop: the header it expects is that of the
\* command.  len is a chunk's length, read what has been copied, total what
\* there is to copy (as a uint32_t: less than 0 is more than there can be).
MutantCopyStart(hdr, size, length) ==            \* forgets the status dword
  [off |-> PacketHeader + hdr - 4, len |-> Least(HostUnit - hdr, size), read |-> 0,
   total |-> length - hdr - CrcSize]

CopyStart(hdr, size, length) ==
  [off |-> PacketHeader + hdr, len |-> Least(HostUnit - hdr, size), read |-> 0,
   total |-> length - hdr - CrcSize]

\* One turn of the loop.
CopyNext(copy) ==
  LET read == copy.read + copy.len
  IN [off |-> copy.off + copy.len + PacketHeader,
      len |-> IF read + HostUnit > copy.total THEN copy.total - read ELSE HostUnit,
      read |-> read, total |-> copy.total]
=============================================================================
