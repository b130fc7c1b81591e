-------------------------------- MODULE MiCli --------------------------------
(***************************************************************************)
(* The runs of tools/nvme-mi-cli, one process after another, against one   *)
(* endpoint: main, handle_plugin, argconfig_parse, the command's handler,  *)
(* executecommand and getresponsedata.  Each process finds the endpoint as *)
(* the ones before it have left it, the ones killed on their way included. *)
(*                                                                         *)
(* The transport is one step each way, what MiTransport shows of it byte   *)
(* by byte.  The tool counts a byte more into a packet than the endpoint,  *)
(* so an NVMe-MI request, which is one packet, waits for the *)
(* first byte of the next process, and a request behind it, or the second  *)
(* packet of an NVMe command, finds the endpoint in the middle of packets. *)
(* What the endpoint makes of those once one of them ends, and after a     *)
(* request was cut off, is left out: line then says that it is lost, and   *)
(* dev and slave stand still until the machine starts again.               *)
(*                                                                         *)
(* Numbers a user types are below 2^24.  What memory holds that nobody has *)
(* written is chosen from Stacks, the structure of the command, and Junk,  *)
(* a management response.                                                  *)
(***************************************************************************)
EXTENDS MiCommands, MiReply, Sequences

CONSTANTS
  Numbers,        \* Numbers[option]: the numbers a user may type for it
  MaxOptions,     \* options a user types at most
  Stacks,         \* what an uninitialised structure may hold
  Junk,           \* what an uninitialised management response may hold
  MaxOpenRetry    \* MAX_OPEN_RETRY

ASSUME MiCliAssumption ==
  /\ \A cmd \in CommandNames : \A o \in DOMAIN OptsOf(cmd) :
       Numbers[o] \subseteq 0..(NumberLimit - 1)
  /\ MaxOptions \in Nat /\ MaxOpenRetry \in Nat \ {0}
  /\ Stacks \subseteq [Offsets -> Bytes]
  /\ Junk \subseteq 0..(NumberLimit - 1)
  /\ IdentifySize \in 0..4096

VARIABLES
  dev,            \* the endpoint: smbus_freq, mctp_unit_size, vpd_data
  slave,          \* TRUE: the slave still holds an answer without its end
  line,           \* where the endpoint sees packets begin, and the request, if any,
                  \* that waits for a byte more
  cli             \* the process

vars == <<dev, slave, line, cli>>

None == -1
NoRequest == gencmd_nvmemi(255, Zero4, Zero4)
InStep == [st |-> "in step", owed |-> {}]
Shifted == [st |-> "shifted", owed |-> {}]
Lost == [st |-> "lost", owed |-> {}]
NoCopy == [off |-> 0, len |-> 0, read |-> 0, total |-> 0]
CRASH == 139
FAIL == 255         \* -1, as an exit status
ENOTTY == 231       \* -25
ErrnoValues == {0, 12, 34}

OptionNames == UNION {DOMAIN OptsOf(cmd) : cmd \in CommandNames}

\* ran: the request executed while the process sent its own, none or one.  clean:
\* its answer has come whole.  ok: the handler returned 0, not argconfig_parse.
NoProcess ==
  [pc |-> "idle", cmd |-> "none", mem |-> [i \in Offsets |-> 0],
   typed |-> [o \in OptionNames |-> None], left |-> 0, tries |-> 0, req |-> NoRequest,
   ran |-> {}, answer |-> NoAnswer, unit |-> 1, clean |-> TRUE, copy |-> NoCopy,
   chunks |-> <<>>, rv |-> 0, ok |-> FALSE]

Ended(rv, ok) == [cli EXCEPT !.pc = "end", !.rv = rv, !.ok = ok]

-----------------------------------------------------------------------------
(* main and handle_plugin                                                  *)

Invoke(cmd) ==
  /\ cli.pc \in {"idle", "end"}
  /\ \E stack \in IF COMMAND_LIST[cmd].init THEN {[i \in Offsets |-> 0]} ELSE Stacks :
       cli' = [NoProcess EXCEPT !.pc = "parse", !.cmd = cmd,
                 !.mem = InitialMem(cmd, stack), !.left = MaxOptions]
  /\ UNCHANGED <<dev, slave, line>>

\* No command, help or version; or a word that is no command.
NoCommand ==
  /\ cli.pc \in {"idle", "end"}
  /\ \E rv \in {0, ENOTTY} : cli' = [NoProcess EXCEPT !.pc = "end", !.rv = rv]
  /\ UNCHANGED <<dev, slave, line>>

-----------------------------------------------------------------------------
(* argconfig_parse: one turn of its loop per option                        *)

ParseOption(o) ==
  /\ cli.pc = "parse" /\ cli.left > 0
  /\ o \in DOMAIN OptsOf(cli.cmd)
  /\ \E n \in Numbers[o] :
       LET opt == OptsOf(cli.cmd)[o]
       IN /\ Accepts(opt.type, n)
          /\ cli' = [cli EXCEPT !.left = @ - 1, !.typed[o] = n,
                                !.mem = Store(cli.mem, opt, n)]
  /\ UNCHANGED <<dev, slave, line>>

\* A number out of range, no number, an option there is not, or -h.  The
\* handler returns errno, which the parser has cleared.
ParseFails ==
  /\ cli.pc = "parse"
  /\ \E rv \in ErrnoValues : cli' = Ended(rv, FALSE)
  /\ UNCHANGED <<dev, slave, line>>

ParseEnds ==
  /\ cli.pc = "parse"
  /\ cli' = [cli EXCEPT !.pc = "open", !.left = 0]
  /\ UNCHANGED <<dev, slave, line>>

-----------------------------------------------------------------------------
(* executecommand                                                          *)

OpenDevice ==
  /\ cli.pc = "open"
  /\ cli' = [cli EXCEPT !.pc = "send", !.req = RequestOf(cli.cmd, cli.mem)]
  /\ UNCHANGED <<dev, slave, line>>


OpenAgain ==
  /\ cli.pc = "open"
  /\ cli' = IF cli.tries + 1 < MaxOpenRetry THEN [cli EXCEPT !.tries = @ + 1]
            ELSE Ended(FAIL, FALSE)

OpenFails == OpenAgain /\ UNCHANGED <<dev, slave, line>>

\* The endpoint never takes the request: memory or the first byte on the bus
\* fails, or the pointer executecommand reads from an NVMe command's padding
\* is none, and the data to copy from there some.
MutantNotSent == Ended(0, TRUE)                   \* the failure is not passed on

NotSent == Ended(FAIL, FALSE)

SendFails ==
  /\ cli.pc = "send"
  /\ \/ cli' = NotSent
     \/ cli.req.nmimt = NVME_ADM_CMD /\ cli.req.dlen > 0 /\ cli' = Ended(CRASH, FALSE)
  /\ UNCHANGED <<dev, slave, line>>

\* The host can take the answer apart, and reads it from its first byte on.
Comes(answer, unit) ==
  ~slave /\ answer # NoAnswer /\ ~Unreadable(answer.hdr, answer.size, unit)

\* The slave holds bytes of an answer after the host has read it.
Holds(answer, unit) ==
  IF answer = NoAnswer THEN slave ELSE Cut(answer.hdr, answer.size, unit)

\* The endpoint executes q, the request of another process, and posts the answer,
\* which is the one this process reads.
Executes(q) ==
  LET after == DeviceAfter(dev, q)
  IN /\ after.unit > 0
     /\ dev' = after
     /\ \E junk \in Junk :
          LET answer == AnswerTo(after, q, junk)
          IN /\ cli' = [cli EXCEPT !.pc = "receive", !.ran = {q}, !.answer = answer,
                          !.unit = after.unit, !.clean = Comes(answer, after.unit)]
             /\ slave' = Holds(answer, after.unit)

\* An NVMe command is two packets, an NVMe-MI command one.
TwoPackets(req) == req.nmimt = NVME_ADM_CMD

\* The first byte of the process ends the request of the one before; the rest
\* begins no packet.
TransmitLate ==
  /\ cli.pc = "send" /\ line.st = "in step" /\ ~TwoPackets(cli.req)
  /\ \E q \in line.owed : Executes(q)
  /\ line' = Shifted

\* What becomes of the line when nothing is executed, or nothing that is
\* followed: a packet that began in the middle of another may end.
LineAfterUnheard ==
  IF line # InStep THEN {Lost} \cup (IF line = Shifted THEN {Shifted} ELSE {})
  ELSE IF TwoPackets(cli.req) THEN {Shifted} ELSE {[InStep EXCEPT !.owed = {cli.req}]}

\* The request is written, and the process reads what the slave has.
TransmitUnheard ==
  /\ cli.pc = "send"
  /\ \/ line = InStep
     \/ line.owed # {} /\ TwoPackets(cli.req)
     \/ line.st # "in step"
  /\ line' \in LineAfterUnheard
  /\ cli' = [cli EXCEPT !.pc = "receive", !.clean = FALSE]
  /\ UNCHANGED <<dev, slave>>

\* A byte behind the first fails, or the process is killed between two of them.
TransmitCut ==
  /\ cli.pc = "send"
  /\ line' = Lost
  /\ cli' \in {NotSent, NoProcess}
  /\ UNCHANGED <<dev, slave>>

\* The machine starts again, and the process in it has gone.
Restarts ==
  /\ dev' = Defaults /\ slave' = FALSE /\ line' = InStep /\ cli' = NoProcess

\* A unit size of 0: nvme_mi_send_resp never comes to its end, writes past its
\* buffer, and takes the machine with it.
TransmitHangs ==
  /\ cli.pc = "send" /\ line.st = "in step"
  /\ \E q \in line.owed : DeviceAfter(dev, q).unit = 0
  /\ Restarts

-----------------------------------------------------------------------------
(* The answer                                                              *)

\* qemu_mi_read does not notice that the first byte of a read has failed.
Receive ==
  /\ cli.pc = "receive"
  /\ \/ cli' = [cli EXCEPT !.pc = "handle"]
     \/ cli' = [cli EXCEPT !.pc = "handle", !.clean = FALSE]
     \/ cli' = Ended(FAIL, FALSE)
  /\ UNCHANGED <<dev, slave, line>>

\* What a command makes of bytes that are not its answer is not followed: it
\* may print them, reject them, or run out of its buffers.
HandleGarbled ==
  /\ cli.pc = "handle" /\ ~cli.clean
  /\ \/ cli' = Ended(0, TRUE)
     \/ \E rv \in {FAIL, CRASH} : cli' = Ended(rv, FALSE)
  /\ UNCHANGED <<dev, slave, line>>

\* The header a command expects: that of its kind, whatever the endpoint sent.
HeaderOf(req) == IF req.nmimt = NVME_MI_CMD THEN MiHeader ELSE AdminHeader

Handle ==
  /\ cli.pc = "handle" /\ cli.clean
  /\ LET size == CopySize(cli.cmd, cli.req, cli.answer)
         length == ReplyLength(cli.answer.hdr, cli.answer.size, cli.unit)
         start == CopyStart(HeaderOf(cli.req), size, length)
     IN \/ Refuses(cli.cmd, cli.req, cli.answer) /\ cli' = Ended(FAIL, FALSE)
        \/ size > 0 /\ cli' = Ended(FAIL, FALSE)              \* no memory
        \/ /\ size >= 0 /\ ~Refuses(cli.cmd, cli.req, cli.answer)
           /\ cli' = IF start.total < 0 THEN Ended(CRASH, FALSE)
                     ELSE [cli EXCEPT !.pc = "copy", !.copy = start]
        \/ /\ size < 0
           /\ \/ cli' = Ended(0, TRUE)
              \/ /\ cli.cmd = "vpdread" /\ cli.typed.data = None
                 /\ cli' = Ended(CRASH, FALSE)    \* strlen of no pointer
  /\ UNCHANGED <<dev, slave, line>>

\* The loop of getresponsedata: what is copied, from where.
CopyChunk ==
  /\ cli.pc = "copy" /\ cli.copy.read < cli.copy.total
  /\ cli' = [cli EXCEPT !.chunks = Append(@, cli.copy), !.copy = CopyNext(@)]
  /\ UNCHANGED <<dev, slave, line>>

CopyEnds ==
  /\ cli.pc = "copy" /\ cli.copy.read >= cli.copy.total
  /\ cli' = Ended(0, TRUE)
  /\ UNCHANGED <<dev, slave, line>>

\* A signal.
Kill ==
  /\ cli.pc \notin {"idle", "end"}
  /\ cli' = NoProcess
  /\ UNCHANGED <<dev, slave, line>>

-----------------------------------------------------------------------------

Reboot == Restarts

Init ==
  /\ dev = Defaults /\ slave = FALSE /\ line = InStep
  /\ cli = NoProcess

ParseStep == (\E o \in DOMAIN Numbers : ParseOption(o)) \/ ParseFails \/ ParseEnds
TransmitStep ==
  TransmitLate \/ TransmitUnheard \/ TransmitCut \/ TransmitHangs
ExecuteStep == OpenDevice \/ OpenFails \/ SendFails \/ TransmitStep
AnswerStep == Receive \/ HandleGarbled \/ Handle \/ CopyChunk \/ CopyEnds
CliStep == ParseStep \/ ExecuteStep \/ AnswerStep

Next == (\E cmd \in CommandNames : Invoke(cmd)) \/ NoCommand \/ CliStep \/ Kill \/ Reboot

\* A process that is not killed goes on.
Spec == Init /\ [][Next]_vars /\ WF_vars(CliStep)

-----------------------------------------------------------------------------
(* Properties                                                              *)

RequestSet ==
  [nmimt : {NVME_MI_CMD, NVME_ADM_CMD}, opc : Bytes, nsid : Words,
   dlen : 0..(NumberLimit - 1), dw : [1..5 -> [1..4 -> Bytes]], payload : {"none", "file"}]

AnswerSet ==
  [hdr : {0, MiHeader, AdminHeader}, mgmt : Nat,
   data : {"none", "subsystem", "commands", "health", "vpd", "identify", "errors"}, size : Nat]

CopySet == [off : Nat, len : Int, read : Nat, total : Nat]

ProcessSet ==
  [pc : {"idle", "parse", "open", "send", "receive", "handle", "copy", "end"},
   cmd : CommandNames \cup {"none"}, mem : [Offsets -> Bytes],
   typed : [OptionNames -> Nat \cup {None}], left : 0..MaxOptions, tries : 0..(MaxOpenRetry - 1),
   req : RequestSet, ran : SUBSET RequestSet, answer : AnswerSet, unit : Words \ {0}, clean : BOOLEAN,
   copy : CopySet, chunks : Seq(CopySet),
   rv : {0, 12, 34, CRASH, ENOTTY, FAIL}, ok : BOOLEAN]

LineSet ==
  [st : {"in step", "shifted", "lost"}, owed : SUBSET RequestSet]

DeviceSet == [freq : 0..15, unit : Words \ {0}, vpd : {"initial", "none", "file"}]

TypeOK ==
  /\ dev \in DeviceSet
  /\ slave \in BOOLEAN
  /\ line \in LineSet
  /\ cli \in ProcessSet

\* An option is declared well when its type has the size of its field and no
\* other option of the command writes there.
Sound(cmd, o) ==
  LET opts == OptsOf(cmd)
  IN /\ WidthOf(opts[o].type) = opts[o].size
     /\ \A p \in DOMAIN opts \ {o} : Written(opts[p]) \cap Written(opts[o]) = {}

SetsFrequency(req) ==
  req.nmimt = NVME_MI_CMD /\ req.opc = 3 /\ req.dw[1][1] = SMBUS_I2C_FREQ

\* Where a request says what an option was, for the options it carries; the
\* byte of lsp, which rae shares, is not among them.
Carried(cmd, req) ==
  CASE cmd = "readnvmemids" ->
         [ctrlid |-> U16(req.dw[1][1], req.dw[1][2]), portid |-> req.dw[1][3],
          dtyp |-> req.dw[1][4]]
    [] cmd = "configget" -> [configid |-> req.dw[1][1], portid |-> req.dw[1][4]]
    [] cmd = "configset" /\ SetsFrequency(req) ->
         [smbusfreq |-> req.dw[1][2], portid |-> req.dw[1][4]]
    [] cmd \in {"vpdread", "vpdwrite"} ->
         [dofst |-> U16(req.dw[1][1], req.dw[1][2]), dlen |-> U16(req.dw[2][1], req.dw[2][2])]
    [] cmd = "getlogpage" -> [log_len |-> req.dlen, uuid_index |-> req.dw[5][1]]
    [] cmd = "getfeatures" -> [data_len |-> req.dlen]
    [] OTHER -> <<>>

\* The value typed last for an option that is declared well is the one the
\* endpoint is asked for, in whatever order, and however often, the options
\* were typed, and whatever the structure held before.
SoundOptionsArrive ==
  cli.pc = "send" =>
    \A o \in DOMAIN Carried(cli.cmd, cli.req) :
      (Sound(cli.cmd, o) /\ cli.typed[o] # None) =>
        Carried(cli.cmd, cli.req)[o] = cli.typed[o]

\* What a process copied out of the first packet of its answer is the
\* endpoint's data, byte by byte, whatever unit size the endpoint was told to
\* use; the packets that follow are another matter (see MiReply).
FirstPacketInOrder ==
  (cli.chunks # <<>> /\ cli.answer.hdr = HeaderOf(cli.req)) =>
    \A d \in 0..(Least(cli.chunks[1].len,
                       Least(cli.answer.size, cli.unit - cli.answer.hdr)) - 1) :
      DataAt(cli.chunks[1].off + d, cli.answer.hdr, cli.answer.size, cli.unit) = d


\* The processes and the endpoint as the service: a request is executed once at
\* most, as some process made it, and before any later one; not by its own
\* process but when the next one writes; a process that
\* reports success of an answer that came whole has the answer to the request
\* executed meanwhile; nothing else changes the endpoint.
Session ==
  [st |-> CASE line.st = "lost" -> "lost"
            [] line.st # "lost" /\ cli.pc = "send" -> "asked"
            [] line.st # "lost" /\ cli.pc \in {"receive", "handle", "copy"} ->
                 IF cli.ran = {} THEN "none" ELSE "asked"
            [] line.st # "lost" /\ cli.pc = "end" /\ cli.ok /\ cli.clean -> "answered"
            [] OTHER -> "none",
   req |-> cli.req,
   ran |-> cli.ran]

Service == INSTANCE MiService
  WITH Requests <- RequestSet, Apply <- DeviceAfter, Late <- TRUE,
       session <- Session, owed <- line.owed, setting <- dev

ImplementsService == Service!Spec
=============================================================================
