------------------------------ MODULE SelfTest ------------------------------
(***************************************************************************)
(* The device self-tests of                                                *)
(* patches/device-self-test/add-device-self-test-command-support.patch.    *)
(* A test is over when its command is; its result goes to the head of a    *)
(* list of fixed length, in the entry that was its last, and log page 6 is *)
(* that list.                                                              *)
(***************************************************************************)
EXTENDS Integers

CONSTANTS
  Controllers,
  MaxEntries,     \* NVME_DST_MAX_ENTRIES, 20
  Namespaces,     \* identifiers of the namespaces attached to a controller
  MaxHours        \* bounds the clock: TLC only

BroadcastNsid == -1     \* 0xffffffff
NoHours == -1           \* a result that is not used: its hours say nothing

ASSUME SelfTestAssumption ==
  MaxEntries \in Nat \ {0} /\ Namespaces \subseteq Nat \ {0} /\ MaxHours \in Nat

VARIABLES
  dstList,        \* per controller the list, its head first
  current,        \* current_dstc
  hours,          \* the clock, in hours since the start, when last read
  tests           \* history: tests a controller has accepted, counted to MaxEntries

dstVars == <<dstList, current, hours, tests>>

Entries == 1..MaxEntries
Nsids == Namespaces \cup {0, BroadcastNsid}

\* dst_status: the test in the high bits, in the low ones 0 for a test without
\* an error, 7 for one with a failed segment, 15 for an entry not used.
Result(stc, failed, nsid, poh) ==
  [stc |-> stc, status |-> IF failed THEN 7 ELSE 0, segment |-> IF failed THEN 2 ELSE 0,
   nsid |-> nsid, poh |-> poh]
NotUsed == [stc |-> 0, status |-> 15, segment |-> 0, nsid |-> 0, poh |-> NoHours]
Used(e) == e.status # 15

DstInit ==
  /\ dstList = [c \in Controllers |-> [i \in Entries |-> NotUsed]]
  /\ current = [c \in Controllers |-> 0]
  /\ hours = 0
  /\ tests = [c \in Controllers |-> 0]

\* The last entry is taken out and put in again at the head.
MutantCreateEntry(list, e) ==                     \* the head instead of the last
  [i \in Entries |-> IF i = 1 THEN e ELSE list[i]]

MutantCreateEntryAdds(list, e) ==                 \* none is taken out
  [i \in 1..(MaxEntries + 1) |-> IF i = 1 THEN e ELSE list[i - 1]]

CreateEntry(list, e) ==
  [i \in Entries |-> IF i = 1 THEN e ELSE list[i - 1]]

\* failed: the temperature is not between the thresholds of the feature; now:
\* what the virtual clock says.
nvme_dst(c, nsid, stc, failed, now) ==
  /\ nsid \in Nsids /\ now >= hours
  /\ IF stc \in {1, 2}
     THEN /\ dstList' = [dstList EXCEPT ![c] =
                           CreateEntry(@, Result(stc, failed, nsid, now))]
          /\ hours' = now
          /\ tests' = [tests EXCEPT ![c] = IF @ < MaxEntries THEN @ + 1 ELSE @]
     ELSE UNCHANGED <<dstList, hours, tests>>
  /\ current' = [current EXCEPT ![c] = 100]

DstNext ==
  \E c \in Controllers, nsid \in Nsids, stc \in 0..15, failed \in BOOLEAN, now \in 0..MaxHours :
    nvme_dst(c, nsid, stc, failed, now)

DstSpec == DstInit /\ [][DstNext]_dstVars

-----------------------------------------------------------------------------
(* Properties                                                              *)

EntrySet ==
  [stc : 0..2, status : {0, 7, 15}, segment : {0, 2}, nsid : Nsids, poh : Nat \cup {NoHours}]

DstTypeOK ==
  /\ dstList \in [Controllers -> [Entries -> EntrySet]]
  /\ current \in [Controllers -> {0, 100}]
  /\ hours \in Nat
  /\ tests \in [Controllers -> 0..MaxEntries]

\* The log is read from its head: the results in use come first, the latest
\* first among them, and none of the last MaxEntries tests is missing.
LogIsNewestFirst ==
  \A c \in Controllers :
    /\ \A i \in Entries : Used(dstList[c][i]) <=> i <= tests[c]
    /\ \A i, j \in Entries : i < j => dstList[c][i].poh >= dstList[c][j].poh
    /\ \A i \in Entries : dstList[c][i].poh <= hours
=============================================================================
