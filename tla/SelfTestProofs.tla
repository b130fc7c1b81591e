--------------------------- MODULE SelfTestProofs ---------------------------
(***************************************************************************)
(* Proofs, for every length of the list and any number of controllers,     *)
(* that the self-test log keeps its types and is the last tests in order.  *)
(* The invariant of the log is inductive with the types: an entry moves    *)
(* one place down, so what held of i - 1 holds of i, and the one that      *)
(* falls out is counted only when the list is full.                        *)
(***************************************************************************)
EXTENDS SelfTest, TLAPS

DstInv == DstTypeOK /\ LogIsNewestFirst

LEMMA DstInitInv == DstInit => DstInv
<1> SUFFICES ASSUME DstInit PROVE DstInv
  OBVIOUS
<1>1. NotUsed \in EntrySet /\ ~Used(NotUsed) /\ NotUsed.poh = NoHours
  BY DEF NotUsed, EntrySet, Used, Nsids, NoHours
<1>2. DstTypeOK
  BY <1>1, SelfTestAssumption DEF DstInit, DstTypeOK
<1>3. LogIsNewestFirst
  <2>1. \A c \in Controllers, i \in Entries :
          ~Used(dstList[c][i]) /\ dstList[c][i].poh = NoHours /\ tests[c] = 0
    BY <1>1 DEF DstInit
  <2>2. \A i \in Entries : ~(i <= 0)
    BY DEF Entries
  <2>3. hours = 0 /\ NoHours <= 0 /\ NoHours >= NoHours
    BY DEF DstInit, NoHours
  <2> QED BY <2>1, <2>2, <2>3 DEF LogIsNewestFirst
<1> QED BY <1>2, <1>3 DEF DstInv

\* A command keeps the invariant.
LEMMA DstStepInv ==
  ASSUME DstInv, NEW c \in Controllers, NEW nsid \in Nsids, NEW stc \in 0..15,
         NEW failed \in BOOLEAN, NEW now \in 0..MaxHours,
         nvme_dst(c, nsid, stc, failed, now)
  PROVE  DstInv'
<1> USE DEF DstInv
<1>1. CASE stc \notin {1, 2}
  BY <1>1, SelfTestAssumption
  DEF nvme_dst, DstTypeOK, LogIsNewestFirst, Used
<1>2. CASE stc \in {1, 2}
  <2> DEFINE e == Result(stc, failed, nsid, now)
             list == dstList[c]
  <2>1. /\ dstList' = [dstList EXCEPT ![c] = CreateEntry(list, e)]
        /\ hours' = now /\ now >= hours
        /\ tests' = [tests EXCEPT ![c] = IF @ < MaxEntries THEN @ + 1 ELSE @]
        /\ current' = [current EXCEPT ![c] = 100]
    BY <1>2 DEF nvme_dst
  <2>2. e \in EntrySet /\ Used(e) /\ e.poh = now /\ now \in Nat
    BY <1>2, SelfTestAssumption DEF Result, EntrySet, Used
  <2>3. /\ list \in [Entries -> EntrySet]
        /\ \A i \in Entries : i # 1 => i - 1 \in Entries
        /\ 1 \in Entries /\ MaxEntries \in Nat
    BY SelfTestAssumption DEF DstTypeOK, Entries
  <2>4. CreateEntry(list, e) \in [Entries -> EntrySet]
    BY <2>2, <2>3 DEF CreateEntry
  <2>5. DstTypeOK'
    BY <2>1, <2>2, <2>3, <2>4 DEF DstTypeOK
  <2>6. SUFFICES ASSUME NEW d \in Controllers
                 PROVE  /\ \A i \in Entries : Used(dstList[d][i])' <=> i <= tests'[d]
                        /\ \A i, j \in Entries :
                             i < j => dstList'[d][i].poh >= dstList'[d][j].poh
                        /\ \A i \in Entries : dstList'[d][i].poh <= hours'
    BY <2>5 DEF LogIsNewestFirst, Used
  <2>7. \A x \in Controllers, i \in Entries : dstList[x][i].poh \in Int /\ hours \in Int
    BY DEF DstTypeOK, EntrySet, NoHours
  <2>8. CASE d # c
    <3>1. dstList'[d] = dstList[d] /\ tests'[d] = tests[d]
      BY <2>1, <2>8 DEF DstTypeOK
    <3> QED BY <3>1, <2>1, <2>2, <2>7 DEF LogIsNewestFirst, Used
  <2>9. CASE d = c
    <3>1. \A i \in Entries : dstList'[d][i] = IF i = 1 THEN e ELSE list[i - 1]
      BY <2>1, <2>3, <2>9 DEF CreateEntry, DstTypeOK
    <3>2. tests'[d] = (IF tests[c] < MaxEntries THEN tests[c] + 1 ELSE tests[c])
          /\ tests[c] \in 0..MaxEntries
      BY <2>1, <2>9 DEF DstTypeOK
    <3>3. \A i \in Entries : Used(dstList[d][i])' <=> i <= tests'[d]
      <4> SUFFICES ASSUME NEW i \in Entries
                   PROVE  dstList'[d][i].status # 15 <=> i <= tests'[d]
        BY DEF Used
      <4>1. CASE i = 1
        BY <4>1, <3>1, <3>2, <2>2, <2>3 DEF Used, Entries
      <4>2. CASE i # 1
        <5>1. i - 1 \in Entries /\ dstList'[d][i] = list[i - 1]
          BY <4>2, <3>1, <2>3
        <5>2. list[i - 1].status # 15 <=> i - 1 <= tests[c]
          BY <5>1 DEF LogIsNewestFirst, Used
        <5> QED BY <5>1, <5>2, <3>2, <2>3 DEF Entries
      <4> QED BY <4>1, <4>2
    <3>4. \A i \in Entries : dstList'[d][i].poh <= now
      BY <3>1, <2>1, <2>2, <2>3, <2>7 DEF LogIsNewestFirst
    <3>5. ASSUME NEW i \in Entries, NEW j \in Entries, i < j
          PROVE  dstList'[d][i].poh >= dstList'[d][j].poh
      <4>1. CASE i = 1
        BY <4>1, <3>1, <3>4, <2>2, <2>3, <2>7
      <4>2. CASE i # 1
        <5>1. /\ i - 1 \in Entries /\ j - 1 \in Entries /\ i - 1 < j - 1
              /\ dstList'[d][i] = list[i - 1] /\ dstList'[d][j] = list[j - 1]
          BY <4>2, <3>5, <3>1, <2>3 DEF Entries
        <5> QED BY <5>1 DEF LogIsNewestFirst
      <4> QED BY <4>1, <4>2
    <3> QED BY <3>3, <3>4, <3>5, <2>1
  <2> QED BY <2>8, <2>9
<1> QED BY <1>1, <1>2

LEMMA DstNextInv == DstInv /\ [DstNext]_dstVars => DstInv'
<1> SUFFICES ASSUME DstInv, [DstNext]_dstVars PROVE DstInv'
  OBVIOUS
<1>1. CASE DstNext
  BY <1>1, DstStepInv DEF DstNext
<1>2. CASE UNCHANGED dstVars
  BY <1>2 DEF dstVars, DstInv, DstTypeOK, LogIsNewestFirst, Used
<1> QED BY <1>1, <1>2

\* The list keeps its length and its entries their ranges, whatever is tested.
THEOREM DstTypeCorrect == DstSpec => []DstTypeOK
BY DstInitInv, DstNextInv, PTL DEF DstSpec, DstInv

\* The self-test log is the last tests, the newest first, none missing.
THEOREM LogCorrect == DstSpec => []LogIsNewestFirst
BY DstInitInv, DstNextInv, PTL DEF DstSpec, DstInv
=============================================================================
