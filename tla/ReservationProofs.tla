------------------------- MODULE ReservationProofs -------------------------
(***************************************************************************)
(* Proofs, for every set of controllers, namespaces, hosts and keys and    *)
(* every number of slots, of the invariants and the action properties of   *)
(* Reservation.                                                            *)
(*                                                                         *)
(* The inductive invariant is TypeOK together with "every record of the    *)
(* table is well formed" (TableOK).  Every command changes the table by    *)
(* PutRec and UnregisterAll only, so two lemmas say that those keep it     *)
(* well formed and each action is then a line.                             *)
(***************************************************************************)
EXTENDS Reservation, TLAPS

Records ==
  [nsid : Nsids \cup {0}, rtype : 0..6, rstatus : BOOLEAN, curr_key : Keys]
Tables == [Slots -> [Nsids -> Records]]

RecordOK(r, n) ==
  /\ r \in Records
  /\ r.rstatus => r.nsid = n /\ r.rtype # 0
  /\ r.nsid # n => r.nsid = 0 /\ r.curr_key = 0

TableOK(recs) ==
  /\ recs \in Tables
  /\ \A s \in Slots, n \in Nsids : RecordOK(recs[s][n], n)

Inv == TypeOK /\ TableOK(reservations)

-----------------------------------------------------------------------------
(* The operators the handlers are built from.                              *)

\* The slot of a controller is one of the slots of the table.
LEMMA SlotType ==
  ASSUME TypeOK, NEW c \in Controllers PROVE Slot(c) \in Slots
<1>1. mapHostId[c] \in Nat
  BY RsvAssumption DEF TypeOK
<1>2. MaxControllers \in Nat /\ MaxControllers > 0
  BY RsvAssumption
<1>3. mapHostId[c] % MaxControllers \in 0..MaxControllers - 1
  BY <1>1, <1>2, SMT
<1> QED BY <1>3 DEF Slot, Slots

\* The generation counter stays a counter modulo GenModulus, and adding one
\* or two always changes it.
LEMMA AddGenType ==
  ASSUME NEW g \in 0..GenModulus - 1, NEW k \in {1, 2}
  PROVE  AddGen(g, k) \in 0..GenModulus - 1 /\ AddGen(g, k) # g
BY RsvAssumption DEF AddGen

\* The record that nvme_subsys_setup allocates is well formed.
LEMMA NoRecordOK ==
  ASSUME NEW n \in Nsids PROVE RecordOK(NoRecord, n)
BY RsvAssumption DEF RecordOK, NoRecord, Records

\* A registered host's record stays well formed when its key is replaced.
LEMMA ReplaceKeyOK ==
  ASSUME NEW n \in Nsids, NEW r, RecordOK(r, n), r.nsid = n, NEW key \in Keys
  PROVE  RecordOK([r EXCEPT !.curr_key = key], n)
<1> DEFINE u == [r EXCEPT !.curr_key = key]
<1>1. r \in Records
  BY DEF RecordOK
<1>2. u \in Records
  BY <1>1 DEF Records
<1>3. u.nsid = r.nsid /\ u.rtype = r.rtype /\ u.rstatus = r.rstatus
  BY <1>1 DEF Records
<1> HIDE DEF u
<1>4. RecordOK(u, n)
  BY <1>2, <1>3 DEF RecordOK
<1> QED BY <1>4 DEF u

\* A registered host's record stays well formed when its reservation is taken,
\* and any record does when its reservation is given up.
LEMMA WithReservationOK ==
  ASSUME NEW n \in Nsids, NEW r, RecordOK(r, n)
  PROVE  /\ RecordOK(WithReservation(r, 0, FALSE), n)
         /\ r.nsid = n => \A type \in RsvTypes : RecordOK(WithReservation(r, type, TRUE), n)
<1>1. \A type \in RsvTypes : type \in 0..6 /\ type # 0
  BY RsvAssumption
<1>2. r \in Records
  BY DEF RecordOK
<1> QED BY <1>1, <1>2 DEF RecordOK, Records, WithReservation

\* Writing a well-formed record keeps the table well formed.
LEMMA PutRecOK ==
  ASSUME NEW recs, TableOK(recs), NEW s \in Slots, NEW n \in Nsids,
         NEW r, RecordOK(r, n)
  PROVE  /\ TableOK(PutRec(recs, s, n, r))
         /\ PutRec(recs, s, n, r)[s][n] = r
         /\ \A t \in Slots, m \in Nsids :
              (t # s \/ m # n) => PutRec(recs, s, n, r)[t][m] = recs[t][m]
BY DEF TableOK, PutRec, Tables, RecordOK

\* Unregistering keeps the table well formed: each record is the old one or
\* the cleared one, and the records of other namespaces are the old ones.
LEMMA UnregisterAllOK ==
  ASSUME NEW recs, TableOK(recs), NEW c \in Controllers, NEW n \in Nsids,
         NEW k \in Keys
  PROVE  /\ TableOK(UnregisterAll(recs, c, n, k))
         /\ \A t \in Slots : UnregisterAll(recs, c, n, k)[t][n] \in {recs[t][n], NoRecord}
         /\ \A t \in Slots, m \in Nsids :
              m # n => UnregisterAll(recs, c, n, k)[t][m] = recs[t][m]
<1> DEFINE new == UnregisterAll(recs, c, n, k)
<1>1. new \in [Slots -> [Nsids -> Records]]
  BY NoRecordOK DEF UnregisterAll, TableOK, Tables, RecordOK
<1>2. \A t \in Slots : new[t][n] \in {recs[t][n], NoRecord}
  BY DEF UnregisterAll, TableOK, Tables
<1>3. \A t \in Slots, m \in Nsids : m # n => new[t][m] = recs[t][m]
  BY DEF UnregisterAll, TableOK, Tables
<1>4. \A t \in Slots, m \in Nsids : RecordOK(new[t][m], m)
  <2> SUFFICES ASSUME NEW t \in Slots, NEW m \in Nsids
               PROVE  RecordOK(new[t][m], m)
    OBVIOUS
  <2>1. new[t][m] = recs[t][m] \/ new[t][m] = NoRecord
    BY <1>2, <1>3
  <2> HIDE DEF new
  <2> QED BY <2>1, NoRecordOK DEF TableOK
<1> QED BY <1>1, <1>2, <1>3, <1>4 DEF TableOK, Tables

\* A notice keeps the log of every controller a notice or none.
LEMMA LogPageEventType ==
  ASSUME TypeOK, NEW recs, NEW c \in Controllers, NEW n \in Nsids, NEW type \in 1..3
  PROVE  LogPageEvent(recs, c, n, type)
           \in [Controllers -> [type : 0..3, nsid : Nsids \cup {0}]]
BY DEF TypeOK, LogPageEvent

-----------------------------------------------------------------------------
(* The inductive invariant.                                                *)

LEMMA InitInv == Init => Inv
<1> SUFFICES ASSUME Init PROVE Inv
  OBVIOUS
<1>1. \A n \in Nsids : RecordOK(NoRecord, n)
  BY NoRecordOK
<1>2. \A s \in Slots, n \in Nsids : reservations[s][n] = NoRecord
  BY DEF Init
<1>3. TableOK(reservations)
  BY <1>1, <1>2 DEF Init, TableOK, Tables, RecordOK
<1>4. TypeOK
  BY <1>3, RsvAssumption DEF Init, TypeOK, TableOK, Tables, Records, NoNotice
<1> QED BY <1>3, <1>4 DEF Inv

\* What an action leaves to prove of Inv once its new table is well formed.
LEMMA InvFromTable ==
  ASSUME Inv,
         TableOK(reservations'),
         mapHostId' \in [Controllers -> HostIds],
         rsvStatus' \in [Nsids -> [gen : 0..GenModulus - 1, rtype : 0..6]],
         rsvLog' \in [Controllers -> [type : 0..3, nsid : Nsids \cup {0}]],
         exhid' \in [Controllers -> BOOLEAN]
  PROVE  Inv'
BY DEF Inv, TypeOK, TableOK, Tables, Records

LEMMA RecOK ==
  ASSUME Inv, NEW c \in Controllers, NEW n \in Nsids
  PROVE  /\ Slot(c) \in Slots
         /\ RecordOK(Rec(c, n), n)
         /\ TableOK(reservations)
BY SlotType DEF Inv, Rec, TableOK

LEMMA RegisterInv ==
  ASSUME Inv, NEW c \in Controllers, NEW n \in Nsids, RsvRegister(c, n)
  PROVE  Inv'
<1> USE RecOK, AddGenType DEF RsvRegister
<1>1. CASE \E nrkey \in Keys : RegisterKey(c, n, nrkey)
  <2> PICK nrkey \in Keys : RegisterKey(c, n, nrkey)
    BY <1>1
  <2>1. RecordOK([nsid |-> n, rtype |-> 0, rstatus |-> FALSE, curr_key |-> nrkey], n)
    BY DEF RecordOK, Records
  <2>2. TableOK(reservations')
    BY <2>1, PutRecOK DEF RegisterKey
  <2> QED BY <2>2, InvFromTable DEF RegisterKey, Inv, TypeOK
<1>2. CASE \E nrkey \in Keys : RegisterAgain(c, n, nrkey)
  <2> PICK nrkey \in Keys : RegisterAgain(c, n, nrkey)
    BY <1>2
  <2> QED BY InvFromTable DEF RegisterAgain, Inv, TypeOK
<1>3. CASE \E iekey \in BOOLEAN, crkey \in Keys : Unregister(c, n, iekey, crkey)
  <2> PICK iekey \in BOOLEAN, crkey \in Keys : Unregister(c, n, iekey, crkey)
    BY <1>3
  <2>1. TableOK(reservations')
    BY NoRecordOK, PutRecOK DEF Unregister
  <2>2. rsvLog' \in [Controllers -> [type : 0..3, nsid : Nsids \cup {0}]]
    <3>1. TypeOK /\ 2 \in 1..3
      BY DEF Inv
    <3>2. LogPageEvent(PutRec(reservations, Slot(c), n, NoRecord), c, n, 2)
            \in [Controllers -> [type : 0..3, nsid : Nsids \cup {0}]]
      BY <3>1, LogPageEventType
    <3> QED BY <3>1, <3>2 DEF Unregister, TypeOK
  <2> QED BY <2>1, <2>2, InvFromTable DEF Unregister, Inv, TypeOK
<1>4. CASE \E iekey \in BOOLEAN, crkey, nrkey \in Keys : Replace(c, n, iekey, crkey, nrkey)
  <2> PICK iekey \in BOOLEAN, crkey \in Keys, nrkey \in Keys :
             Replace(c, n, iekey, crkey, nrkey)
    BY <1>4
  <2>1. RecordOK([Rec(c, n) EXCEPT !.curr_key = nrkey], n)
    BY ReplaceKeyOK DEF Replace, KeyAccepted, Registered
  <2>2. TableOK(reservations')
    BY <2>1, PutRecOK DEF Replace
  <2> QED BY <2>2, InvFromTable DEF Replace, Inv, TypeOK
<1> QED BY <1>1, <1>2, <1>3, <1>4

\* A preemption keeps the table well formed and leaves the records of the
\* other namespaces alone.
LEMMA PreemptTable ==
  ASSUME Inv, NEW c \in Controllers, NEW n \in Nsids,
         NEW type \in RsvTypes, NEW prkey \in Keys, Preempt(c, n, type, prkey)
  PROVE  /\ TableOK(reservations')
         /\ \A t \in Slots, m \in Nsids :
              m # n => reservations'[t][m] = reservations[t][m]
<1> USE RecOK, RsvAssumption
<1> DEFINE cleared == UnregisterAll(reservations, c, n, prkey)
           new == [cleared[Slot(c)][n] EXCEPT !.rtype = type]
           retyped == IF PreemptRetypes(c, n, prkey)
                      THEN PutRec(cleared, Slot(c), n, new) ELSE cleared
           Same(recs) == \A t \in Slots, m \in Nsids :
                           m # n => recs[t][m] = reservations[t][m]
<1>1. TableOK(cleared) /\ Same(cleared)
  BY UnregisterAllOK
<1>2. RecordOK(new, n)
  <2>1. RecordOK(cleared[Slot(c)][n], n)
    BY <1>1 DEF TableOK
  <2> HIDE DEF cleared
  <2> QED BY <2>1 DEF RecordOK, Records
<1>3. TableOK(retyped) /\ Same(retyped)
  <2> HIDE DEF cleared, new
  <2> QED BY <1>1, <1>2, PutRecOK
<1>4. TableOK(UnregisterAll(retyped, c, n, prkey))
      /\ Same(UnregisterAll(retyped, c, n, prkey))
  <2> HIDE DEF retyped
  <2> QED BY <1>3, UnregisterAllOK
<1>5. reservations' \in {retyped, UnregisterAll(retyped, c, n, prkey)}
  BY DEF Preempt
<1> HIDE DEF retyped
<1> QED BY <1>3, <1>4, <1>5

LEMMA AcquireInv ==
  ASSUME Inv, NEW c \in Controllers, NEW n \in Nsids, RsvAcquire(c, n)
  PROVE  Inv'
<1> USE RecOK, AddGenType, RsvAssumption DEF RsvAcquire
<1>1. CASE \E crkey \in Keys, type \in RsvTypes : Acquire(c, n, crkey, type)
  <2> PICK crkey \in Keys, type \in RsvTypes : Acquire(c, n, crkey, type)
    BY <1>1
  <2>1. RecordOK(WithReservation(Rec(c, n), type, TRUE), n)
    BY WithReservationOK DEF Acquire, Registered
  <2>2. TableOK(reservations')
    BY <2>1, PutRecOK DEF Acquire
  <2>3. rsvStatus' \in [Nsids -> [gen : 0..GenModulus - 1, rtype : 0..6]]
    <3>1. type \in 0..6
      OBVIOUS
    <3> QED BY <3>1 DEF Acquire, Inv, TypeOK
  <2> QED BY <2>2, <2>3, InvFromTable DEF Acquire, Inv, TypeOK
<1>2. CASE \E type \in RsvTypes, prkey \in Keys : Preempt(c, n, type, prkey)
  <2> PICK type \in RsvTypes, prkey \in Keys : Preempt(c, n, type, prkey)
    BY <1>2
  <2>6. TableOK(reservations')
    BY PreemptTable
  <2>7. rsvLog' \in [Controllers -> [type : 0..3, nsid : Nsids \cup {0}]]
    BY LogPageEventType DEF Preempt, Inv
  <2>8. rsvStatus' \in [Nsids -> [gen : 0..GenModulus - 1, rtype : 0..6]]
    BY DEF Preempt, Inv, TypeOK
  <2> QED BY <2>6, <2>7, <2>8, InvFromTable DEF Preempt, Inv, TypeOK
<1> QED BY <1>1, <1>2

LEMMA ReleaseInv ==
  ASSUME Inv, NEW c \in Controllers, NEW n \in Nsids, RsvRelease(c, n)
  PROVE  Inv'
<1> USE RecOK, AddGenType DEF RsvRelease
<1>1. CASE \E crkey \in Keys, type \in RsvTypes : Release(c, n, crkey, type)
  <2> PICK crkey \in Keys, type \in RsvTypes : Release(c, n, crkey, type)
    BY <1>1
  <2>1. TableOK(reservations')
    BY WithReservationOK, PutRecOK DEF Release
  <2>2. rsvLog' \in [Controllers -> [type : 0..3, nsid : Nsids \cup {0}]]
    <3>1. TypeOK /\ 2 \in 1..3
      BY DEF Inv
    <3> QED BY <3>1, LogPageEventType DEF Release
  <2>3. rsvStatus' \in [Nsids -> [gen : 0..GenModulus - 1, rtype : 0..6]]
    BY DEF Release, Inv, TypeOK
  <2> QED BY <2>1, <2>2, <2>3, InvFromTable DEF Release, Inv, TypeOK
<1>2. CASE \E crkey \in Keys : Clear(c, n, crkey)
  <2> PICK crkey \in Keys : Clear(c, n, crkey)
    BY <1>2
  <2> DEFINE own == PutRec(reservations, Slot(c), n, NoRecord)
  <2>1. TableOK(own)
    BY NoRecordOK, PutRecOK
  <2>2. TableOK(UnregisterAll(own, c, n, 0))
    <3> HIDE DEF own
    <3> QED BY <2>1, UnregisterAllOK, RsvAssumption
  <2>3. TableOK(reservations')
    BY <2>2 DEF Clear
  <2>4. rsvLog' \in [Controllers -> [type : 0..3, nsid : Nsids \cup {0}]]
    <3>1. TypeOK /\ 3 \in 1..3
      BY DEF Inv
    <3> QED BY <3>1, LogPageEventType DEF Clear
  <2>5. rsvStatus' \in [Nsids -> [gen : 0..GenModulus - 1, rtype : 0..6]]
    <3>1. \A g \in 0..GenModulus - 1 : AddGen(g, 1) \in 0..GenModulus - 1
      OBVIOUS
    <3> QED BY <3>1 DEF Clear, Inv, TypeOK
  <2> QED BY <2>3, <2>4, <2>5, InvFromTable DEF Clear, Inv, TypeOK
<1> QED BY <1>1, <1>2

LEMMA ReportInv ==
  ASSUME Inv, NEW c \in Controllers, NEW n \in Nsids, RsvReport(c, n)
  PROVE  Inv'
<1>1. ReportedType(n) \in 0..6
  BY DEF ReportedType, Inv, TypeOK
<1>2. rsvStatus' \in [Nsids -> [gen : 0..GenModulus - 1, rtype : 0..6]]
  BY <1>1 DEF RsvReport, Inv, TypeOK
<1> QED BY <1>2, InvFromTable DEF RsvReport, Inv, TypeOK

LEMMA ControllerInv ==
  ASSUME Inv, NEW c \in Controllers,
         RsvLogPage(c) \/ \E extended \in BOOLEAN : SetHostId(c, extended)
  PROVE  Inv'
<1>1. CASE RsvLogPage(c)
  BY <1>1, InvFromTable DEF RsvLogPage, NoNotice, Inv, TypeOK
<1>2. CASE \E extended \in BOOLEAN : SetHostId(c, extended)
  BY <1>2, InvFromTable DEF SetHostId, Inv, TypeOK
<1> QED BY <1>1, <1>2

LEMMA NextInv == Inv /\ [Next]_vars => Inv'
<1> SUFFICES ASSUME Inv, [Next]_vars PROVE Inv'
  OBVIOUS
<1>1. CASE Next
  <2> PICK c \in Controllers :
        \/ \E n \in Nsids : RsvCommand(c, n)
        \/ RsvLogPage(c)
        \/ \E extended \in BOOLEAN : SetHostId(c, extended)
    BY <1>1 DEF Next
  <2>1. CASE \E n \in Nsids : RsvCommand(c, n)
    BY <2>1, RegisterInv, AcquireInv, ReleaseInv, ReportInv DEF RsvCommand
  <2>2. CASE RsvLogPage(c) \/ \E extended \in BOOLEAN : SetHostId(c, extended)
    BY <2>2, ControllerInv
  <2> QED BY <2>1, <2>2
<1>2. CASE UNCHANGED vars
  BY <1>2 DEF vars, Inv, TypeOK, TableOK, Tables
<1> QED BY <1>1, <1>2

LEMMA InvHolds == Spec => []Inv
BY InitInv, NextInv, PTL DEF Spec

\* Every variable of the subsystem keeps its type, and the generation counter
\* its width, under every command of every host.
THEOREM TypeCorrect == Spec => []TypeOK
<1>1. Inv => TypeOK
  BY DEF Inv
<1> QED BY InvHolds, <1>1, PTL

\* A held reservation has a registered owner and a type: the access checks
\* and the release handler never meet the record they are not written for.
THEOREM HolderRegistered == Spec => []HolderIsRegistrant
<1>1. Inv => HolderIsRegistrant
  BY DEF Inv, TableOK, RecordOK, HolderIsRegistrant
<1> QED BY InvHolds, <1>1, PTL

\* A host that left a namespace leaves no key for a preemption to match.
THEOREM FreeRecordClean == Spec => []FreeRecordHasNoKey
<1>1. Inv => FreeRecordHasNoKey
  BY DEF Inv, TableOK, RecordOK, FreeRecordHasNoKey
<1> QED BY InvHolds, <1>1, PTL

-----------------------------------------------------------------------------
(* The action properties, from the invariant.                              *)

\* How a command of controller c on namespace n may change the table: other
\* namespaces keep their records, and either n's registrants and keys stay or
\* n's generation counter moves.
GenStep(n) ==
  /\ \A s \in Slots, m \in Nsids : m # n => reservations'[s][m] = reservations[s][m]
  /\ \/ \A s \in Slots : /\ reservations'[s][n].nsid = reservations[s][n].nsid
                         /\ reservations'[s][n].curr_key = reservations[s][n].curr_key
     \/ rsvStatus'[n].gen # rsvStatus[n].gen

LEMMA GenStepTracks ==
  ASSUME NEW n \in Nsids, GenStep(n), NEW m \in Nsids, Membership(m)' # Membership(m)
  PROVE  rsvStatus'[m].gen # rsvStatus[m].gen
<1>1. CASE m = n
  BY <1>1 DEF GenStep, Membership
<1>2. CASE m # n
  BY <1>2 DEF GenStep, Membership
<1> QED BY <1>1, <1>2

LEMMA CommandGenStep ==
  ASSUME Inv, NEW c \in Controllers, NEW n \in Nsids, RsvCommand(c, n)
  PROVE  GenStep(n)
<1> USE RecOK, AddGenType
<1>1. ASSUME NEW k \in {1, 2}, NEW type,
             rsvStatus' = [rsvStatus EXCEPT ![n] = [gen |-> AddGen(@.gen, k), rtype |-> type]]
      PROVE  rsvStatus'[n].gen # rsvStatus[n].gen
  BY <1>1 DEF Inv, TypeOK
<1>2. ASSUME rsvStatus' = [rsvStatus EXCEPT ![n].gen = AddGen(@, 1)]
      PROVE  rsvStatus'[n].gen # rsvStatus[n].gen
  BY <1>2 DEF Inv, TypeOK
<1>3. CASE RsvRegister(c, n)
  <2>1. rsvStatus'[n].gen # rsvStatus[n].gen
    BY <1>3, <1>2 DEF RsvRegister, RegisterKey, RegisterAgain, Unregister, Replace
  <2>2. reservations' = reservations \/ \E r : reservations' = PutRec(reservations, Slot(c), n, r)
    BY <1>3 DEF RsvRegister, RegisterKey, RegisterAgain, Unregister, Replace
  <2>3. \A s \in Slots, m \in Nsids : m # n => reservations'[s][m] = reservations[s][m]
    BY <2>2 DEF PutRec, TableOK, Tables
  <2> QED BY <2>1, <2>3 DEF GenStep
<1>4. CASE RsvAcquire(c, n)
  <2>1. CASE \E crkey \in Keys, type \in RsvTypes : Acquire(c, n, crkey, type)
    BY <2>1 DEF Acquire, GenStep, PutRec, WithReservation, Rec, TableOK, Tables
  <2>2. CASE \E type \in RsvTypes, prkey \in Keys : Preempt(c, n, type, prkey)
    <3> PICK type \in RsvTypes, prkey \in Keys : Preempt(c, n, type, prkey)
      BY <2>2
    <3>1. rsvStatus'[n].gen # rsvStatus[n].gen
      BY <1>1 DEF Preempt
    <3>2. \A s \in Slots, m \in Nsids : m # n => reservations'[s][m] = reservations[s][m]
      BY PreemptTable
    <3> QED BY <3>1, <3>2 DEF GenStep
  <2> QED BY <1>4, <2>1, <2>2 DEF RsvAcquire
<1>5. CASE RsvRelease(c, n)
  <2>1. CASE \E crkey \in Keys, type \in RsvTypes : Release(c, n, crkey, type)
    BY <2>1 DEF Release, GenStep, PutRec, WithReservation, Rec, TableOK, Tables
  <2>2. CASE \E crkey \in Keys : Clear(c, n, crkey)
    <3>1. rsvStatus'[n].gen # rsvStatus[n].gen
      BY <2>2, <1>1 DEF Clear
    <3>2. \A s \in Slots, m \in Nsids : m # n => reservations'[s][m] = reservations[s][m]
      BY <2>2 DEF Clear, UnregisterAll, PutRec, TableOK, Tables
    <3> QED BY <3>1, <3>2 DEF GenStep
  <2> QED BY <1>5, <2>1, <2>2 DEF RsvRelease
<1>6. CASE RsvReport(c, n)
  BY <1>6 DEF RsvReport, GenStep
<1> QED BY <1>3, <1>4, <1>5, <1>6 DEF RsvCommand

\* A host that reads the same generation twice (short of 2^32 changes) sees the
\* same registrants with the same keys.
THEOREM GenTracks == Spec => GenTracksRegistrants
<1> DEFINE Step == \A n \in Nsids : Membership(n)' # Membership(n)
                                      => rsvStatus'[n].gen # rsvStatus[n].gen
<1>1. Inv /\ [Next]_vars => [Step]_vars
  <2> SUFFICES ASSUME Inv, Next PROVE Step
    OBVIOUS
  <2> PICK c \in Controllers :
        \/ \E n \in Nsids : RsvCommand(c, n)
        \/ RsvLogPage(c)
        \/ \E extended \in BOOLEAN : SetHostId(c, extended)
    BY DEF Next
  <2>1. CASE \E n \in Nsids : RsvCommand(c, n)
    BY <2>1, CommandGenStep, GenStepTracks
  <2>2. CASE RsvLogPage(c) \/ \E extended \in BOOLEAN : SetHostId(c, extended)
    BY <2>2 DEF RsvLogPage, SetHostId, Membership
  <2> QED BY <2>1, <2>2
<1> QED BY InvHolds, <1>1, PTL DEF Spec, GenTracksRegistrants

-----------------------------------------------------------------------------
(* Who is evicted, and who is told.                                        *)

\* A command of a host that is not registered writes no record but its own.
LEMMA StrangerKeepsOthers ==
  ASSUME Inv, NEW c \in Controllers, NEW n \in Nsids,
         RsvCommand(c, n), ~Registered(c, n)
  PROVE  ~OthersChange(c, n)
<1> USE RecOK
<1>1. reservations' = reservations \/ \E r : reservations' = PutRec(reservations, Slot(c), n, r)
  <2>1. CASE RsvRegister(c, n)
    BY <2>1 DEF RsvRegister, RegisterKey, RegisterAgain, Unregister, Replace
  <2>2. CASE RsvAcquire(c, n)
    BY <2>2 DEF RsvAcquire, Acquire, Preempt, PreemptAllowed
  <2>3. CASE RsvRelease(c, n)
    BY <2>3 DEF RsvRelease, Release, Clear
  <2>4. CASE RsvReport(c, n)
    BY <2>4 DEF RsvReport
  <2> QED BY <2>1, <2>2, <2>3, <2>4 DEF RsvCommand
<1> QED BY <1>1 DEF OthersChange, PutRec, TableOK, Tables

\* A host that is not registered evicts nobody.
THEOREM StrangersEvictNobody == Spec => OnlyRegistrantsEvict
<1> DEFINE Step == \A c \in Controllers, n \in Nsids :
                     (~Registered(c, n) /\ OthersChange(c, n)) => ~RsvCommand(c, n)
<1>1. Inv => Step
  BY StrangerKeepsOthers
<1> HIDE DEF Step
<1>2. Inv /\ [Next]_vars => [Step]_vars
  BY <1>1
<1> QED BY InvHolds, <1>2, PTL DEF Spec, OnlyRegistrantsEvict, Step

\* The two tables of access rights agree whatever the records say.
THEOREM WritersMayRead == Spec => []WriteImpliesRead
<1>1. WriteImpliesRead
  BY DEF WriteImpliesRead, CheckWriteCmdBehavior, CheckReadCmdBehavior
<1> QED BY <1>1, PTL

\* A command posts no notice, or posts it by the registrations it leaves.
LEMMA CommandNotice ==
  ASSUME NEW c \in Controllers, NEW n \in Nsids, RsvCommand(c, n)
  PROVE  /\ mapHostId' = mapHostId
         /\ \/ rsvLog' = rsvLog
            \/ \E k \in 1..3 : rsvLog' = LogPageEvent(reservations', c, n, k)
<1>1. 1 \in 1..3 /\ 2 \in 1..3 /\ 3 \in 1..3
  OBVIOUS
<1>2. CASE RsvRegister(c, n)
  BY <1>1, <1>2 DEF RsvRegister, RegisterKey, RegisterAgain, Unregister, Replace
<1>3. CASE RsvAcquire(c, n)
  BY <1>1, <1>3, ZenonT(40) DEF RsvAcquire, Acquire, Preempt
<1>4. CASE RsvRelease(c, n)
  BY <1>1, <1>4 DEF RsvRelease, Release, Clear
<1>5. CASE RsvReport(c, n)
  BY <1>5 DEF RsvReport
<1> QED BY <1>2, <1>3, <1>4, <1>5 DEF RsvCommand

\* The hosts a command leaves registered are the ones it tells.
THEOREM NoticesReachRegistrants == Spec => NoticeReachesRegistrants
<1> DEFINE Step == \A d \in Controllers :
                     (rsvLog'[d] # rsvLog[d] /\ rsvLog'[d] # NoNotice)
                       => Registered(d, rsvLog[d].nsid)'
<1>1. ASSUME TypeOK, Next PROVE Step
  <2> SUFFICES ASSUME NEW d \in Controllers,
                      rsvLog'[d] # rsvLog[d], rsvLog'[d] # NoNotice
               PROVE  Registered(d, rsvLog[d].nsid)'
    OBVIOUS
  <2> PICK c \in Controllers :
        \/ \E n \in Nsids : RsvCommand(c, n)
        \/ RsvLogPage(c)
        \/ \E extended \in BOOLEAN : SetHostId(c, extended)
    BY <1>1 DEF Next
  <2>1. CASE \E n \in Nsids : RsvCommand(c, n)
    <3> PICK n \in Nsids : RsvCommand(c, n)
      BY <2>1
    <3> PICK k \in 1..3 : rsvLog' = LogPageEvent(reservations', c, n, k)
      BY CommandNotice
    <3>1. rsvLog'[d] = [type |-> k, nsid |-> n] /\ reservations'[Slot(d)][n].nsid = n
      BY DEF LogPageEvent
    <3>2. mapHostId' = mapHostId
      BY CommandNotice
    <3> QED BY <3>1, <3>2 DEF Registered, Rec, Slot
  <2>2. CASE RsvLogPage(c)
    BY <2>2, <1>1 DEF RsvLogPage, TypeOK
  <2>3. CASE \E extended \in BOOLEAN : SetHostId(c, extended)
    BY <2>3 DEF SetHostId
  <2> QED BY <2>1, <2>2, <2>3
<1> HIDE DEF Step
<1>2. Inv /\ [Next]_vars => [Step]_vars
  BY <1>1 DEF Inv
<1> QED BY InvHolds, <1>2, PTL DEF Spec, NoticeReachesRegistrants, Step

\* Unregistering with a key leaves no record of another controller's host with
\* that key, brings the key into no record, and spares the issuing host's one
\* when no other controller speaks for it.
LEMMA UnregisterAllByKey ==
  ASSUME NEW recs \in Tables, NEW c \in Controllers, NEW n \in Nsids,
         NEW k \in Keys \ {0}, NEW s \in Slots
  PROVE  /\ (recs[s][n].curr_key # k \/ \E d \in Controllers \ {c} : Slot(d) = s)
              => UnregisterAll(recs, c, n, k)[s][n].curr_key # k
         /\ (\A d \in Controllers \ {c} : Slot(d) # s)
              => UnregisterAll(recs, c, n, k)[s][n] = recs[s][n]
<1>1. UnregisterAll(recs, c, n, k)[s][n] =
        IF \E d \in Controllers \ {c} : Slot(d) = s /\ recs[s][n].curr_key = k
        THEN NoRecord ELSE recs[s][n]
  BY DEF UnregisterAll, Tables
<1>2. NoRecord.curr_key # k
  BY DEF NoRecord
<1> HIDE DEF UnregisterAll
<1>3. UnregisterAll(recs, c, n, k)[s][n] = NoRecord
      \/ UnregisterAll(recs, c, n, k)[s][n] = recs[s][n]
  BY <1>1
<1>4. ASSUME NEW d \in Controllers \ {c}, Slot(d) = s
      PROVE  UnregisterAll(recs, c, n, k)[s][n].curr_key # k
  BY <1>1, <1>2, <1>4
<1>5. ASSUME \A d \in Controllers \ {c} : Slot(d) # s
      PROVE  UnregisterAll(recs, c, n, k)[s][n] = recs[s][n]
  BY <1>1, <1>5
<1> QED BY <1>2, <1>3, <1>4, <1>5

\* What a preemption by key leaves, whichever value the uninitialised flag had.
LEMMA PreemptLeavesNothing ==
  ASSUME Inv, NEW c \in Controllers, NEW n \in Nsids, NEW type \in RsvTypes,
         NEW k \in Keys \ {0}, Preempt(c, n, type, k)
  PROVE  ~PreemptLeftovers(c, n, k)
<1>0. \A d \in Controllers : Slot(d) \in Slots
  BY SlotType DEF Inv
<1> DEFINE cleared == UnregisterAll(reservations, c, n, k)
           new == [cleared[Slot(c)][n] EXCEPT !.rtype = type]
           retyped == IF PreemptRetypes(c, n, k)
                      THEN PutRec(cleared, Slot(c), n, new) ELSE cleared
           twice == UnregisterAll(retyped, c, n, k)
           Alone == \A d \in Controllers \ {c} : Slot(d) # Slot(c)
<1>1. reservations' \in {retyped, twice} /\ mapHostId' = mapHostId /\ Registered(c, n)
  BY DEF Preempt, PreemptAllowed
<1>2. \A d \in Controllers : Slot(d)' = Slot(d)
  BY <1>1 DEF Slot
<1>3. cleared \in Tables
  BY UnregisterAllOK DEF Inv, TableOK
<1>4. /\ retyped \in Tables
      /\ \A t \in Slots \ {Slot(c)} : retyped[t][n] = cleared[t][n]
      /\ retyped[Slot(c)][n].nsid = cleared[Slot(c)][n].nsid
  <2>1. cleared[Slot(c)][n] \in Records
    BY <1>0, <1>3 DEF Tables
  <2>2. new \in Records /\ new.nsid = cleared[Slot(c)][n].nsid
    <3>1. type \in 0..6
      BY RsvAssumption
    <3> HIDE DEF cleared
    <3> QED BY <2>1, <3>1 DEF Records
  <2> HIDE DEF cleared, new
  <2>3. CASE PreemptRetypes(c, n, k)
    BY <1>0, <1>3, <2>2, <2>3 DEF PutRec, Tables
  <2>4. CASE ~PreemptRetypes(c, n, k)
    BY <1>3, <2>4
  <2> QED BY <2>3, <2>4
<1>5. reservations \in Tables
  BY DEF Inv, TableOK
<1>6. ASSUME NEW d \in Controllers, Slot(d) # Slot(c)
      PROVE  retyped[Slot(d)][n].curr_key # k /\ twice[Slot(d)][n].curr_key # k
  <2>1. d \in Controllers \ {c} /\ Slot(d) \in Slots \ {Slot(c)}
    BY <1>0, <1>6
  <2>2. cleared[Slot(d)][n].curr_key # k
    BY <1>5, <2>1, UnregisterAllByKey
  <2> HIDE DEF cleared
  <2>3. retyped[Slot(d)][n].curr_key # k
    <3> HIDE DEF retyped
    <3> QED BY <1>4, <2>1, <2>2
  <2> HIDE DEF retyped
  <2>4. twice[Slot(d)][n].curr_key # k
    BY <1>4, <2>1, <2>3, UnregisterAllByKey
  <2> QED BY <2>3, <2>4
<1>7. ASSUME Alone
      PROVE  retyped[Slot(c)][n].nsid = n /\ twice[Slot(c)][n].nsid = n
  <2>1. cleared[Slot(c)][n] = reservations[Slot(c)][n]
    BY <1>0, <1>5, <1>7, UnregisterAllByKey
  <2> HIDE DEF cleared, retyped
  <2>2. retyped[Slot(c)][n].nsid = n
    BY <1>1, <1>4, <2>1 DEF Registered, Rec
  <2>3. twice[Slot(c)][n] = retyped[Slot(c)][n]
    BY <1>0, <1>4, <1>7, UnregisterAllByKey
  <2> HIDE DEF twice
  <2> QED BY <2>2, <2>3
<1> HIDE DEF retyped, twice
<1>8. ~\E d \in Controllers : Slot(d) # Slot(c) /\ Rec(d, n)'.curr_key = k
  BY <1>1, <1>2, <1>6 DEF Rec
<1>9. Alone => Registered(c, n)'
  BY <1>1, <1>2, <1>7 DEF Registered, Rec
<1> QED BY <1>8, <1>9 DEF PreemptLeftovers

\* A preemption by key evicts every other host with that key and never the host
\* that asked for it.
THEOREM PreemptCorrect == Spec => PreemptOutcome
<1> DEFINE Step == \A c \in Controllers, n \in Nsids, k \in Keys \ {0} :
                     PreemptLeftovers(c, n, k)
                       => \A type \in RsvTypes : ~Preempt(c, n, type, k)
<1>1. Inv => Step
  BY PreemptLeavesNothing
<1> HIDE DEF Step
<1>2. Inv /\ [Next]_vars => [Step]_vars
  BY <1>1
<1> QED BY InvHolds, <1>2, PTL DEF Spec, PreemptOutcome, Step
=============================================================================
