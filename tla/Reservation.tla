---------------------------- MODULE Reservation ----------------------------
(***************************************************************************)
(* NVMe reservations as patches/reservations.patch adds them to a          *)
(* subsystem: hosts, each known by the host identifier it set on a         *)
(* controller, register keys with a namespace, acquire, preempt and        *)
(* release reservations of it, and are told of what others do through a    *)
(* one-entry log page.  All of the state is shared by the controllers of   *)
(* the subsystem; a command runs to its end before the next one starts,    *)
(* so each handler is one step.                                            *)
(*                                                                         *)
(* A handler that returns an error before it changed anything, a failing   *)
(* transfer of the command's data from the host included, is a stuttering  *)
(* step: the conditions of the early returns are the guards of the actions *)
(* and there is no action for the return itself.                           *)
(***************************************************************************)
EXTENDS Integers, FiniteSetsExt

CONSTANTS
  Controllers,     \* identifiers (cntlid) of the controllers plugged in
  Nsids,           \* namespace identifiers a command may name
  HostIds,         \* host identifiers a host may set
  Keys,            \* reservation keys a host may send; 0 is one of them
  RsvTypes,        \* reservation types a host may ask for
  ExtendedHosts,   \* controllers whose host may ask for 128-bit identifiers
  MaxControllers,  \* NVME_MAX_CONTROLLERS, the number of host slots
  GenModulus       \* 2^32: the generation counter is a uint32_t

ASSUME RsvAssumption ==
  /\ Controllers \subseteq Nat
  /\ Nsids \subseteq Nat \ {0}
  /\ HostIds \subseteq Nat
  /\ 0 \in HostIds                   \* map_host_id starts zeroed
  /\ Keys \subseteq Nat
  /\ 0 \in Keys                      \* a cleared record has key 0
  /\ RsvTypes \subseteq 1..6
  /\ ExtendedHosts \subseteq Controllers
  /\ MaxControllers \in Nat \ {0}
  /\ GenModulus \in Nat
  /\ GenModulus > 2                  \* Preempt adds 2

VARIABLES
  mapHostId,     \* subsys->map_host_id: the host each controller speaks for
  reservations,  \* subsys->reservations: a record per host slot and namespace
  rsvStatus,     \* ns->rsv_status of each namespace: gen and rtype
  rsvLog,        \* n->rsv_log_type and rsv_nsid while rsv_log_count is 1
  exhid          \* n->exhid: the controller was asked for 128-bit host ids

vars == <<mapHostId, reservations, rsvStatus, rsvLog, exhid>>

Slots == 0..MaxControllers - 1
Slot(c) == mapHostId[c] % MaxControllers
Rec(c, n) == reservations[Slot(c)][n]

NoRecord == [nsid |-> 0, rtype |-> 0, rstatus |-> FALSE, curr_key |-> 0]
NoNotice == [type |-> 0, nsid |-> 0]

Registered(c, n) == Rec(c, n).nsid = n
Holder(c, n) == Registered(c, n) /\ Rec(c, n).rstatus

TypeOK ==
  /\ mapHostId \in [Controllers -> HostIds]
  /\ reservations \in [Slots -> [Nsids ->
       [nsid : Nsids \cup {0}, rtype : 0..6, rstatus : BOOLEAN, curr_key : Keys]]]
  /\ rsvStatus \in [Nsids -> [gen : 0..GenModulus - 1, rtype : 0..6]]
  /\ rsvLog \in [Controllers -> [type : 0..3, nsid : Nsids \cup {0}]]
  /\ exhid \in [Controllers -> BOOLEAN]

Init ==
  /\ mapHostId = [c \in Controllers |-> 0]
  /\ reservations = [s \in Slots |-> [n \in Nsids |-> NoRecord]]
  /\ rsvStatus = [n \in Nsids |-> [gen |-> 0, rtype |-> 0]]
  /\ rsvLog = [c \in Controllers |-> NoNotice]
  /\ exhid = [c \in Controllers |-> FALSE]

-----------------------------------------------------------------------------
(* Access control: what Read, Compare, Write and Dataset Management ask.   *)

Holders(n) == {c \in Controllers : Holder(c, n)}

\* The type of the first controller, in cntlid order, that holds a reservation.
NsRsvType(n) == IF Holders(n) = {} THEN 0 ELSE Rec(Min(Holders(n)), n).rtype

CheckWriteCmdBehavior(c, n) ==
  \/ NsRsvType(n) = 0
  \/ Holder(c, n)
  \/ Registered(c, n) /\ NsRsvType(n) \notin {1, 2}

\* A registrant is refused what only a host that is not registered is.
MutantCheckReadCmdBehavior(c, n) ==
  NsRsvType(n) = 0 \/ Holder(c, n) \/ NsRsvType(n) \notin {2, 4, 6}

CheckReadCmdBehavior(c, n) ==
  \/ NsRsvType(n) = 0
  \/ Holder(c, n)
  \/ Registered(c, n) /\ NsRsvType(n) # 2
  \/ ~Registered(c, n) /\ NsRsvType(n) \notin {2, 4, 6}

-----------------------------------------------------------------------------
(* What the handlers share.                                                *)

MutantAddGenStuck(g, k) == g       \* forgets to count the change
MutantAddGenWide(g, k) == g + k    \* does not wrap

AddGen(g, k) == IF g + k >= GenModulus THEN g + k - GenModulus ELSE g + k

\* Write one record of a table of records.
PutRec(recs, s, n, r) == [recs EXCEPT ![s] = [@ EXCEPT ![n] = r]]

WithReservation(r, type, held) ==
  [nsid |-> r.nsid, rtype |-> type, rstatus |-> held, curr_key |-> r.curr_key]

\* Does not skip the controller that issued the command.
MutantUnregisterAllOwn(recs, c, n, prkey) ==
  [s \in Slots |-> [recs[s] EXCEPT ![n] =
     IF \E d \in Controllers : Slot(d) = s /\ (prkey # 0 => recs[s][n].curr_key = prkey)
     THEN NoRecord ELSE @]]

\* Resets the registration and leaves the key behind.
MutantUnregisterAllKey(recs, c, n, prkey) ==
  [s \in Slots |-> [recs[s] EXCEPT ![n] =
     IF \E d \in Controllers \ {c} :
           Slot(d) = s /\ (prkey # 0 => recs[s][n].curr_key = prkey)
     THEN [NoRecord EXCEPT !.curr_key = recs[s][n].curr_key] ELSE @]]

\* nvme_subsys_unregister_all_registrants: controller c clears the record of
\* every other controller's host, or with a key only of those that use it.
UnregisterAll(recs, c, n, prkey) ==
  [s \in Slots |-> [recs[s] EXCEPT ![n] =
     IF \E d \in Controllers \ {c} :
           Slot(d) = s /\ (prkey # 0 => recs[s][n].curr_key = prkey)
     THEN NoRecord ELSE @]]

\* Tells every other controller, registered or not.
MutantLogPageEvent(recs, c, n, type) ==
  [d \in Controllers |-> IF d # c THEN [type |-> type, nsid |-> n] ELSE rsvLog[d]]

\* nvme_rsv_log_page_event: the other controllers whose host is registered
\* in recs get the notice, which replaces an unread one.
LogPageEvent(recs, c, n, type) ==
  [d \in Controllers |->
     IF d # c /\ recs[Slot(d)][n].nsid = n
     THEN [type |-> type, nsid |-> n] ELSE rsvLog[d]]

-----------------------------------------------------------------------------
(* Reservation Register: actions 0 (register), 1 (unregister), 2 (replace) *)

RegisterKey(c, n, nrkey) ==
  /\ ~Registered(c, n)
  /\ reservations' = PutRec(reservations, Slot(c), n,
       [nsid |-> n, rtype |-> 0, rstatus |-> FALSE, curr_key |-> nrkey])
  /\ rsvStatus' = [rsvStatus EXCEPT ![n].gen = AddGen(@, 1)]
  /\ UNCHANGED <<mapHostId, rsvLog, exhid>>

RegisterAgain(c, n, nrkey) ==
  /\ Registered(c, n) /\ Rec(c, n).curr_key = nrkey
  /\ rsvStatus' = [rsvStatus EXCEPT ![n].gen = AddGen(@, 1)]
  /\ UNCHANGED <<mapHostId, reservations, rsvLog, exhid>>

KeyAccepted(c, n, iekey, crkey) ==
  Registered(c, n) /\ (IF iekey THEN TRUE ELSE Rec(c, n).curr_key = crkey)

Unregister(c, n, iekey, crkey) ==
  /\ KeyAccepted(c, n, iekey, crkey)
  /\ LET recs == PutRec(reservations, Slot(c), n, NoRecord) IN
       /\ reservations' = recs
       /\ rsvLog' = IF Holder(c, n) /\ Rec(c, n).rtype \in {3, 4}
                    THEN LogPageEvent(recs, c, n, 2) ELSE rsvLog
  /\ rsvStatus' = [rsvStatus EXCEPT ![n].gen = AddGen(@, 1)]
  /\ UNCHANGED <<mapHostId, exhid>>

Replace(c, n, iekey, crkey, nrkey) ==
  /\ KeyAccepted(c, n, iekey, crkey)
  /\ reservations' = PutRec(reservations, Slot(c), n,
                            [Rec(c, n) EXCEPT !.curr_key = nrkey])
  /\ rsvStatus' = [rsvStatus EXCEPT ![n].gen = AddGen(@, 1)]
  /\ UNCHANGED <<mapHostId, rsvLog, exhid>>

RsvRegister(c, n) ==
  \/ \E nrkey \in Keys : RegisterKey(c, n, nrkey) \/ RegisterAgain(c, n, nrkey)
  \/ \E iekey \in BOOLEAN, crkey \in Keys :
       \/ Unregister(c, n, iekey, crkey)
       \/ \E nrkey \in Keys : Replace(c, n, iekey, crkey, nrkey)

-----------------------------------------------------------------------------
(* Reservation Acquire: actions 0 (acquire), 1 and 2 (preempt)             *)

MutantAcquire(c, n, crkey, type) ==   \* takes the reservation unregistered
  /\ ~Rec(c, n).rstatus
  /\ reservations' = PutRec(reservations, Slot(c), n,
                            WithReservation(Rec(c, n), type, TRUE))
  /\ rsvStatus' = [rsvStatus EXCEPT ![n].rtype = type]
  /\ UNCHANGED <<mapHostId, rsvLog, exhid>>

\* Acquire asks whether the issuing host already holds a reservation; it
\* does not look at the other hosts' records.
Acquire(c, n, crkey, type) ==
  /\ Registered(c, n) /\ Rec(c, n).curr_key = crkey /\ ~Rec(c, n).rstatus
  /\ reservations' = PutRec(reservations, Slot(c), n,
                            WithReservation(Rec(c, n), type, TRUE))
  /\ rsvStatus' = [rsvStatus EXCEPT ![n].rtype = type]
  /\ UNCHANGED <<mapHostId, rsvLog, exhid>>

AllRegistrants(c, n) == Rec(c, n).rstatus /\ Rec(c, n).rtype \in {5, 6}

\* The preemption gives the issuing host's record the type it asked for.
PreemptRetypes(c, n, prkey) ==
  IF AllRegistrants(c, n) THEN prkey = 0 ELSE Rec(c, n).curr_key = prkey

PreemptAllowed(c, n, prkey) ==
  /\ Registered(c, n)
  /\ AllRegistrants(c, n) \/ Rec(c, n).curr_key = prkey \/ prkey # 0

\* The handler never reads crkey.  is_rsv_holder is set only when the host
\* holds the reservation, else it has whatever the stack holds (the flag
\* decides whether the other registrants are cleared a second time).
\* is_rsv_changed, equally unset, decides whether notice 2 is posted to the
\* controllers that notice 1 then reaches in its place.
Preempt(c, n, type, prkey) ==
  /\ PreemptAllowed(c, n, prkey)
  /\ rsvStatus' = [rsvStatus EXCEPT ![n] =
       [gen |-> AddGen(@.gen, 2),
        rtype |-> IF PreemptRetypes(c, n, prkey) THEN type ELSE @.rtype]]
  /\ \E isHolder \in (IF Rec(c, n).rstatus THEN {TRUE} ELSE BOOLEAN) :
       LET cleared == UnregisterAll(reservations, c, n, prkey)
           retyped == IF PreemptRetypes(c, n, prkey)
                      THEN PutRec(cleared, Slot(c), n,
                                  [cleared[Slot(c)][n] EXCEPT !.rtype = type])
                      ELSE cleared
           recs == IF isHolder THEN retyped ELSE UnregisterAll(retyped, c, n, prkey)
       IN /\ reservations' = recs
          /\ rsvLog' = LogPageEvent(recs, c, n, 1)
  /\ UNCHANGED <<mapHostId, exhid>>

RsvAcquire(c, n) ==
  \/ \E crkey \in Keys, type \in RsvTypes : Acquire(c, n, crkey, type)
  \/ \E type \in RsvTypes, prkey \in Keys : Preempt(c, n, type, prkey)

-----------------------------------------------------------------------------
(* Reservation Release: actions 0 (release) and 1 (clear)                  *)

Release(c, n, crkey, type) ==
  /\ Rec(c, n).curr_key = crkey /\ Rec(c, n).rstatus /\ Rec(c, n).rtype = type
  /\ LET recs == PutRec(reservations, Slot(c), n,
                        WithReservation(Rec(c, n), 0, FALSE))
     IN /\ reservations' = recs
        /\ rsvLog' = LogPageEvent(recs, c, n, 2)
  /\ rsvStatus' = [rsvStatus EXCEPT ![n].rtype = 0]
  /\ UNCHANGED <<mapHostId, exhid>>

MutantClear(c, n, crkey) ==   \* compares the key of a host that is not registered
  /\ Rec(c, n).curr_key = crkey
  /\ LET recs == UnregisterAll(PutRec(reservations, Slot(c), n, NoRecord), c, n, 0)
     IN /\ reservations' = recs
        /\ rsvLog' = LogPageEvent(recs, c, n, 3)
  /\ rsvStatus' = [rsvStatus EXCEPT ![n] = [gen |-> AddGen(@.gen, 1), rtype |-> 1]]
  /\ UNCHANGED <<mapHostId, exhid>>

Clear(c, n, crkey) ==
  /\ Registered(c, n) /\ Rec(c, n).curr_key = crkey
  /\ LET recs == UnregisterAll(PutRec(reservations, Slot(c), n, NoRecord), c, n, 0)
     IN /\ reservations' = recs
        /\ rsvLog' = LogPageEvent(recs, c, n, 3)
  /\ rsvStatus' = [rsvStatus EXCEPT ![n] = [gen |-> AddGen(@.gen, 1), rtype |-> 1]]
  /\ UNCHANGED <<mapHostId, exhid>>

RsvRelease(c, n) ==
  \/ \E crkey \in Keys, type \in RsvTypes : Release(c, n, crkey, type)
  \/ \E crkey \in Keys : Clear(c, n, crkey)

-----------------------------------------------------------------------------
(* Reservation Report, the notification log page and Set Features          *)

ReportedControllers(n) == {c \in Controllers : Registered(c, n)}

\* A report forgets the reservation type of a namespace without registrants.
ReportedType(n) == IF ReportedControllers(n) = {} THEN 0 ELSE rsvStatus[n].rtype

\* The rest of its data is computed from the records and sent, not kept.
RsvReport(c, n) ==
  /\ ~exhid[c]
  /\ rsvStatus' = [rsvStatus EXCEPT ![n].rtype = ReportedType(n)]
  /\ UNCHANGED <<mapHostId, reservations, rsvLog, exhid>>

\* Reading the log page consumes the notice, even when the transfer fails.
RsvLogPage(c) ==
  /\ rsvLog' = [rsvLog EXCEPT ![c] = NoNotice]
  /\ UNCHANGED <<mapHostId, reservations, rsvStatus, exhid>>

\* Set Features, Host Identifier.  EXHID is stored before it is refused
\* (id_ctrl.ctratt bit 0 is clear: 64-bit host identifiers only) and before
\* the transfer of the identifier can fail.  The feature is not a namespace
\* one, so the column of records the handler moves and clears is that of
\* nsid 0, which holds none: the old slot keeps its records.
SetHostId(c, extended) ==
  /\ extended => c \in ExtendedHosts
  /\ exhid' = [exhid EXCEPT ![c] = extended]
  /\ \/ ~extended /\ \E h \in HostIds : mapHostId' = [mapHostId EXCEPT ![c] = h]
     \/ UNCHANGED mapHostId
  /\ UNCHANGED <<reservations, rsvStatus, rsvLog>>

-----------------------------------------------------------------------------

RsvCommand(c, n) ==
  RsvRegister(c, n) \/ RsvAcquire(c, n) \/ RsvRelease(c, n) \/ RsvReport(c, n)

Next ==
  \E c \in Controllers :
    \/ \E n \in Nsids : RsvCommand(c, n)
    \/ RsvLogPage(c)
    \/ \E extended \in BOOLEAN : SetHostId(c, extended)

Spec == Init /\ [][Next]_vars

-----------------------------------------------------------------------------
(* Properties                                                              *)

\* A record that carries a reservation belongs to a registered host and has a
\* type: nvme_ns_rsv_type never takes the 0 of a held record for "not
\* acquired", and nvme_rsv_release never reads is_rsv_released unset.
HolderIsRegistrant ==
  \A s \in Slots, n \in Nsids :
    LET r == reservations[s][n] IN r.rstatus => r.nsid = n /\ r.rtype # 0

\* A record nobody is registered with is free of the old host's key, so a
\* preemption by key or a release can never match a host that has left.
FreeRecordHasNoKey ==
  \A s \in Slots, n \in Nsids :
    LET r == reservations[s][n] IN r.nsid # n => r.nsid = 0 /\ r.curr_key = 0

\* The write table and the read table, coded apart, agree on the order of
\* rights: whoever may write a namespace may read it.
WriteImpliesRead ==
  \A c \in Controllers, n \in Nsids :
    CheckWriteCmdBehavior(c, n) => CheckReadCmdBehavior(c, n)

Membership(n) == [s \in Slots |-> <<reservations[s][n].nsid, reservations[s][n].curr_key>>]

\* Who is registered with a namespace, and with which key, changes only
\* together with its generation counter: a host that polls gen in the report
\* misses no change.
GenTracksRegistrants ==
  [][\A n \in Nsids : Membership(n)' # Membership(n)
                        => rsvStatus'[n].gen # rsvStatus[n].gen]_vars

\* What a command of controller c may not touch unless its host is registered.
OthersChange(c, n) ==
  \E s \in Slots \ {Slot(c)} : reservations'[s][n] # reservations[s][n]

\* A host that is not registered with a namespace takes no other host's
\* registration or reservation of it away, whatever it sends.
OnlyRegistrantsEvict ==
  [][\A c \in Controllers, n \in Nsids :
       (~Registered(c, n) /\ OthersChange(c, n)) => ~RsvCommand(c, n)]_vars

\* What a preemption by key k may not leave: another host registered with k, or
\* the issuing host, for which no other controller speaks, not registered.
PreemptLeftovers(c, n, k) ==
  \/ \E d \in Controllers : Slot(d) # Slot(c) /\ Rec(d, n)'.curr_key = k
  \/ ~Registered(c, n)' /\ \A d \in Controllers \ {c} : Slot(d) # Slot(c)

\* A preemption by key leaves no other host that a controller speaks for
\* registered with that key, and never the issuing host unregistered, unless
\* another controller speaks for the issuing host too.
PreemptOutcome ==
  [][\A c \in Controllers, n \in Nsids, k \in Keys \ {0} :
       PreemptLeftovers(c, n, k)
         => \A type \in RsvTypes : ~Preempt(c, n, type, k)]_vars

\* A notice goes to a controller whose host is registered when the command
\* that caused it is over; a host the command evicted is told nothing.
NoticeReachesRegistrants ==
  [][\A d \in Controllers :
       (rsvLog'[d] # rsvLog[d] /\ rsvLog'[d] # NoNotice)
         => Registered(d, rsvLog[d].nsid)']_vars

\* An exclusive type (WRITE_EXCLUSIVE, EXCLUSIVE_ACCESS) means one holder: when
\* such a reservation is in force no two hosts hold one.  The code does not
\* keep this: nvme_rsv_acquire never looks at another host's record.
ExclusiveHasOneHolder ==
  \A n \in Nsids :
    NsRsvType(n) \in {1, 2} =>
      \A c, d \in Holders(n) : Slot(c) = Slot(d)

\* The type a report shows is 0 when no reservation is held, which is what 0
\* stands for in nvme_ns_rsv_type.  The code does not keep this: Clear leaves
\* type 1 behind, and unregistering the holder leaves the type it had.
ReportedTypeIsHeld ==
  \A n \in Nsids : NsRsvType(n) = 0 => ReportedType(n) = 0
=============================================================================
