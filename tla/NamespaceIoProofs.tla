-------------------------- MODULE NamespaceIoProofs --------------------------
(***************************************************************************)
(* Proofs about NamespaceIo for any number of blocks, contents, requests   *)
(* and lists of source ranges: write protection stands, and, for a careful *)
(* host, reads are regular.                                                *)
(*                                                                         *)
(* That reads are regular needs to be known of the medium beforehand: an   *)
(* unmarked block is as the last writes to end, or one that is out, have   *)
(* left it (MediumKnown), and one a write is through with is as that write *)
(* or one beside it has left it, ended or not (BlocksMoved).               *)
(***************************************************************************)
EXTENDS NamespaceIo, FiniteSetTheorems, SequenceTheorems, TLAPS

Written == Contents \cup {Uncor}
Histories == [Blocks -> SUBSET Written]
WriteOps == {"write", "dsm", "copyout"}

-----------------------------------------------------------------------------
(* Write protection                                                        *)

ProtectionInv == nwps \in {0, 1, 3} /\ (nsattr = 1 <=> nwps > 0) /\ nsattr \in {0, 1}

LEMMA ProtectionInit == IoInit => ProtectionInv
BY DEF IoInit, ProtectionInv

LEMMA ProtectionStep ==
  ASSUME ProtectionInv, [IoNext]_ioVars
  PROVE  ProtectionInv' /\ ((nwps = 3 => nwps' = 3) /\ (nsattr' = 1 <=> nwps' > 0))
<1> USE DEF ProtectionInv
<1>1. CASE UNCHANGED <<nwps, nsattr>>
  BY <1>1
<1>2. ASSUME NEW state \in 0..3, SetProtection(state)
      PROVE  ProtectionInv' /\ ((nwps = 3 => nwps' = 3) /\ (nsattr' = 1 <=> nwps' > 0))
  BY <1>2 DEF SetProtection, MayProtect, Protections
<1>3. CASE PowerCycle
  BY <1>3 DEF PowerCycle
<1> QED
  BY <1>1, <1>2, <1>3
  DEF IoNext, ioVars, BlockStep, Read, Write, Dsm, Copy, WriteUncor, WriteBlock,
      ReadDone, WriteDone, WriteFails, CopyIn, CopyOutDone

\* Permanent protection is never lifted and the attribute follows the feature.
THEOREM ProtectionCorrect == IoSpec => ProtectionStands
<1>1. IoInit => ProtectionInv
  BY ProtectionInit
<1>2. ProtectionInv /\ [IoNext]_ioVars => ProtectionInv'
  BY ProtectionStep
<1>3. ProtectionInv /\ [IoNext]_ioVars
        => [(nwps = 3 => nwps' = 3) /\ (nsattr' = 1 <=> nwps' > 0)]_ioVars
  BY ProtectionStep
<1> QED BY <1>1, <1>2, <1>3, PTL DEF IoSpec, ProtectionStands

-----------------------------------------------------------------------------
(* Extents and the operators of the history                                *)

LEMMA ExtentFacts ==
  ASSUME NEW lba \in Extents
  PROVE  lba \subseteq Blocks /\ lba # {} /\ First(lba) \in lba /\ First(lba) \in Int
<1>1. PICK a \in Blocks, b \in Blocks : lba = a..b /\ lba # {}
  BY DEF Extents
<1>2. a \in lba /\ \A c \in lba : a <= c
  BY <1>1 DEF Blocks
<1>3. First(lba) \in lba
  BY <1>2 DEF First
<1> QED BY <1>1, <1>3, NamespaceIoAssumption DEF Blocks

\* Only the history differs.
Same(p, q) ==
  /\ p.op = q.op /\ p.lba = q.lba /\ p.data = q.data /\ p.todo = q.todo
  /\ p.ranges = q.ranges /\ p.slba = q.slba

LEMMA SeenChanged ==
  ASSUME NEW rq \in RequestSet, NEW seen \in Histories
  PROVE  LET new == [rq EXCEPT !.seen = seen]
         IN new \in RequestSet /\ Same(new, rq) /\ new.seen = seen
BY DEF RequestSet, Same, Histories, Written

\* What Begun makes of rqs.
AllBegun(new, rqs, lba, data) ==
  /\ new \in [Requests -> RequestSet]
  /\ \A q \in Requests :
       /\ Same(new[q], rqs[q])
       /\ \A b \in Blocks : new[q].seen[b] =
            IF rqs[q].op = "read" /\ b \in lba \cap rqs[q].lba
            THEN rqs[q].seen[b] \cup {data[b]} ELSE rqs[q].seen[b]

LEMMA BegunFacts ==
  ASSUME NEW rqs \in [Requests -> RequestSet], NEW lba \in SUBSET Blocks,
         NEW data \in [Blocks -> Written]
  PROVE  AllBegun(Begun(rqs, lba, data), rqs, lba, data)
<1> DEFINE new == Begun(rqs, lba, data)
<1> SUFFICES ASSUME NEW q \in Requests
             PROVE  /\ new[q] \in RequestSet /\ Same(new[q], rqs[q])
                    /\ \A b \in Blocks : new[q].seen[b] =
                         IF rqs[q].op = "read" /\ b \in lba \cap rqs[q].lba
                         THEN rqs[q].seen[b] \cup {data[b]} ELSE rqs[q].seen[b]
  BY DEF Begun, AllBegun
<1> DEFINE rq == rqs[q]
           past == [b \in Blocks |-> IF b \in lba \cap rq.lba
                                     THEN rq.seen[b] \cup {data[b]} ELSE rq.seen[b]]
<1>1. rq \in RequestSet
  OBVIOUS
<1>2. past \in Histories
  BY <1>1 DEF RequestSet, Histories, Written
<1>3. new[q] = IF rq.op = "read" THEN [rq EXCEPT !.seen = past] ELSE rq
  BY <1>1 DEF Begun, RequestSet
<1> HIDE DEF rq, past, new
<1>4. CASE rq.op = "read"
  <2>1. new[q] = [rq EXCEPT !.seen = past]
    BY <1>3, <1>4
  <2>2. new[q] \in RequestSet /\ Same(new[q], rq) /\ new[q].seen = past
    BY <1>1, <1>2, <2>1, SeenChanged
  <2> QED BY <1>4, <2>2 DEF past, rq
<1>5. CASE ~(rq.op = "read")
  BY <1>1, <1>3, <1>5 DEF rq, Same
<1> QED BY <1>4, <1>5

\* What Covered makes of rqs.
AllCovered(new, rqs, lba, data, seen) ==
  /\ new \in [Requests -> RequestSet]
  /\ \A q \in Requests :
       /\ Same(new[q], rqs[q])
       /\ \A b \in Blocks : new[q].seen[b] =
            IF rqs[q].op \in WriteOps /\ b \in lba \cap rqs[q].lba
            THEN (rqs[q].seen[b] \cap seen[b]) \cup {data[b]} ELSE rqs[q].seen[b]

LEMMA CoveredFacts ==
  ASSUME NEW rqs \in [Requests -> RequestSet], NEW lba \in SUBSET Blocks,
         NEW data \in [Blocks -> Written], NEW seen \in Histories
  PROVE  AllCovered(Covered(rqs, lba, data, seen), rqs, lba, data, seen)
<1> DEFINE new == Covered(rqs, lba, data, seen)
<1> SUFFICES ASSUME NEW q \in Requests
             PROVE  /\ new[q] \in RequestSet /\ Same(new[q], rqs[q])
                    /\ \A b \in Blocks : new[q].seen[b] =
                         IF rqs[q].op \in WriteOps /\ b \in lba \cap rqs[q].lba
                         THEN (rqs[q].seen[b] \cap seen[b]) \cup {data[b]} ELSE rqs[q].seen[b]
  BY DEF Covered, AllCovered
<1> DEFINE rq == rqs[q]
           past == [b \in Blocks |-> IF b \in lba \cap rq.lba
                                     THEN (rq.seen[b] \cap seen[b]) \cup {data[b]} ELSE rq.seen[b]]
<1>1. rq \in RequestSet
  OBVIOUS
<1>2. past \in Histories
  BY <1>1 DEF RequestSet, Histories, Written
<1>3. new[q] = IF rq.op \in WriteOps THEN [rq EXCEPT !.seen = past] ELSE rq
  BY <1>1 DEF Covered, RequestSet, WriteOps
<1> HIDE DEF rq, past, new
<1>4. CASE rq.op \in WriteOps
  <2>1. new[q] = [rq EXCEPT !.seen = past]
    BY <1>3, <1>4
  <2>2. new[q] \in RequestSet /\ Same(new[q], rq) /\ new[q].seen = past
    BY <1>1, <1>2, <2>1, SeenChanged
  <2> QED BY <1>4, <2>2 DEF past, rq
<1>5. CASE ~(rq.op \in WriteOps)
  BY <1>1, <1>3, <1>5 DEF rq, Same
<1> QED BY <1>4, <1>5

\* What MayHave makes of rqs.
AllMayHave(new, rqs, lba, data) ==
  /\ new \in [Requests -> RequestSet]
  /\ \A q \in Requests :
       /\ Same(new[q], rqs[q])
       /\ \A b \in Blocks : new[q].seen[b] =
            IF rqs[q].op \in WriteOps /\ b \in lba \cap rqs[q].lba
            THEN rqs[q].seen[b] \cup {data[b]} ELSE rqs[q].seen[b]

LEMMA MayHaveFacts ==
  ASSUME NEW rqs \in [Requests -> RequestSet], NEW lba \in SUBSET Blocks,
         NEW data \in [Blocks -> Written]
  PROVE  AllMayHave(MayHave(rqs, lba, data), rqs, lba, data)
<1> DEFINE new == MayHave(rqs, lba, data)
<1> SUFFICES ASSUME NEW q \in Requests
             PROVE  /\ new[q] \in RequestSet /\ Same(new[q], rqs[q])
                    /\ \A b \in Blocks : new[q].seen[b] =
                         IF rqs[q].op \in WriteOps /\ b \in lba \cap rqs[q].lba
                         THEN rqs[q].seen[b] \cup {data[b]} ELSE rqs[q].seen[b]
  BY DEF MayHave, AllMayHave
<1> DEFINE rq == rqs[q]
           past == [b \in Blocks |-> IF b \in lba \cap rq.lba
                                     THEN rq.seen[b] \cup {data[b]} ELSE rq.seen[b]]
<1>1. rq \in RequestSet
  OBVIOUS
<1>2. past \in Histories
  BY <1>1 DEF RequestSet, Histories, Written
<1>3. new[q] = IF rq.op \in WriteOps THEN [rq EXCEPT !.seen = past] ELSE rq
  BY <1>1 DEF MayHave, RequestSet, WriteOps
<1> HIDE DEF rq, past, new
<1>4. CASE rq.op \in WriteOps
  <2>1. new[q] = [rq EXCEPT !.seen = past]
    BY <1>3, <1>4
  <2>2. new[q] \in RequestSet /\ Same(new[q], rq) /\ new[q].seen = past
    BY <1>1, <1>2, <2>1, SeenChanged
  <2> QED BY <1>4, <2>2 DEF past, rq
<1>5. CASE ~(rq.op \in WriteOps)
  BY <1>1, <1>3, <1>5 DEF rq, Same
<1> QED BY <1>4, <1>5

-----------------------------------------------------------------------------
(* The invariant                                                           *)

\* A write has blocks to move, of its own, and nothing else has; a copy has
\* ranges left, and no history while it reads.
Shapes ==
  \A r \in Requests :
    /\ requests[r].todo \subseteq requests[r].lba
    /\ requests[r].op \notin WriteOps => requests[r].todo = {}
    /\ requests[r].op = "copyin" => \A b \in Blocks : requests[r].seen[b] = {}
    /\ requests[r].op \in {"copyin", "copyout"} => requests[r].ranges # <<>>

MediumKnown ==
  \A b \in Blocks \ uncorrectable :
    media[b] \in latest[b] \/ \E w \in Writers(b) : media[b] = requests[w].data[b]

\* What write w may find in block b when it is through with it.
Beside(w, b) ==
  \/ media[b] = requests[w].data[b]
  \/ media[b] \in requests[w].seen[b]
  \/ \E v \in Writers(b) \ {w} : media[b] = requests[v].data[b]

BlocksMoved ==
  \A b \in Blocks : \A w \in Writers(b) : b \notin requests[w].todo => Beside(w, b)

ReadersKnow ==
  \A r \in Requests : requests[r].op = "read" =>
    \A b \in requests[r].lba :
      /\ latest[b] \subseteq requests[r].seen[b]
      /\ \A w \in Writers(b) : requests[w].data[b] \in requests[r].seen[b]

SeenIsLatest ==
  \A b \in Blocks : \A w \in Writers(b) : requests[w].seen[b] \subseteq latest[b]

IoInv ==
  IoTypeOK /\ Shapes /\ MediumKnown /\ BlocksMoved /\ ReadersKnow /\ SeenIsLatest
    /\ ReadsAreRegular

USE DEF Histories, Written

LEMMA IoInitInv == IoInit => IoInv
<1> SUFFICES ASSUME IoInit PROVE IoInv
  OBVIOUS
<1>1. NoRequest \in RequestSet
  BY NamespaceIoAssumption DEF NoRequest, RequestSet
<1>2. IoTypeOK
  BY <1>1, NamespaceIoAssumption DEF IoInit, IoTypeOK
<1>3. \A r \in Requests : requests[r] = NoRequest
  BY DEF IoInit
<1>4. Shapes
  BY <1>3 DEF Shapes, NoRequest, WriteOps
<1>5. \A b \in Blocks : media[b] \in latest[b] /\ Writers(b) = {}
  BY <1>3 DEF IoInit, Writers, NoRequest
<1>6. MediumKnown /\ BlocksMoved /\ ReadersKnow /\ SeenIsLatest
  BY <1>3, <1>5 DEF MediumKnown, BlocksMoved, ReadersKnow, SeenIsLatest, NoRequest
<1>7. ReadsAreRegular
  BY <1>3 DEF ReadsAreRegular, NoRequest, IoInit
<1> QED BY <1>2, <1>4, <1>6, <1>7 DEF IoInv

\* What a write that goes out, or ends, does to the other requests.
SeenGrows(q, lba, data) ==
  /\ Same(requests'[q], requests[q])
  /\ \A b \in Blocks : requests'[q].seen[b] =
       IF requests[q].op = "read" /\ b \in lba \cap requests[q].lba
       THEN requests[q].seen[b] \cup {data[b]} ELSE requests[q].seen[b]

\* A write goes out in place of a request that neither reads nor writes.
LEMMA WriteBegins ==
  ASSUME IoInv, NEW r \in Requests, requests[r].op \in {"none", "copyin"},
         NEW lba \in SUBSET Blocks, NEW data,
         requests' \in [Requests -> RequestSet],
         requests'[r].op \in WriteOps, requests'[r].lba = lba, requests'[r].todo = lba,
         requests'[r].data = data, \A b \in Blocks : requests'[r].seen[b] = {},
         requests'[r].op = "copyout" => requests'[r].ranges # <<>>,
         \A q \in Requests \ {r} : SeenGrows(q, lba, data),
         UNCHANGED <<uncorrectable, nwps, nsattr, media, latest>>
  PROVE  IoInv'
<1> USE DEF IoInv
<1>1. /\ \A q \in Requests : requests'[q].lba \subseteq Blocks
      /\ IoTypeOK'
  BY DEF IoTypeOK, RequestSet
<1>2. Shapes'
  <2> SUFFICES ASSUME NEW q \in Requests
               PROVE  /\ requests'[q].todo \subseteq requests'[q].lba
                      /\ requests'[q].op \notin WriteOps => requests'[q].todo = {}
                      /\ requests'[q].op = "copyin" => \A b \in Blocks : requests'[q].seen[b] = {}
                      /\ requests'[q].op \in {"copyin", "copyout"} => requests'[q].ranges # <<>>
    BY DEF Shapes
  <2>1. CASE q = r
    BY <2>1 DEF WriteOps
  <2>2. CASE q # r
    <3>1. /\ requests'[q].todo = requests[q].todo /\ requests'[q].lba = requests[q].lba
          /\ requests'[q].op = requests[q].op /\ requests'[q].ranges = requests[q].ranges
      BY <2>2 DEF SeenGrows, Same
    <3>2. requests[q].op = "copyin" => \A b \in Blocks : requests'[q].seen[b] = requests[q].seen[b]
      BY <2>2 DEF SeenGrows
    <3> QED BY <3>1, <3>2 DEF Shapes
  <2> QED BY <2>1, <2>2
<1>3. \A b \in Blocks :
        Writers(b)' = IF b \in lba THEN Writers(b) \cup {r} ELSE Writers(b)
  <2> SUFFICES ASSUME NEW b \in Blocks, NEW q \in Requests
               PROVE  q \in Writers(b)' <=> q \in Writers(b) \/ (b \in lba /\ q = r)
    BY DEF Writers
  <2>1. CASE q = r
    BY <2>1 DEF Writers, WriteOps
  <2>2. CASE q # r
    BY <2>2 DEF Writers, SeenGrows, Same
  <2> QED BY <2>1, <2>2
<1>4. \A b \in Blocks : \A w \in Writers(b) :
        /\ w \in Requests \ {r}
        /\ requests'[w].data = requests[w].data
        /\ requests'[w].seen[b] = requests[w].seen[b]
        /\ requests'[w].todo = requests[w].todo
  BY DEF Writers, SeenGrows, Same
<1>5. MediumKnown'
  BY <1>3, <1>4 DEF MediumKnown
<1>6. BlocksMoved'
  BY <1>3, <1>4 DEF BlocksMoved, Beside
<1>7. SeenIsLatest'
  BY <1>3, <1>4 DEF SeenIsLatest
<1>8. \A q \in Requests : requests'[q].op = "read" =>
         /\ requests[q].op = "read" /\ requests'[q].lba = requests[q].lba
         /\ \A b \in requests[q].lba :
              /\ requests[q].seen[b] \subseteq requests'[q].seen[b]
              /\ b \in lba => data[b] \in requests'[q].seen[b]
  <2> SUFFICES ASSUME NEW q \in Requests, requests'[q].op = "read"
               PROVE  /\ requests[q].op = "read" /\ requests'[q].lba = requests[q].lba
                      /\ \A b \in requests[q].lba :
                           /\ requests[q].seen[b] \subseteq requests'[q].seen[b]
                           /\ b \in lba => data[b] \in requests'[q].seen[b]
    OBVIOUS
  <2>1. q # r
    BY DEF WriteOps
  <2>2. SeenGrows(q, lba, data) /\ q \in Requests
    BY <2>1, <1>1
  <2> QED BY <2>1, <2>2, <1>1, ZenonT(40) DEF SeenGrows, Same
<1>9. ReadersKnow'
  BY <1>1, <1>3, <1>4, <1>8 DEF ReadersKnow
<1>10. ReadsAreRegular'
  BY <1>8 DEF ReadsAreRegular
<1> QED BY <1>1, <1>2, <1>5, <1>6, <1>7, <1>9, <1>10

\* A write ends: a request that does not write takes its place, and what ended
\* before it went out is covered.
SeenCovered(q, lba, data, seen) ==
  /\ Same(requests'[q], requests[q])
  /\ \A b \in Blocks : requests'[q].seen[b] =
       IF requests[q].op \in WriteOps /\ b \in lba \cap requests[q].lba
       THEN (requests[q].seen[b] \cap seen[b]) \cup {data[b]} ELSE requests[q].seen[b]

EndsWrite(r) ==
  /\ requests[r].op \in WriteOps /\ requests[r].todo = {}
  /\ requests' \in [Requests -> RequestSet]
  /\ requests'[r].op \in {"none", "copyin"} /\ requests'[r].todo = {}
  /\ \A b \in Blocks : requests'[r].seen[b] = {}
  /\ requests'[r].op = "copyin" => requests'[r].ranges # <<>>
  /\ \A q \in Requests \ {r} :
       SeenCovered(q, requests[r].lba, requests[r].data, requests[r].seen)
  /\ uncorrectable' = uncorrectable \ requests[r].lba
  /\ latest' = [b \in Blocks |-> IF b \in requests[r].lba
                  THEN requests[r].seen[b] \cup {requests[r].data[b]} ELSE latest[b]]
  /\ UNCHANGED <<nwps, nsattr, media>>

LEMMA WriteEnds ==
  ASSUME IoInv, NEW r \in Requests, EndsWrite(r)
  PROVE  IoInv'
<1> DEFINE lba == requests[r].lba
           data == requests[r].data
           seen == requests[r].seen
<1>1. /\ requests[r] \in RequestSet /\ lba \subseteq Blocks
      /\ data \in [Blocks -> Contents] /\ seen \in Histories
      /\ \A q \in Requests : requests'[q].lba \subseteq Blocks
  BY DEF IoTypeOK, RequestSet, EndsWrite, IoInv
<1>2. IoTypeOK'
  <2>1. latest' \in Histories
    BY <1>1 DEF IoTypeOK, IoInv, EndsWrite
  <2> QED BY <2>1 DEF IoTypeOK, IoInv, EndsWrite
<1>3. Shapes'
  <2> SUFFICES ASSUME NEW q \in Requests
               PROVE  /\ requests'[q].todo \subseteq requests'[q].lba
                      /\ requests'[q].op \notin WriteOps => requests'[q].todo = {}
                      /\ requests'[q].op = "copyin" => \A b \in Blocks : requests'[q].seen[b] = {}
                      /\ requests'[q].op \in {"copyin", "copyout"} => requests'[q].ranges # <<>>
    BY DEF Shapes
  <2>1. CASE q = r
    BY <2>1 DEF EndsWrite
  <2>2. CASE q # r
    <3>1. /\ requests'[q].todo = requests[q].todo /\ requests'[q].lba = requests[q].lba
          /\ requests'[q].op = requests[q].op /\ requests'[q].ranges = requests[q].ranges
          /\ requests[q].op = "copyin" => \A b \in Blocks : requests'[q].seen[b] = requests[q].seen[b]
      BY <2>2 DEF SeenCovered, Same, WriteOps, EndsWrite
    <3> QED BY <3>1 DEF Shapes, IoInv
  <2> QED BY <2>1, <2>2
<1>4. \A b \in Blocks :
        Writers(b)' = Writers(b) \ {r} /\ (r \in Writers(b) <=> b \in lba)
  <2> SUFFICES ASSUME NEW b \in Blocks, NEW q \in Requests
               PROVE  /\ q \in Writers(b)' <=> q \in Writers(b) /\ q # r
                      /\ r \in Writers(b) <=> b \in lba
    BY DEF Writers
  <2>1. CASE q = r
    BY <2>1 DEF Writers, WriteOps, EndsWrite
  <2>2. CASE q # r
    BY <2>2 DEF Writers, SeenCovered, Same, WriteOps, EndsWrite
  <2> QED BY <2>1, <2>2
<1>5. \A b \in Blocks : \A w \in Writers(b) \ {r} :
        /\ w \in Requests
        /\ requests'[w].data = requests[w].data
        /\ requests'[w].todo = requests[w].todo
        /\ requests'[w].seen[b] = IF b \in lba THEN (requests[w].seen[b] \cap seen[b]) \cup {data[b]}
                                  ELSE requests[w].seen[b]
  BY DEF Writers, SeenCovered, Same, WriteOps, EndsWrite
<1>6. \A b \in Blocks :
        /\ b \in lba => latest'[b] = seen[b] \cup {data[b]} /\ b \notin uncorrectable'
        /\ b \notin lba => /\ latest'[b] = latest[b]
                           /\ b \in uncorrectable' <=> b \in uncorrectable
        /\ media'[b] = media[b]
  BY DEF EndsWrite
<1>7. \A b \in lba : Beside(r, b) /\ b \in Blocks
  BY <1>1, <1>4 DEF BlocksMoved, IoInv, EndsWrite
<1> HIDE DEF lba, data, seen
<1>8. MediumKnown'
  <2> SUFFICES ASSUME NEW b \in Blocks, b \notin uncorrectable'
               PROVE  \/ media[b] \in latest'[b]
                      \/ \E w \in Writers(b)' : media[b] = requests'[w].data[b]
    BY <1>6 DEF MediumKnown
  <2>1. CASE b \in lba
    BY <2>1, <1>4, <1>5, <1>6, <1>7, ZenonT(40) DEF Beside, data, seen
  <2>2. CASE b \notin lba
    <3>1. b \notin uncorrectable /\ latest'[b] = latest[b] /\ Writers(b)' = Writers(b)
      BY <2>2, <1>4, <1>6
    <3>2. media[b] \in latest[b] \/ \E w \in Writers(b) : media[b] = requests[w].data[b]
      BY <3>1 DEF MediumKnown, IoInv
    <3>3. \A w \in Writers(b) : requests'[w].data[b] = requests[w].data[b]
      BY <2>2, <1>4, <1>5
    <3> QED BY <3>1, <3>2, <3>3
  <2> QED BY <2>1, <2>2
<1>9. BlocksMoved'
  <2> SUFFICES ASSUME NEW b \in Blocks, NEW w \in Writers(b)', b \notin requests'[w].todo
               PROVE  \/ media[b] = requests'[w].data[b]
                      \/ media[b] \in requests'[w].seen[b]
                      \/ \E v \in Writers(b)' \ {w} : media[b] = requests'[v].data[b]
    BY <1>6 DEF BlocksMoved, Beside
  <2>1. w \in Writers(b) \ {r} /\ Beside(w, b)
    BY <1>4, <1>5, ZenonT(40) DEF BlocksMoved, IoInv
  <2>2. /\ Writers(b)' = Writers(b) \ {r}
        /\ \A v \in Writers(b)' : requests'[v].data[b] = requests[v].data[b]
    BY <1>4, <1>5
  <2>3. CASE b \in lba
    <3>1. requests'[w].seen[b] = (requests[w].seen[b] \cap seen[b]) \cup {data[b]}
      BY <2>1, <2>3, <1>5
    <3>2. \/ media[b] = data[b] \/ media[b] \in seen[b]
          \/ \E v \in Writers(b) \ {r} : media[b] = requests[v].data[b]
      BY <1>7, <2>3 DEF Beside, data, seen
    <3>3. ASSUME NEW v \in Writers(b) \ {r}, media[b] = requests[v].data[b]
          PROVE  media[b] = requests'[w].data[b]
                   \/ \E u \in Writers(b)' \ {w} : media[b] = requests'[u].data[b]
      BY <3>3, <2>2
    <3>4. \/ media[b] = requests[w].data[b] \/ media[b] \in requests[w].seen[b]
          \/ media[b] = data[b]
          \/ \E v \in Writers(b) \ {r} : media[b] = requests[v].data[b]
      BY <2>1 DEF Beside, data
    <3>5. requests'[w].data[b] = requests[w].data[b]
      BY <2>2
    <3> QED BY <3>1, <3>2, <3>3, <3>4, <3>5
  <2>4. CASE b \notin lba
    <3>1. requests'[w].seen[b] = requests[w].seen[b] /\ Writers(b)' = Writers(b)
      BY <2>1, <2>2, <2>4, <1>4, <1>5
    <3> QED BY <2>1, <2>2, <3>1 DEF Beside
  <2> QED BY <2>3, <2>4
<1>10. SeenIsLatest'
  <2> SUFFICES ASSUME NEW b \in Blocks, NEW w \in Writers(b)'
               PROVE  requests'[w].seen[b] \subseteq latest'[b]
    BY DEF SeenIsLatest
  <2>1. w \in Writers(b) \ {r} /\ requests[w].seen[b] \subseteq latest[b]
    BY <1>4 DEF SeenIsLatest, IoInv
  <2>2. CASE b \in lba
    BY <2>1, <2>2, <1>5, <1>6
  <2>3. CASE b \notin lba
    <3>1. requests'[w].seen[b] = requests[w].seen[b] /\ latest'[b] = latest[b]
      BY <2>1, <2>3, <1>5, <1>6
    <3> QED BY <2>1, <3>1
  <2> QED BY <2>2, <2>3
<1>11. \A q \in Requests : requests'[q].op = "read" =>
         /\ requests[q].op = "read" /\ requests'[q].lba = requests[q].lba
         /\ \A b \in requests[q].lba : requests[q].seen[b] = requests'[q].seen[b]
  <2> SUFFICES ASSUME NEW q \in Requests, requests'[q].op = "read"
               PROVE  /\ requests[q].op = "read" /\ requests'[q].lba = requests[q].lba
                      /\ \A b \in requests[q].lba : requests[q].seen[b] = requests'[q].seen[b]
    OBVIOUS
  <2>1. q # r
    BY DEF EndsWrite
  <2> QED BY <2>1, <1>1 DEF SeenCovered, Same, WriteOps, EndsWrite
<1>12. \A b \in lba : seen[b] \subseteq latest[b] /\ r \in Writers(b)
  BY <1>4, <1>7 DEF SeenIsLatest, seen, IoInv
<1>13. ReadersKnow'
  <2> SUFFICES ASSUME NEW q \in Requests, requests[q].op = "read", NEW b \in requests[q].lba
               PROVE  /\ latest'[b] \subseteq requests[q].seen[b]
                      /\ \A w \in Writers(b)' : requests'[w].data[b] \in requests[q].seen[b]
    BY <1>11 DEF ReadersKnow
  <2>1. /\ latest[b] \subseteq requests[q].seen[b]
        /\ \A w \in Writers(b) : requests[w].data[b] \in requests[q].seen[b]
    BY DEF ReadersKnow, IoInv
  <2>2. b \in Blocks
    BY DEF IoInv, IoTypeOK, RequestSet
  <2>3. \A w \in Writers(b)' : requests'[w].data[b] \in requests[q].seen[b]
    BY <2>1, <2>2, <1>4, <1>5
  <2>4. CASE b \in lba
    <3>1. data[b] \in requests[q].seen[b]
      BY <2>1, <2>4, <1>12 DEF data
    <3>2. latest'[b] = seen[b] \cup {data[b]} /\ seen[b] \subseteq latest[b]
      BY <2>2, <2>4, <1>6, <1>12
    <3> QED BY <2>1, <2>3, <3>1, <3>2
  <2>5. CASE b \notin lba
    BY <2>1, <2>2, <2>3, <2>5, <1>6
  <2> QED BY <2>4, <2>5
<1>14. ReadsAreRegular'
  <2>1. ASSUME NEW q \in Requests, requests'[q].op = "read", NEW b \in requests'[q].lba
        PROVE  media'[b] \in requests'[q].seen[b]
    <3>1. requests[q].op = "read" /\ b \in requests[q].lba /\ b \in Blocks
            /\ requests'[q].seen[b] = requests[q].seen[b]
      BY <2>1, <1>1, <1>11
    <3> QED BY <3>1, <1>6 DEF ReadsAreRegular, IoInv
  <2>2. ASSUME NEW b \in uncorrectable'
        PROVE  Uncor \in latest'[b]
    <3>1. b \in uncorrectable /\ b \notin lba /\ b \in Blocks
      BY <2>2 DEF EndsWrite, lba, IoInv, IoTypeOK
    <3> QED BY <3>1, <1>6 DEF ReadsAreRegular, IoInv
  <2> QED BY <2>1, <2>2 DEF ReadsAreRegular
<1> QED BY <1>2, <1>3, <1>8, <1>9, <1>10, <1>13, <1>14 DEF IoInv

\* A write that fails leaves what it may have written beside the rest.
LEMMA WriteFailsInv ==
  ASSUME IoInv, NEW r \in Requests, WriteFails(r)
  PROVE  IoInv'
<1> DEFINE lba == requests[r].lba
           data == requests[r].data
           rest == [requests EXCEPT ![r] = NoRequest]
<1>1. /\ requests \in [Requests -> RequestSet] /\ requests[r] \in RequestSet
      /\ lba \subseteq Blocks /\ data \in [Blocks -> Contents]
      /\ requests[r].op \in WriteOps /\ latest \in Histories
      /\ NoRequest \in RequestSet /\ NoRequest.op = "none" /\ NoRequest.todo = {}
  <2>1. NoRequest \in RequestSet /\ NoRequest.op = "none" /\ NoRequest.todo = {}
    BY NamespaceIoAssumption DEF RequestSet, NoRequest
  <2>2. requests[r] \in RequestSet /\ requests[r].op \in WriteOps
    BY DEF IoInv, IoTypeOK, WriteFails, WriteOps
  <2>3. lba \subseteq Blocks /\ data \in [Blocks -> Contents]
    BY <2>2 DEF RequestSet
  <2> QED BY <2>1, <2>2, <2>3 DEF IoInv, IoTypeOK
<1>2. /\ requests' = MayHave(rest, lba, data)
      /\ latest' = [b \in Blocks |-> IF b \in lba THEN latest[b] \cup {data[b]} ELSE latest[b]]
      /\ UNCHANGED <<uncorrectable, nwps, nsattr, media>>
  BY DEF WriteFails
<1>3. rest \in [Requests -> RequestSet] /\ data \in [Blocks -> Written] /\ lba \in SUBSET Blocks
  BY <1>1
<1> HIDE DEF lba, data, rest
<1>4. /\ requests' \in [Requests -> RequestSet]
      /\ \A q \in Requests :
           /\ Same(requests'[q], rest[q])
           /\ \A b \in Blocks : requests'[q].seen[b] =
                IF rest[q].op \in WriteOps /\ b \in lba \cap rest[q].lba
                THEN rest[q].seen[b] \cup {data[b]} ELSE rest[q].seen[b]
  <2>1. AllMayHave(requests', rest, lba, data)
    BY <1>2, <1>3, MayHaveFacts
  <2> QED BY <2>1 DEF AllMayHave
<1>5. requests'[r].op = "none" /\ requests'[r].todo = {}
  BY <1>1, <1>4 DEF Same, rest
<1>6. \A q \in Requests \ {r} :
        /\ Same(requests'[q], requests[q])
        /\ \A b \in Blocks :
             requests'[q].seen[b] = IF requests[q].op \in WriteOps /\ b \in lba \cap requests[q].lba
                                    THEN requests[q].seen[b] \cup {data[b]} ELSE requests[q].seen[b]
  BY <1>1, <1>4 DEF rest
<1>7. /\ \A b \in Blocks : latest[b] \subseteq latest'[b]
      /\ \A b \in lba : data[b] \in latest'[b] /\ b \in Blocks
      /\ \A b \in Blocks \ lba : latest'[b] = latest[b]
      /\ \A b \in lba : latest'[b] = latest[b] \cup {data[b]}
  BY <1>1, <1>2
<1>8. IoTypeOK'
  <2>1. latest' \in Histories
    BY <1>1, <1>2
  <2> QED BY <1>2, <1>4, <2>1 DEF IoTypeOK, IoInv
<1>9. Shapes'
  <2> SUFFICES ASSUME NEW q \in Requests
               PROVE  /\ requests'[q].todo \subseteq requests'[q].lba
                      /\ requests'[q].op \notin WriteOps => requests'[q].todo = {}
                      /\ requests'[q].op = "copyin" => \A b \in Blocks : requests'[q].seen[b] = {}
                      /\ requests'[q].op \in {"copyin", "copyout"} => requests'[q].ranges # <<>>
    BY DEF Shapes
  <2>1. CASE q = r
    BY <2>1, <1>5
  <2>2. CASE q # r
    <3>1. /\ requests'[q].todo = requests[q].todo /\ requests'[q].lba = requests[q].lba
          /\ requests'[q].op = requests[q].op /\ requests'[q].ranges = requests[q].ranges
          /\ requests[q].op = "copyin" => \A b \in Blocks : requests'[q].seen[b] = requests[q].seen[b]
      BY <2>2, <1>6 DEF Same, WriteOps
    <3> QED BY <3>1 DEF Shapes, IoInv
  <2> QED BY <2>1, <2>2
<1>10. \A b \in Blocks :
         Writers(b)' = Writers(b) \ {r} /\ (r \in Writers(b) <=> b \in lba)
  <2> SUFFICES ASSUME NEW b \in Blocks, NEW q \in Requests
               PROVE  /\ q \in Writers(b)' <=> q \in Writers(b) /\ q # r
                      /\ r \in Writers(b) <=> b \in lba
    BY DEF Writers
  <2>1. CASE q = r
    BY <2>1, <1>1, <1>5 DEF Writers, WriteOps, lba
  <2>2. CASE q # r
    BY <2>2, <1>1, <1>6 DEF Writers, Same, WriteOps, lba
  <2> QED BY <2>1, <2>2
<1>11. \A b \in Blocks : \A w \in Writers(b) \ {r} :
         /\ requests'[w].data = requests[w].data
         /\ requests'[w].todo = requests[w].todo
         /\ requests'[w].seen[b] = IF b \in lba THEN requests[w].seen[b] \cup {data[b]}
                                   ELSE requests[w].seen[b]
  BY <1>6 DEF Writers, Same, WriteOps
<1>12. MediumKnown'
  <2> SUFFICES ASSUME NEW b \in Blocks, b \notin uncorrectable
               PROVE  \/ media[b] \in latest'[b]
                      \/ \E w \in Writers(b)' : media[b] = requests'[w].data[b]
    BY <1>2 DEF MediumKnown
  <2>1. media[b] \in latest[b] \/ \E w \in Writers(b) : media[b] = requests[w].data[b]
    BY DEF MediumKnown, IoInv
  <2>2. ASSUME NEW w \in Writers(b), media[b] = requests[w].data[b]
        PROVE  \/ media[b] \in latest'[b]
               \/ \E v \in Writers(b)' : media[b] = requests'[v].data[b]
    <3>1. CASE w = r
      BY <2>2, <3>1, <1>7, <1>10 DEF data
    <3>2. CASE w # r
      BY <2>2, <3>2, <1>10, <1>11
    <3> QED BY <3>1, <3>2
  <2> QED BY <2>1, <2>2, <1>7
<1>13. BlocksMoved'
  <2> SUFFICES ASSUME NEW b \in Blocks, NEW w \in Writers(b)', b \notin requests'[w].todo
               PROVE  \/ media[b] = requests'[w].data[b]
                      \/ media[b] \in requests'[w].seen[b]
                      \/ \E v \in Writers(b)' \ {w} : media[b] = requests'[v].data[b]
    BY <1>2 DEF BlocksMoved, Beside
  <2>1. w \in Writers(b) \ {r} /\ Beside(w, b)
    BY <1>10, <1>11, ZenonT(40) DEF BlocksMoved, IoInv
  <2>2. /\ requests'[w].data = requests[w].data
        /\ requests[w].seen[b] \subseteq requests'[w].seen[b]
        /\ b \in lba => data[b] \in requests'[w].seen[b]
    BY <2>1, <1>11
  <2>3. ASSUME NEW v \in Writers(b) \ {w}, media[b] = requests[v].data[b]
        PROVE  \/ media[b] \in requests'[w].seen[b]
               \/ \E u \in Writers(b)' \ {w} : media[b] = requests'[u].data[b]
    <3>1. CASE v = r
      BY <2>2, <2>3, <3>1, <1>10 DEF data
    <3>2. CASE v # r
      BY <2>3, <3>2, <1>10, <1>11
    <3> QED BY <3>1, <3>2
  <2> QED BY <2>1, <2>2, <2>3 DEF Beside
<1>14. SeenIsLatest'
  <2> SUFFICES ASSUME NEW b \in Blocks, NEW w \in Writers(b)'
               PROVE  requests'[w].seen[b] \subseteq latest'[b]
    BY DEF SeenIsLatest
  <2>1. w \in Writers(b) \ {r} /\ requests[w].seen[b] \subseteq latest[b]
    BY <1>10 DEF SeenIsLatest, IoInv
  <2>2. CASE b \in lba
    <3>1. requests'[w].seen[b] = requests[w].seen[b] \cup {data[b]}
      BY <2>1, <2>2, <1>11
    <3>2. latest'[b] = latest[b] \cup {data[b]}
      BY <2>2, <1>7
    <3> QED BY <2>1, <3>1, <3>2
  <2>3. CASE b \notin lba
    <3>1. requests'[w].seen[b] = requests[w].seen[b] /\ latest'[b] = latest[b]
      BY <2>1, <2>3, <1>7, <1>11
    <3> QED BY <2>1, <3>1
  <2> QED BY <2>2, <2>3
<1>15. \A q \in Requests : requests'[q].op = "read" =>
         /\ requests[q].op = "read" /\ requests'[q].lba = requests[q].lba
         /\ \A b \in requests[q].lba : b \in Blocks /\ requests[q].seen[b] = requests'[q].seen[b]
  <2> SUFFICES ASSUME NEW q \in Requests, requests'[q].op = "read"
               PROVE  /\ requests[q].op = "read" /\ requests'[q].lba = requests[q].lba
                      /\ \A b \in requests[q].lba :
                           b \in Blocks /\ requests[q].seen[b] = requests'[q].seen[b]
    OBVIOUS
  <2>1. q # r
    BY <1>5
  <2>2. requests[q].lba \subseteq Blocks
    BY <1>1 DEF RequestSet
  <2>3. requests'[q].op = requests[q].op /\ requests'[q].lba = requests[q].lba
    BY <2>1, <1>6 DEF Same
  <2>4. \A b \in Blocks : requests'[q].seen[b] = requests[q].seen[b]
    BY <2>1, <2>3, <1>6 DEF WriteOps
  <2> QED BY <2>2, <2>3, <2>4
<1>16. ReadersKnow'
  <2> SUFFICES ASSUME NEW q \in Requests, requests[q].op = "read", NEW b \in requests[q].lba,
                      b \in Blocks
               PROVE  /\ latest'[b] \subseteq requests[q].seen[b]
                      /\ \A w \in Writers(b)' : requests'[w].data[b] \in requests[q].seen[b]
    BY <1>15 DEF ReadersKnow
  <2>1. /\ latest[b] \subseteq requests[q].seen[b]
        /\ \A w \in Writers(b) : requests[w].data[b] \in requests[q].seen[b]
    BY DEF ReadersKnow, IoInv
  <2>2. \A w \in Writers(b)' : requests'[w].data[b] \in requests[q].seen[b]
    BY <2>1, <1>10, <1>11
  <2>3. CASE b \in lba
    BY <2>1, <2>2, <2>3, <1>7, <1>10 DEF data
  <2>4. CASE b \notin lba
    BY <2>1, <2>2, <2>4, <1>7
  <2> QED BY <2>3, <2>4
<1>17. ReadsAreRegular'
  <2>1. ASSUME NEW q \in Requests, requests'[q].op = "read", NEW b \in requests'[q].lba
        PROVE  media'[b] \in requests'[q].seen[b]
    BY <2>1, <1>2, <1>15 DEF ReadsAreRegular, IoInv
  <2>2. ASSUME NEW b \in uncorrectable'
        PROVE  Uncor \in latest'[b]
    BY <2>2, <1>2, <1>7 DEF ReadsAreRegular, IoInv, IoTypeOK
  <2> QED BY <2>1, <2>2 DEF ReadsAreRegular
<1> QED BY <1>8, <1>9, <1>12, <1>13, <1>14, <1>16, <1>17 DEF IoInv

\* A request that moves no block is replaced by one that moves none.
LEMMA RequestChanges ==
  ASSUME IoInv, NEW r \in Requests, requests[r].op \notin WriteOps,
         NEW rq \in RequestSet, rq.op \notin WriteOps, rq.todo = {},
         rq.op = "copyin" => rq.ranges # <<>> /\ \A b \in Blocks : rq.seen[b] = {},
         rq.op = "read" => \A b \in rq.lba :
           /\ media[b] \in rq.seen[b] /\ latest[b] \subseteq rq.seen[b]
           /\ \A w \in Writers(b) : requests[w].data[b] \in rq.seen[b],
         requests' = [requests EXCEPT ![r] = rq],
         UNCHANGED <<uncorrectable, nwps, nsattr, media, latest>>
  PROVE  IoInv'
<1>1. /\ requests' \in [Requests -> RequestSet] /\ requests'[r] = rq
      /\ \A q \in Requests \ {r} : requests'[q] = requests[q]
  BY DEF IoInv, IoTypeOK
<1>2. \A b \in Blocks : Writers(b)' = Writers(b) /\ r \notin Writers(b)
  BY <1>1 DEF Writers, WriteOps
<1>3. \A b \in Blocks : \A w \in Writers(b) : requests'[w] = requests[w]
  BY <1>1, <1>2 DEF Writers
<1>4. IoTypeOK'
  BY <1>1 DEF IoTypeOK, IoInv
<1>5. Shapes'
  BY <1>1 DEF Shapes, IoInv, WriteOps
<1>6. MediumKnown'
  BY <1>2, <1>3 DEF MediumKnown, IoInv
<1>7. BlocksMoved'
  BY <1>2, <1>3 DEF BlocksMoved, Beside, IoInv
<1>8. SeenIsLatest'
  BY <1>2, <1>3 DEF SeenIsLatest, IoInv
<1>9. ReadersKnow'
  <2> SUFFICES ASSUME NEW q \in Requests, requests'[q].op = "read", NEW b \in requests'[q].lba
               PROVE  /\ latest[b] \subseteq requests'[q].seen[b]
                      /\ \A w \in Writers(b) : requests'[w].data[b] \in requests'[q].seen[b]
    <3>1. \A q \in Requests : requests'[q].lba \subseteq Blocks
      BY <1>1 DEF RequestSet
    <3> QED BY <3>1, <1>2 DEF ReadersKnow
  <2>1. b \in Blocks
    BY <1>1 DEF RequestSet
  <2>2. CASE q = r
    BY <2>1, <2>2, <1>1, <1>3
  <2>3. CASE q # r
    BY <2>1, <2>3, <1>1, <1>3 DEF ReadersKnow, IoInv
  <2> QED BY <2>2, <2>3
<1>10. ReadsAreRegular'
  BY <1>1 DEF ReadsAreRegular, IoInv
<1> QED BY <1>4, <1>5, <1>6, <1>7, <1>8, <1>9, <1>10 DEF IoInv

LEMMA NoRequestFacts ==
  /\ NoRequest \in RequestSet /\ NoRequest.op = "none" /\ NoRequest.todo = {}
  /\ \A b \in Blocks : NoRequest.seen[b] = {}
BY NamespaceIoAssumption DEF NoRequest, RequestSet

LEMMA ReadInv ==
  ASSUME IoInv, NEW r \in Requests, NEW lba \in Extents, Read(r, lba)
  PROVE  IoInv'
<1> DEFINE seen == [b \in Blocks |-> IF b \notin lba THEN {} ELSE
                      latest[b] \cup {requests[w].data[b] : w \in Writers(b)}]
           rq == [NoRequest EXCEPT !.op = "read", !.lba = lba, !.seen = seen]
<1>1. lba \subseteq Blocks
  BY ExtentFacts
<1>2. \A b \in Blocks : \A w \in Writers(b) : requests[w].data[b] \in Contents
  BY DEF IoInv, IoTypeOK, RequestSet, Writers
<1>3. seen \in Histories
  BY <1>2 DEF IoInv, IoTypeOK
<1>4. /\ rq \in RequestSet /\ rq.op = "read" /\ rq.todo = {} /\ rq.lba = lba /\ rq.seen = seen
  <2> HIDE DEF seen
  <2> QED BY <1>1, <1>3, NoRequestFacts DEF RequestSet
<1>5. ASSUME NEW b \in lba
      PROVE  /\ latest[b] \subseteq seen[b]
             /\ \A w \in Writers(b) : requests[w].data[b] \in seen[b]
             /\ media[b] \in seen[b]
  <2>1. b \in Blocks /\ b \notin uncorrectable
    BY <1>1, <1>5 DEF Read, CheckUncor
  <2>2. seen[b] = latest[b] \cup {requests[w].data[b] : w \in Writers(b)}
    BY <2>1, <1>5
  <2>3. media[b] \in latest[b] \/ \E w \in Writers(b) : media[b] = requests[w].data[b]
    BY <2>1 DEF MediumKnown, IoInv
  <2> QED BY <2>2, <2>3
<1>6. /\ requests' = [requests EXCEPT ![r] = rq] /\ requests[r].op \notin WriteOps
      /\ UNCHANGED <<uncorrectable, nwps, nsattr, media, latest>>
  BY DEF Read, Free, WriteOps
<1> HIDE DEF rq, seen
<1> QED BY <1>4, <1>5, <1>6, RequestChanges DEF WriteOps

LEMMA ReadDoneInv ==
  ASSUME IoInv, NEW r \in Requests, ReadDone(r)
  PROVE  IoInv'
BY RequestChanges, NoRequestFacts DEF ReadDone, WriteOps

LEMMA CopyInv ==
  ASSUME IoInv, NEW r \in Requests, NEW ranges \in CopyRanges, NEW slba \in Blocks,
         Copy(r, ranges, slba)
  PROVE  IoInv'
<1> DEFINE rq == [NoRequest EXCEPT !.op = "copyin", !.ranges = ranges, !.slba = slba]
<1>1. /\ rq \in RequestSet /\ rq.op = "copyin" /\ rq.todo = {}
      /\ rq.ranges # <<>> /\ \A b \in Blocks : rq.seen[b] = {}
  <2>1. ranges \in Seq(Extents) /\ ranges # <<>> /\ slba \in Nat
    BY NamespaceIoAssumption DEF Blocks
  <2> QED BY <2>1, NoRequestFacts DEF RequestSet
<1>2. /\ requests' = [requests EXCEPT ![r] = rq] /\ requests[r].op \notin WriteOps
      /\ UNCHANGED <<uncorrectable, nwps, nsattr, media, latest>>
  BY DEF Copy, Free, WriteOps
<1> HIDE DEF rq
<1> QED BY <1>1, <1>2, RequestChanges DEF WriteOps

LEMMA AdmittedInv ==
  ASSUME IoInv, NEW r \in Requests, Free(r), NEW op \in {"write", "dsm"},
         NEW lba \in Extents, NEW content \in Contents, Admitted(r, op, lba, content),
         UNCHANGED <<uncorrectable, nwps, nsattr, media, latest>>
  PROVE  IoInv'
<1> DEFINE data == [b \in Blocks |-> IF b \in lba THEN content ELSE 0]
           rq == [NoRequest EXCEPT !.op = op, !.lba = lba, !.todo = lba, !.data = data]
           new == Begun(requests, lba, data)
<1>1. lba \subseteq Blocks /\ lba \in SUBSET Blocks
  BY ExtentFacts
<1>2. data \in [Blocks -> Contents]
  BY NamespaceIoAssumption
<1>3. requests' = [new EXCEPT ![r] = rq]
  BY DEF Admitted
<1> HIDE DEF data
<1>4. /\ rq \in RequestSet /\ rq.op \in WriteOps \ {"copyout"} /\ rq.lba = lba /\ rq.todo = lba
      /\ rq.data = data /\ \A b \in Blocks : rq.seen[b] = {}
  BY <1>1, <1>2, NoRequestFacts DEF RequestSet, WriteOps
<1>5. requests \in [Requests -> RequestSet] /\ data \in [Blocks -> Written]
  BY <1>2 DEF IoInv, IoTypeOK
<1> HIDE DEF rq, new
<1>6. /\ new \in [Requests -> RequestSet]
      /\ \A q \in Requests :
           /\ Same(new[q], requests[q])
           /\ \A b \in Blocks : new[q].seen[b] =
                IF requests[q].op = "read" /\ b \in lba \cap requests[q].lba
                THEN requests[q].seen[b] \cup {data[b]} ELSE requests[q].seen[b]
  <2>1. AllBegun(new, requests, lba, data)
    BY <1>1, <1>5, BegunFacts DEF new
  <2> QED BY <2>1 DEF AllBegun
<1>7. /\ requests' \in [Requests -> RequestSet] /\ requests'[r] = rq
      /\ \A q \in Requests \ {r} : requests'[q] = new[q]
  BY <1>3, <1>4, <1>6
<1>8. \A q \in Requests \ {r} : SeenGrows(q, lba, data)
  BY <1>6, <1>7 DEF SeenGrows
<1>9. requests[r].op \in {"none", "copyin"}
  BY DEF Free
<1> QED BY <1>1, <1>4, <1>7, <1>8, <1>9, WriteBegins

\* The next range of a copy goes out, or the copy ends.
LEMMA CopyInInv ==
  ASSUME IoInv, NEW r \in Requests, CopyIn(r)
  PROVE  IoInv'
<1> DEFINE rq == requests[r]
           shift == rq.slba - First(Head(rq.ranges))
           lba == {b + shift : b \in Head(rq.ranges)}
           data == [b \in Blocks |-> IF b \in lba THEN media[b - shift] ELSE 0]
           out == [rq EXCEPT !.op = "copyout", !.lba = lba, !.todo = lba, !.data = data]
           new == Begun(requests, lba, data)
<1>1. /\ rq \in RequestSet /\ rq.op = "copyin" /\ rq.todo = {}
      /\ \A b \in Blocks : rq.seen[b] = {}
  BY DEF IoInv, IoTypeOK, Shapes, CopyIn, WriteOps
<1>2. UNCHANGED <<uncorrectable, nwps, nsattr, media, latest>>
  BY DEF CopyIn
<1>3. CASE requests' = [requests EXCEPT ![r] = NoRequest]
  BY <1>1, <1>2, <1>3, RequestChanges, NoRequestFacts DEF WriteOps
<1>4. CASE lba \subseteq Blocks /\ requests' = [new EXCEPT ![r] = out]
  <2>1. rq.ranges # <<>>
    BY <1>1 DEF IoInv, Shapes
  <2>2. Head(rq.ranges) \in Extents
    BY <1>1, <2>1 DEF RequestSet
  <2>3. shift \in Int /\ Head(rq.ranges) \subseteq Blocks
    BY <1>1, <2>2, ExtentFacts DEF RequestSet
  <2> HIDE DEF shift
  <2>4. \A b \in lba : b - shift \in Blocks
    BY <2>3, NamespaceIoAssumption DEF Blocks
  <2>5. data \in [Blocks -> Contents]
    BY <2>4, NamespaceIoAssumption DEF IoInv, IoTypeOK
  <2> HIDE DEF data, lba, rq
  <2>6. /\ out \in RequestSet /\ out.op \in WriteOps /\ out.lba = lba /\ out.todo = lba
        /\ out.data = data /\ out.ranges # <<>> /\ \A b \in Blocks : out.seen[b] = {}
    BY <1>1, <1>4, <2>1, <2>5 DEF RequestSet, WriteOps
  <2>7. requests \in [Requests -> RequestSet] /\ data \in [Blocks -> Written]
    BY <2>5 DEF IoInv, IoTypeOK
  <2> HIDE DEF out, new
  <2>8. /\ new \in [Requests -> RequestSet]
        /\ \A q \in Requests :
             /\ Same(new[q], requests[q])
             /\ \A b \in Blocks : new[q].seen[b] =
                  IF requests[q].op = "read" /\ b \in lba \cap requests[q].lba
                  THEN requests[q].seen[b] \cup {data[b]} ELSE requests[q].seen[b]
    <3>1. AllBegun(new, requests, lba, data)
      BY <1>4, <2>7, BegunFacts DEF new
    <3> QED BY <3>1 DEF AllBegun
  <2>9. /\ requests' \in [Requests -> RequestSet] /\ requests'[r] = out
        /\ \A q \in Requests \ {r} : requests'[q] = new[q]
    BY <1>4, <2>6, <2>8
  <2>10. \A q \in Requests \ {r} : SeenGrows(q, lba, data)
    BY <2>8, <2>9 DEF SeenGrows
  <2>11. requests[r].op \in {"none", "copyin"}
    BY <1>1 DEF rq
  <2> QED BY <1>2, <1>4, <2>6, <2>9, <2>10, <2>11, WriteBegins
<1> QED BY <1>3, <1>4 DEF CopyIn

LEMMA NextRangeFacts ==
  ASSUME NEW rq \in RequestSet, rq.ranges # <<>>
  PROVE  /\ NextRange(rq) \in RequestSet /\ NextRange(rq).op \in {"none", "copyin"}
         /\ NextRange(rq).todo = {} /\ \A b \in Blocks : NextRange(rq).seen[b] = {}
         /\ NextRange(rq).op = "copyin" => NextRange(rq).ranges # <<>>
<1>1. CASE Len(rq.ranges) = 1
  BY <1>1, NoRequestFacts DEF NextRange
<1>2. CASE Len(rq.ranges) # 1
  <2> DEFINE rest == Tail(rq.ranges)
             slba == rq.slba + Cardinality(rq.lba)
  <2>1. rest \in Seq(Extents) /\ rest # <<>>
    <3>1. rq.ranges \in Seq(Extents) /\ Len(rq.ranges) \in Nat /\ Len(rq.ranges) # 0
      BY EmptySeq DEF RequestSet
    <3>2. rest \in Seq(Extents) /\ Len(rest) = Len(rq.ranges) - 1
      BY <3>1, HeadTailProperties
    <3>3. Len(rest) # 0
      BY <1>2, <3>1, <3>2
    <3> QED BY <3>2, <3>3, EmptySeq
  <2>2. slba \in Nat
    <3>1. IsFiniteSet(Blocks)
      BY FS_Interval, NamespaceIoAssumption DEF Blocks
    <3>2. IsFiniteSet(rq.lba)
      BY <3>1, FS_Subset DEF RequestSet
    <3> QED BY <3>2, FS_CardinalityType DEF RequestSet
  <2>3. NextRange(rq) = [NoRequest EXCEPT !.op = "copyin", !.ranges = rest, !.slba = slba]
    BY <1>2 DEF NextRange
  <2> HIDE DEF rest, slba
  <2> QED BY <2>1, <2>2, <2>3, NoRequestFacts DEF RequestSet
<1> QED BY <1>1, <1>2

\* What becomes of the requests when a write, or a range of a copy, has succeeded.
Successors(new, rqs, r, next, lba, data, seen) ==
  /\ new \in [Requests -> RequestSet]
  /\ Same(new[r], next) /\ \A b \in Blocks : new[r].seen[b] = next.seen[b]
  /\ \A q \in Requests \ {r} :
       /\ Same(new[q], rqs[q])
       /\ \A b \in Blocks : new[q].seen[b] =
            IF rqs[q].op \in WriteOps /\ b \in lba \cap rqs[q].lba
            THEN (rqs[q].seen[b] \cap seen[b]) \cup {data[b]} ELSE rqs[q].seen[b]

LEMMA CoveredNext ==
  ASSUME NEW rqs \in [Requests -> RequestSet], NEW r \in Requests, NEW next \in RequestSet,
         next.op \in {"none", "copyin"},
         NEW lba \in SUBSET Blocks, NEW data \in [Blocks -> Written], NEW seen \in Histories
  PROVE  Successors(Covered([rqs EXCEPT ![r] = next], lba, data, seen),
                    rqs, r, next, lba, data, seen)
<1> DEFINE rest == [rqs EXCEPT ![r] = next]
           new == Covered(rest, lba, data, seen)
<1>1. rest \in [Requests -> RequestSet]
  OBVIOUS
<1>2. rest[r] = next /\ \A q \in Requests \ {r} : rest[q] = rqs[q]
  OBVIOUS
<1> HIDE DEF rest
<1>3. AllCovered(new, rest, lba, data, seen)
  BY <1>1, CoveredFacts
<1> HIDE DEF new
<1>4. \A b \in Blocks : new[r].seen[b] = next.seen[b]
  BY <1>2, <1>3 DEF WriteOps, AllCovered
<1> QED BY <1>2, <1>3, <1>4 DEF new, rest, Successors, AllCovered

\* A write, or a range of a copy, has succeeded, and next is in its place.
Done(r, next) ==
  /\ uncorrectable' = uncorrectable \ Cleared(requests[r])
  /\ requests' = Covered([requests EXCEPT ![r] = next], requests[r].lba,
                         requests[r].data, requests[r].seen)
  /\ latest' = Latest(requests[r].lba, requests[r].data, requests[r].seen)
  /\ UNCHANGED <<nwps, nsattr, media>>

LEMMA DoneInv ==
  ASSUME IoInv, NEW r \in Requests, NEW next \in RequestSet,
         requests[r].op \in WriteOps, requests[r].todo = {},
         next.op \in {"none", "copyin"}, next.todo = {}, \A b \in Blocks : next.seen[b] = {},
         next.op = "copyin" => next.ranges # <<>>, Done(r, next)
  PROVE  IoInv'
<1> DEFINE lba == requests[r].lba
           data == requests[r].data
           seen == requests[r].seen
           new == Covered([requests EXCEPT ![r] = next], lba, data, seen)
<1>1. /\ requests \in [Requests -> RequestSet] /\ lba \in SUBSET Blocks
      /\ data \in [Blocks -> Written] /\ seen \in Histories
  BY DEF IoInv, IoTypeOK, RequestSet
<1>2. requests' = new
  BY DEF Done
<1> HIDE DEF lba, data, seen
<1>3. Successors(new, requests, r, next, lba, data, seen)
  BY <1>1, CoveredNext
<1> HIDE DEF new
<1>4. \A q \in Requests \ {r} : SeenCovered(q, lba, data, seen)
  BY <1>2, <1>3 DEF SeenCovered, Successors
<1>5. EndsWrite(r)
  BY <1>2, <1>3, <1>4 DEF EndsWrite, Done, Successors, Cleared, Latest, Same, lba, data, seen
<1> QED BY <1>5, WriteEnds

LEMMA WriteDoneInv ==
  ASSUME IoInv, NEW r \in Requests, WriteDone(r)
  PROVE  IoInv'
BY DoneInv, NoRequestFacts DEF WriteDone, WriteOps, Done

LEMMA CopyOutDoneInv ==
  ASSUME IoInv, NEW r \in Requests, CopyOutDone(r)
  PROVE  IoInv'
<1>1. requests[r] \in RequestSet /\ requests[r].op = "copyout" /\ requests[r].ranges # <<>>
  BY DEF IoInv, IoTypeOK, Shapes, CopyOutDone
<1>2. /\ NextRange(requests[r]) \in RequestSet /\ NextRange(requests[r]).op \in {"none", "copyin"}
      /\ NextRange(requests[r]).todo = {}
      /\ \A b \in Blocks : NextRange(requests[r]).seen[b] = {}
      /\ NextRange(requests[r]).op = "copyin" => NextRange(requests[r]).ranges # <<>>
  BY <1>1, NextRangeFacts
<1> QED BY <1>1, <1>2, DoneInv DEF CopyOutDone, WriteOps, Done

\* A block is written: by a write that is out, so every reader knows the data.
LEMMA WriteBlockInv ==
  ASSUME IoInv, NEW r \in Requests, NEW b \in Blocks, WriteBlock(r, b)
  PROVE  IoInv'
<1>1. /\ requests[r] \in RequestSet /\ b \in requests[r].todo
      /\ requests[r].todo \subseteq requests[r].lba /\ requests[r].op \in WriteOps
  BY DEF IoInv, IoTypeOK, Shapes, WriteBlock
<1>2. /\ requests' = [requests EXCEPT ![r].todo = @ \ {b}]
      /\ media' = [media EXCEPT ![b] = requests[r].data[b]]
      /\ UNCHANGED <<uncorrectable, nwps, nsattr, latest>>
  BY DEF WriteBlock
<1>3. requests' \in [Requests -> RequestSet]
  BY <1>1, <1>2 DEF IoInv, IoTypeOK, RequestSet
<1>4. \A q \in Requests :
        /\ requests'[q].op = requests[q].op /\ requests'[q].lba = requests[q].lba
        /\ requests'[q].data = requests[q].data /\ requests'[q].seen = requests[q].seen
        /\ requests'[q].ranges = requests[q].ranges
        /\ requests'[q].todo = IF q = r THEN requests[q].todo \ {b} ELSE requests[q].todo
  BY <1>1, <1>2 DEF IoInv, IoTypeOK, RequestSet
<1>5. \A a \in Blocks : media'[a] = IF a = b THEN requests[r].data[b] ELSE media[a]
  BY <1>2 DEF IoInv, IoTypeOK
<1>6. \A a : Writers(a)' = Writers(a) /\ Writers(a) \subseteq Requests
  BY <1>4 DEF Writers
<1>7. r \in Writers(b)
  BY <1>1 DEF Writers, WriteOps
<1>8. IoTypeOK'
  BY <1>1, <1>2, <1>3 DEF IoTypeOK, IoInv, RequestSet
<1>9. Shapes'
  <2> SUFFICES ASSUME NEW q \in Requests
               PROVE  /\ requests'[q].todo \subseteq requests'[q].lba
                      /\ requests'[q].op \notin WriteOps => requests'[q].todo = {}
                      /\ requests'[q].op = "copyin" => \A a \in Blocks : requests'[q].seen[a] = {}
                      /\ requests'[q].op \in {"copyin", "copyout"} => requests'[q].ranges # <<>>
    BY DEF Shapes
  <2>1. requests'[q].todo \subseteq requests[q].todo
    BY <1>4
  <2> QED BY <2>1, <1>4, ZenonT(40) DEF Shapes, IoInv
<1>10. MediumKnown'
  <2> SUFFICES ASSUME NEW a \in Blocks, a \notin uncorrectable
               PROVE  \/ media'[a] \in latest[a]
                      \/ \E w \in Writers(a) : media'[a] = requests[w].data[a]
    BY <1>2, <1>4, <1>6 DEF MediumKnown, Writers
  <2> QED BY <1>5, <1>7 DEF MediumKnown, IoInv
<1>11. BlocksMoved'
  <2>0. \A a \in Blocks : \A w \in Writers(a) :
          Beside(w, a)' <=> \/ media'[a] = requests[w].data[a]
                           \/ media'[a] \in requests[w].seen[a]
                           \/ \E v \in Writers(a) \ {w} : media'[a] = requests[v].data[a]
    BY <1>4, <1>6 DEF Beside
  <2> SUFFICES ASSUME NEW a \in Blocks, NEW w \in Writers(a), a \notin requests'[w].todo
               PROVE  \/ media'[a] = requests[w].data[a]
                      \/ media'[a] \in requests[w].seen[a]
                      \/ \E v \in Writers(a) \ {w} : media'[a] = requests[v].data[a]
    BY <1>6, <2>0 DEF BlocksMoved
  <2>1. CASE a = b
    BY <2>1, <1>5, <1>7
  <2>2. CASE a # b
    <3>1. a \notin requests[w].todo
      BY <2>2, <1>4 DEF Writers
    <3> QED BY <2>2, <3>1, <1>5 DEF BlocksMoved, Beside, IoInv
  <2> QED BY <2>1, <2>2
<1>12. SeenIsLatest'
  BY <1>2, <1>4, <1>6 DEF SeenIsLatest, IoInv, Writers
<1>13. ReadersKnow'
  BY <1>2, <1>4, <1>6 DEF ReadersKnow, IoInv, Writers
<1>14. ReadsAreRegular'
  <2>1. ASSUME NEW q \in Requests, requests[q].op = "read", NEW a \in requests[q].lba
        PROVE  media'[a] \in requests[q].seen[a]
    <3>1. a \in Blocks
      BY DEF IoInv, IoTypeOK, RequestSet
    <3>2. a = b => requests[r].data[b] \in requests[q].seen[b]
      BY <2>1, <1>7 DEF ReadersKnow, IoInv
    <3>3. media[a] \in requests[q].seen[a]
      BY <2>1 DEF ReadsAreRegular, IoInv
    <3> QED BY <3>1, <3>2, <3>3, <1>5
  <2> QED BY <2>1, <1>2, <1>4 DEF ReadsAreRegular, IoInv
<1> QED BY <1>8, <1>9, <1>10, <1>11, <1>12, <1>13, <1>14 DEF IoInv

\* A Write Uncorrectable: no write is out beside it, so only the readers learn.
LEMMA WriteUncorInv ==
  ASSUME Careful, IoInv, NEW lba \in Extents, WriteUncor(lba)
  PROVE  IoInv'
<1> DEFINE data == [b \in Blocks |-> Uncor]
           none == [b \in Blocks |-> {}]
           begun == Begun(requests, lba, data)
           new == Covered(begun, lba, data, none)
<1>1. /\ requests \in [Requests -> RequestSet] /\ lba \in SUBSET Blocks
      /\ data \in [Blocks -> Written] /\ none \in Histories
  BY ExtentFacts DEF IoInv, IoTypeOK
<1>2. /\ requests' = new
      /\ uncorrectable' = uncorrectable \cup lba
      /\ \A b \in Blocks : latest'[b] = IF b \in lba THEN {Uncor} ELSE latest[b]
      /\ UNCHANGED <<nwps, nsattr, media>>
  BY DEF WriteUncor, Latest
<1>3. \A b \in lba : Writers(b) = {} /\ b \in Blocks
  BY <1>1 DEF WriteUncor
<1>4. \A b \in Blocks : data[b] = Uncor
  OBVIOUS
<1>5. latest' \in Histories
  BY <1>1 DEF WriteUncor, Latest, IoInv, IoTypeOK
<1> HIDE DEF data, none
<1>6. /\ begun \in [Requests -> RequestSet]
      /\ \A q \in Requests :
           /\ Same(begun[q], requests[q])
           /\ \A b \in Blocks : begun[q].seen[b] =
                IF requests[q].op = "read" /\ b \in lba \cap requests[q].lba
                THEN requests[q].seen[b] \cup {data[b]} ELSE requests[q].seen[b]
  <2>1. AllBegun(begun, requests, lba, data)
    BY <1>1, BegunFacts
  <2> QED BY <2>1 DEF AllBegun
<1> HIDE DEF begun
<1>7. AllCovered(new, begun, lba, data, none)
  BY <1>1, <1>6, CoveredFacts
<1> HIDE DEF new
<1>8. \A q \in Requests : Same(requests'[q], requests[q])
  BY <1>2, <1>6, <1>7 DEF Same, AllCovered
<1>9. \A q \in Requests : \A b \in Blocks : requests'[q].seen[b] =
        IF requests[q].op = "read" /\ b \in lba \cap requests[q].lba
        THEN requests[q].seen[b] \cup {Uncor} ELSE requests[q].seen[b]
  <2>1. ASSUME NEW q \in Requests, NEW b \in Blocks
        PROVE  requests'[q].seen[b] =
                 IF requests[q].op = "read" /\ b \in lba \cap requests[q].lba
                 THEN requests[q].seen[b] \cup {Uncor} ELSE requests[q].seen[b]
    <3>1. ~(begun[q].op \in WriteOps /\ b \in lba \cap begun[q].lba)
      BY <1>3, <1>6 DEF Writers, Same, WriteOps
    <3>2. new[q].seen[b] = begun[q].seen[b]
      BY <3>1, <1>7 DEF AllCovered
    <3>3. data[b] = Uncor
      BY <1>4
    <3>4. requests'[q].seen[b] = begun[q].seen[b]
      BY <3>2, <1>2
    <3> QED BY <3>3, <3>4, <1>6
  <2> QED BY <2>1
<1>10. /\ \A b : Writers(b)' = Writers(b) /\ Writers(b) \subseteq Requests
       /\ \A b \in Blocks : \A w \in Writers(b) :
            /\ requests'[w].seen[b] = requests[w].seen[b] /\ requests'[w].data = requests[w].data
            /\ requests'[w].todo = requests[w].todo /\ b \notin lba
  BY <1>3, <1>8, <1>9 DEF Writers, Same
<1>11. IoTypeOK'
  BY <1>1, <1>2, <1>5, <1>7 DEF IoTypeOK, IoInv, AllCovered
<1>12. Shapes'
  <2> SUFFICES ASSUME NEW q \in Requests
               PROVE  /\ requests'[q].todo \subseteq requests'[q].lba
                      /\ requests'[q].op \notin WriteOps => requests'[q].todo = {}
                      /\ requests'[q].op = "copyin" => \A b \in Blocks : requests'[q].seen[b] = {}
                      /\ requests'[q].op \in {"copyin", "copyout"} => requests'[q].ranges # <<>>
    BY DEF Shapes
  <2>1. /\ requests'[q].todo = requests[q].todo /\ requests'[q].lba = requests[q].lba
        /\ requests'[q].op = requests[q].op /\ requests'[q].ranges = requests[q].ranges
    BY <1>8 DEF Same
  <2>2. requests[q].op # "read" => \A b \in Blocks : requests'[q].seen[b] = requests[q].seen[b]
    BY <1>9
  <2> QED BY <2>1, <2>2 DEF Shapes, IoInv
<1>13. MediumKnown' /\ BlocksMoved' /\ SeenIsLatest'
  <2>1. MediumKnown'
    BY <1>2, <1>10 DEF MediumKnown, IoInv
  <2>2. BlocksMoved'
    BY <1>2, <1>10 DEF BlocksMoved, Beside, IoInv
  <2>3. SeenIsLatest'
    BY <1>2, <1>10 DEF SeenIsLatest, IoInv
  <2> QED BY <2>1, <2>2, <2>3
<1>14. \A q \in Requests : requests[q].lba \subseteq Blocks /\ requests'[q].lba = requests[q].lba
                            /\ requests'[q].op = requests[q].op
  BY <1>8 DEF Same, IoInv, IoTypeOK, RequestSet
<1>15. ReadersKnow'
  <2> SUFFICES ASSUME NEW q \in Requests, requests[q].op = "read", NEW b \in requests[q].lba
               PROVE  /\ latest'[b] \subseteq requests'[q].seen[b]
                      /\ \A w \in Writers(b) : requests[w].data[b] \in requests'[q].seen[b]
    BY <1>10, <1>14 DEF ReadersKnow
  <2>1. /\ latest[b] \subseteq requests[q].seen[b]
        /\ \A w \in Writers(b) : requests[w].data[b] \in requests[q].seen[b]
    BY DEF ReadersKnow, IoInv
  <2> QED BY <2>1, <1>2, <1>9, <1>14
<1>16. ReadsAreRegular'
  <2>1. ASSUME NEW q \in Requests, requests'[q].op = "read", NEW b \in requests'[q].lba
        PROVE  media'[b] \in requests'[q].seen[b]
    <3>1. requests[q].op = "read" /\ b \in requests[q].lba /\ b \in Blocks
      BY <2>1, <1>14
    <3>2. media[b] \in requests[q].seen[b]
      BY <3>1 DEF ReadsAreRegular, IoInv
    <3> QED BY <3>1, <3>2, <1>2, <1>9
  <2>2. ASSUME NEW b \in uncorrectable' PROVE Uncor \in latest'[b]
    BY <2>2, <1>1, <1>2 DEF ReadsAreRegular, IoInv, IoTypeOK
  <2> QED BY <2>1, <2>2 DEF ReadsAreRegular
<1> QED BY <1>11, <1>12, <1>13, <1>15, <1>16 DEF IoInv

LEMMA ProtectionKeeps ==
  ASSUME IoInv, UNCHANGED <<uncorrectable, media, requests, latest>>,
         nwps' \in 0..3, nsattr' \in {0, 1}
  PROVE  IoInv'
<1>1. IoTypeOK'
  BY DEF IoInv, IoTypeOK
<1>2. Shapes' /\ MediumKnown' /\ SeenIsLatest' /\ ReadersKnow' /\ ReadsAreRegular'
  BY DEF IoInv, Shapes, MediumKnown, SeenIsLatest, ReadersKnow, ReadsAreRegular, Writers
<1>3. BlocksMoved'
  BY DEF IoInv, BlocksMoved, Beside, Writers
<1> QED BY <1>1, <1>2, <1>3 DEF IoInv

LEMMA IoStepInv ==
  ASSUME Careful, IoInv, [IoNext]_ioVars
  PROVE  IoInv'
<1>0. nwps \in 0..3 /\ nsattr \in {0, 1}
  BY DEF IoInv, IoTypeOK
<1>1. CASE UNCHANGED ioVars
  BY <1>0, <1>1, ProtectionKeeps DEF ioVars
<1>2. ASSUME NEW r \in Requests, NEW lba \in Extents, Read(r, lba) PROVE IoInv'
  BY <1>2, ReadInv
<1>3. ASSUME NEW r \in Requests, NEW lba \in Extents, Dsm(r, lba) PROVE IoInv'
  <2>1. Free(r) /\ Admitted(r, "dsm", lba, 0)
        /\ UNCHANGED <<uncorrectable, nwps, nsattr, media, latest>>
    BY <1>3 DEF Dsm
  <2> QED BY <2>1, AdmittedInv, NamespaceIoAssumption
<1>4. ASSUME NEW r \in Requests, NEW lba \in Extents, NEW v \in Contents, Write(r, lba, v)
      PROVE  IoInv'
  <2>1. Free(r) /\ Admitted(r, "write", lba, v)
        /\ UNCHANGED <<uncorrectable, nwps, nsattr, media, latest>>
    BY <1>4 DEF Write
  <2> QED BY <2>1, AdmittedInv
<1>5. ASSUME NEW r \in Requests, NEW ranges \in CopyRanges, NEW slba \in Blocks,
             Copy(r, ranges, slba)
      PROVE  IoInv'
  BY <1>5, CopyInv
<1>6. ASSUME NEW lba \in Extents, WriteUncor(lba) PROVE IoInv'
  BY <1>6, WriteUncorInv
<1>7. ASSUME NEW r \in Requests, BlockStep(r) PROVE IoInv'
  BY <1>7, WriteBlockInv, ReadDoneInv, WriteDoneInv, WriteFailsInv, CopyInInv, CopyOutDoneInv
  DEF BlockStep
<1>8. ASSUME NEW state \in 0..3, SetProtection(state) PROVE IoInv'
  BY <1>8, ProtectionKeeps DEF SetProtection, Protections
<1>9. CASE PowerCycle
  BY <1>0, <1>9, ProtectionKeeps DEF PowerCycle
<1> QED BY <1>1, <1>2, <1>3, <1>4, <1>5, <1>6, <1>7, <1>8, <1>9 DEF IoNext

\* The state is well formed, for a careful host.
THEOREM IoTypeCorrect == ASSUME Careful PROVE IoSpec => []IoTypeOK
<1>1. IoInit => IoInv
  BY IoInitInv
<1>2. IoInv /\ [IoNext]_ioVars => IoInv'
  BY IoStepInv
<1>3. IoInv => IoTypeOK
  BY DEF IoInv
<1> QED BY <1>1, <1>2, <1>3, PTL DEF IoSpec

\* A careful host's reads return what a write beside them, or one of the last
\* before them, has left, and every mark is of a Write Uncorrectable that is one
\* of the last writes to its block.
THEOREM ReadsCorrect == ASSUME Careful PROVE IoSpec => []ReadsAreRegular
<1>1. IoInit => IoInv
  BY IoInitInv
<1>2. IoInv /\ [IoNext]_ioVars => IoInv'
  BY IoStepInv
<1>3. IoInv => ReadsAreRegular
  BY DEF IoInv
<1> QED BY <1>1, <1>2, <1>3, PTL DEF IoSpec
=============================================================================
