--------------------------- MODULE SanitizeProofs ---------------------------
(***************************************************************************)
(* Proofs, for any number of command slots, namespaces and passes, of the  *)
(* safety properties of Sanitize.                                          *)
(*                                                                         *)
(* The two reference counts are not inductive by themselves.  CountsOK     *)
(* ties them to what the block layer still owes: *count is the number of   *)
(* writes out to the namespace, num_ovrs the number of namespaces with one *)
(* out, and a command is active while it has such a namespace.             *)
(***************************************************************************)
EXTENDS Sanitize, FiniteSetTheorems, TLAPS

CountsOK ==
  \A r \in Reqs :
    /\ \A n \in Attached : count[r][n] = inFlight[r][n]
    /\ numOvrs[r] = Cardinality(Outstanding(r))
    /\ state[r] = "active" <=> Outstanding(r) # {}

Inv ==
  /\ TypeOK
  /\ CountsOK
  /\ ClosedOnlyWhileOverwritten
  /\ ProgressMeansActive

-----------------------------------------------------------------------------
(* Outstanding namespaces and their number.                                *)

LEMMA OutstandingFinite ==
  ASSUME NEW r
  PROVE  /\ IsFiniteSet(Outstanding(r))
         /\ Cardinality(Outstanding(r)) \in 0..Cardinality(Attached)
<1>1. Outstanding(r) \subseteq Attached
  BY DEF Outstanding
<1>2. IsFiniteSet(Attached)
  BY SanitizeAssumption
<1>3. /\ IsFiniteSet(Outstanding(r))
      /\ Cardinality(Outstanding(r)) <= Cardinality(Attached)
  BY <1>1, <1>2, FS_Subset
<1>4. Cardinality(Outstanding(r)) \in Nat /\ Cardinality(Attached) \in Nat
  BY <1>2, <1>3, FS_CardinalityType
<1> QED BY <1>3, <1>4

\* A command without outstanding namespaces has counted down to zero, and
\* one with any has not.
LEMMA CountZero ==
  ASSUME NEW r
  PROVE  Cardinality(Outstanding(r)) = 0 <=> Outstanding(r) = {}
BY OutstandingFinite, FS_EmptySet

LEMMA PassesType ==
  ASSUME NEW owpass \in OwPasses
  PROVE  Passes(owpass) \in 1..DefaultPasses
BY SanitizeAssumption DEF Passes

-----------------------------------------------------------------------------
(* The steps.                                                              *)

LEMMA InitInv == Init => Inv
<1> SUFFICES ASSUME Init PROVE Inv
  OBVIOUS
<1>1. \A r \in Reqs : Outstanding(r) = {}
  BY DEF Init, Outstanding
<1>2. 0 \in 0..DefaultPasses /\ 0 \in 0..Cardinality(Attached)
  BY SanitizeAssumption, FS_CardinalityType
<1>3. TypeOK
  BY <1>2 DEF Init, TypeOK, LogStatus, Sanacts
<1>4. CountsOK
  BY <1>1, CountZero DEF Init, CountsOK
<1>5. ClosedOnlyWhileOverwritten /\ ProgressMeansActive
  BY DEF Init, ClosedOnlyWhileOverwritten, ProgressMeansActive
<1> QED BY <1>3, <1>4, <1>5 DEF Inv

LEMMA OverwriteInv ==
  ASSUME Inv, NEW r \in Reqs, NEW owpass \in OwPasses, Overwrite(r, owpass)
  PROVE  Inv'
<1> USE DEF Inv
<1>1. Passes(owpass) \in 1..DefaultPasses
  BY PassesType
<1>2. Outstanding(r)' = Attached
  BY <1>1 DEF Overwrite, Outstanding, TypeOK
<1>3. \A q \in Reqs \ {r} : Outstanding(q)' = Outstanding(q)
  BY DEF Overwrite, Outstanding, TypeOK
<1>4. TypeOK'
  <2>1. Cardinality(Attached) \in 0..Cardinality(Attached)
    BY SanitizeAssumption, FS_CardinalityType
  <2>2. sanilog' \in [status : LogStatus, done : BOOLEAN, owcount : 0..DefaultPasses,
                      scdw10 : Sanacts \cup {"none"}]
    BY <1>1 DEF Overwrite, TypeOK, LogStatus, Sanacts
  <2> QED BY <1>1, <2>1, <2>2 DEF Overwrite, StartedOvrs, TypeOK
<1>5. CountsOK'
  <2> SUFFICES ASSUME NEW q \in Reqs
               PROVE  /\ \A n \in Attached : count'[q][n] = inFlight'[q][n]
                      /\ numOvrs'[q] = Cardinality(Outstanding(q)')
                      /\ state'[q] = "active" <=> Outstanding(q)' # {}
    BY DEF CountsOK
  <2>1. CASE q = r
    BY <2>1, <1>2 DEF Overwrite, StartedOvrs, TypeOK
  <2>2. CASE q # r
    BY <2>2, <1>3 DEF Overwrite, TypeOK, CountsOK
  <2> QED BY <2>1, <2>2
<1>6. ClosedOnlyWhileOverwritten'
  BY <1>2 DEF ClosedOnlyWhileOverwritten
<1>7. ProgressMeansActive'
  BY DEF ProgressMeansActive, Overwrite, TypeOK
<1> QED BY <1>4, <1>5, <1>6, <1>7

\* The commands and host steps that leave the writes alone.
LEMMA OtherInv ==
  ASSUME Inv, NEW r \in Reqs, ExitFailure(r) \/ Unsupported(r) \/ Reap(r)
  PROVE  Inv'
<1> USE DEF Inv
<1>1. \A q \in Reqs : Outstanding(q)' = Outstanding(q)
  BY DEF ExitFailure, Unsupported, Reap, Outstanding
<1>2. TypeOK'
  <2>1. CASE ExitFailure(r)
    BY <2>1 DEF ExitFailure, TypeOK, LogStatus, Sanacts
  <2>2. CASE Unsupported(r)
    BY <2>2 DEF Unsupported, TypeOK, LogStatus, Sanacts
  <2>3. CASE Reap(r)
    BY <2>3 DEF Reap, TypeOK
  <2> QED BY <2>1, <2>2, <2>3
<1>3. \A q \in Reqs : state'[q] = "active" <=> state[q] = "active"
  BY DEF ExitFailure, Unsupported, Reap, TypeOK
<1>4. CountsOK'
  BY <1>1, <1>3 DEF CountsOK, ExitFailure, Unsupported, Reap
<1>5. ClosedOnlyWhileOverwritten'
  BY <1>1 DEF ClosedOnlyWhileOverwritten, ExitFailure, Unsupported, Reap
<1>6. sanilog'.status = "in_progress" => sanilog.status = "in_progress"
  BY DEF ExitFailure, Unsupported, Reap, TypeOK
<1>7. ProgressMeansActive'
  BY <1>3, <1>6 DEF ProgressMeansActive
<1> QED BY <1>2, <1>4, <1>5, <1>7

\* A step that changes at most the fate of the emulator.
LEMMA StutterInv ==
  ASSUME Inv, crashed' \in BOOLEAN,
         UNCHANGED <<state, failed, numOvrs, count, freed, inFlight, nsStatus, sanilog>>
  PROVE  Inv'
<1> USE DEF Inv
<1>1. \A q \in Reqs : Outstanding(q)' = Outstanding(q)
  BY DEF Outstanding
<1>2. TypeOK'
  BY DEF TypeOK
<1>3. CountsOK'
  BY <1>1 DEF CountsOK
<1>4. ClosedOnlyWhileOverwritten'
  BY <1>1 DEF ClosedOnlyWhileOverwritten
<1>5. ProgressMeansActive'
  BY DEF ProgressMeansActive
<1> QED BY <1>2, <1>3, <1>4, <1>5

\* What the end of a write does to the outstanding namespaces.
LEMMA DoneOutstanding ==
  ASSUME Inv, NEW r \in Reqs, NEW n \in Attached, NEW ok \in BOOLEAN,
         OverwriteDone(r, n, ok)
  PROVE  /\ n \in Outstanding(r)
         /\ \A q \in Reqs \ {r} : Outstanding(q)' = Outstanding(q)
         /\ LastPass(r, n) <=> inFlight[r][n] = 1
         /\ Outstanding(r)' = IF LastPass(r, n) THEN Outstanding(r) \ {n} ELSE Outstanding(r)
         /\ numOvrs'[r] = Cardinality(Outstanding(r)')
         /\ (LastPass(r, n) /\ LastNamespace(r)) <=> Outstanding(r)' = {}
<1> USE DEF Inv
<1>1. n \in Outstanding(r)
  BY DEF OverwriteDone, Outstanding
<1>2. \A q \in Reqs \ {r} : Outstanding(q)' = Outstanding(q)
  BY DEF OverwriteDone, Outstanding, TypeOK
<1>3. LastPass(r, n) <=> inFlight[r][n] = 1
  BY DEF LastPass, CountsOK
<1>4. inFlight[r][n] \in 1..DefaultPasses
  BY SanitizeAssumption DEF OverwriteDone, TypeOK
<1>5. \A m \in Attached : inFlight'[r][m] = IF m = n THEN inFlight[r][n] - 1 ELSE inFlight[r][m]
  BY DEF OverwriteDone, TypeOK
<1>6. Outstanding(r)' = IF LastPass(r, n) THEN Outstanding(r) \ {n} ELSE Outstanding(r)
  BY <1>3, <1>4, <1>5, SanitizeAssumption DEF Outstanding
<1>7. Cardinality(Outstanding(r) \ {n}) = Cardinality(Outstanding(r)) - 1
  BY <1>1, OutstandingFinite, FS_RemoveElement
<1>8. numOvrs[r] = Cardinality(Outstanding(r))
  BY DEF CountsOK
<1>9. numOvrs'[r] = Cardinality(Outstanding(r)')
  BY <1>6, <1>7, <1>8 DEF OverwriteDone, TypeOK
<1>10. (LastPass(r, n) /\ LastNamespace(r)) <=> Outstanding(r)' = {}
  <2>1. ASSUME LastPass(r, n) PROVE LastNamespace(r) <=> Outstanding(r) \ {n} = {}
    <3>1. IsFiniteSet(Outstanding(r) \ {n})
      BY OutstandingFinite, FS_RemoveElement
    <3>2. Cardinality(Outstanding(r) \ {n}) = 0 <=> Outstanding(r) \ {n} = {}
      BY <3>1, FS_EmptySet
    <3>3. Cardinality(Outstanding(r)) \in Nat
      BY OutstandingFinite, FS_CardinalityType
    <3> QED BY <3>2, <3>3, <1>7, <1>8 DEF LastNamespace
  <2> QED BY <1>1, <1>6, <2>1
<1> QED BY <1>1, <1>2, <1>3, <1>6, <1>9, <1>10

LEMMA DoneInv ==
  ASSUME Inv, NEW r \in Reqs, NEW n \in Attached, NEW ok \in BOOLEAN,
         OverwriteDone(r, n, ok)
  PROVE  Inv'
<1> USE DEF Inv
<1>1. TypeOK'
  <2>1. inFlight' \in [Reqs -> [Attached -> 0..DefaultPasses]]
    BY SanitizeAssumption DEF OverwriteDone, TypeOK
  <2>2. count' \in [Reqs -> [Attached -> 0..DefaultPasses]]
    BY SanitizeAssumption DEF OverwriteDone, TypeOK, CountsOK
  <2>3. numOvrs' \in [Reqs -> 0..Cardinality(Attached)]
    <3>1. numOvrs[r] \in 1..Cardinality(Attached)
      <4>1. numOvrs[r] # 0
        BY DoneOutstanding, CountZero DEF CountsOK
      <4> QED BY <4>1, SanitizeAssumption, FS_CardinalityType DEF TypeOK
    <3> QED BY <3>1, SanitizeAssumption, FS_CardinalityType DEF OverwriteDone, TypeOK
  <2>4. sanilog' \in [status : LogStatus, done : BOOLEAN, owcount : 0..DefaultPasses,
                      scdw10 : Sanacts \cup {"none"}]
    <3>1. LastPass(r, n) \in BOOLEAN /\ LastNamespace(r) \in BOOLEAN
      BY DEF LastPass, LastNamespace
    <3>2. "completed" \in LogStatus /\ "failed" \in LogStatus
      BY DEF LogStatus
    <3> QED BY <3>1, <3>2 DEF OverwriteDone, TypeOK
  <2>5. freed' \in [Reqs -> [Attached -> BOOLEAN]] /\ nsStatus' \in [Attached -> BOOLEAN]
    BY DEF OverwriteDone, ReleaseNamespace, TypeOK
  <2>6. failed' \in [Reqs -> BOOLEAN] /\ crashed' \in BOOLEAN
    BY DEF OverwriteDone, TypeOK
  <2>7. state' \in [Reqs -> {"free", "active", "posted"}]
    BY DEF OverwriteDone, TypeOK
  <2> QED BY <2>1, <2>2, <2>3, <2>4, <2>5, <2>6, <2>7 DEF TypeOK
<1>2. CountsOK'
  <2> SUFFICES ASSUME NEW q \in Reqs
               PROVE  /\ \A m \in Attached : count'[q][m] = inFlight'[q][m]
                      /\ numOvrs'[q] = Cardinality(Outstanding(q)')
                      /\ state'[q] = "active" <=> Outstanding(q)' # {}
    BY DEF CountsOK
  <2>1. \A m \in Attached : count'[q][m] = inFlight'[q][m]
    BY DEF OverwriteDone, TypeOK, CountsOK
  <2>2. CASE q = r
    <3>1. state[r] = "active"
      BY DoneOutstanding DEF CountsOK
    <3>2. state'[r] = IF LastPass(r, n) /\ LastNamespace(r) THEN "posted" ELSE state[r]
      BY DEF OverwriteDone, TypeOK
    <3> QED BY <2>1, <2>2, <3>1, <3>2, DoneOutstanding
  <2>3. CASE q # r
    <3>1. state'[q] = state[q] /\ numOvrs'[q] = numOvrs[q]
      BY <2>3 DEF OverwriteDone, TypeOK
    <3> QED BY <2>1, <2>3, <3>1, DoneOutstanding DEF CountsOK
  <2> QED BY <2>2, <2>3
<1>3. ClosedOnlyWhileOverwritten'
  <2> SUFFICES ASSUME NEW m \in Attached, nsStatus'[m]
               PROVE  \E q \in Reqs : m \in Outstanding(q)'
    BY DEF ClosedOnlyWhileOverwritten
  <2>1. nsStatus[m] /\ ~(m = n /\ LastPass(r, n))
    BY DEF OverwriteDone, ReleaseNamespace, TypeOK
  <2>2. PICK q \in Reqs : m \in Outstanding(q)
    BY <2>1 DEF ClosedOnlyWhileOverwritten
  <2> QED BY <2>1, <2>2, DoneOutstanding
<1>4. ProgressMeansActive'
  <2> SUFFICES ASSUME sanilog'.status = "in_progress", Attached # {}
               PROVE  \E q \in Reqs : state'[q] = "active"
    BY DEF ProgressMeansActive
  <2>1. ~(LastPass(r, n) /\ LastNamespace(r)) /\ sanilog.status = "in_progress"
    BY DEF OverwriteDone, TypeOK
  <2>2. state' = state
    BY <2>1 DEF OverwriteDone, TypeOK
  <2> QED BY <2>1, <2>2 DEF ProgressMeansActive
<1> QED BY <1>1, <1>2, <1>3, <1>4

LEMMA NextInv == Inv /\ [Next]_vars => Inv'
<1> SUFFICES ASSUME Inv, [Next]_vars PROVE Inv'
  OBVIOUS
<1>1. CASE Next
  <2> PICK r \in Reqs : Command(r) \/ Callback(r) \/ Reap(r)
    BY <1>1 DEF Next
  <2>1. CASE Command(r)
    BY <2>1, OverwriteInv, OtherInv DEF Command
  <2>2. CASE Callback(r)
    <3>1. CASE \E n \in Attached : DoubleFree(r, n)
      BY <3>1, StutterInv DEF DoubleFree
    <3>2. CASE \E n \in Attached, ok \in BOOLEAN : OverwriteDone(r, n, ok)
      BY <3>2, DoneInv
    <3> QED BY <2>2, <3>1, <3>2 DEF Callback
  <2>3. CASE Reap(r)
    BY <2>3, OtherInv
  <2> QED BY <2>1, <2>2, <2>3
<1>2. CASE UNCHANGED vars
  BY <1>2, StutterInv DEF vars, Inv, TypeOK
<1> QED BY <1>1, <1>2

LEMMA InvHolds == Spec => []Inv
BY InitInv, NextInv, PTL DEF Spec

-----------------------------------------------------------------------------
(* The properties.                                                         *)

\* The counts keep their ranges: neither goes below zero, whatever the order
\* of the callbacks.
THEOREM TypeCorrect == Spec => []TypeOK
<1>1. Inv => TypeOK
  BY DEF Inv
<1> QED BY InvHolds, <1>1, PTL

\* The command is completed by its last callback and by no earlier one.
THEOREM CompletionCorrect == Spec => []CompletesAfterLastWrite
<1>1. Inv => CompletesAfterLastWrite
  BY DEF Inv, CountsOK, CompletesAfterLastWrite
<1> QED BY InvHolds, <1>1, PTL

\* A namespace that is closed to I/O is being overwritten.
THEOREM NoNamespaceStaysClosed == Spec => []ClosedOnlyWhileOverwritten
<1>1. Inv => ClosedOnlyWhileOverwritten
  BY DEF Inv
<1> QED BY InvHolds, <1>1, PTL

\* A log in progress belongs to a command that runs.
THEOREM ProgressIsReal == Spec => []ProgressMeansActive
<1>1. Inv => ProgressMeansActive
  BY DEF Inv
<1> QED BY InvHolds, <1>1, PTL

\* A namespace is opened again by the last write of a sanitize to it.
THEOREM OpeningCorrect == Spec => OpenedByLastWrite
<1> DEFINE Step == \A n \in Attached :
                     (nsStatus[n] /\ ~nsStatus'[n])
                       => \E r \in Reqs : inFlight[r][n] = 1 /\ inFlight'[r][n] = 0
<1>1. ASSUME Inv, Next PROVE Step
  <2> SUFFICES ASSUME NEW n \in Attached, nsStatus[n], ~nsStatus'[n]
               PROVE  \E r \in Reqs : inFlight[r][n] = 1 /\ inFlight'[r][n] = 0
    OBVIOUS
  <2> PICK r \in Reqs : Command(r) \/ Callback(r) \/ Reap(r)
    BY <1>1 DEF Next
  <2>1. PICK m \in Attached, ok \in BOOLEAN : OverwriteDone(r, m, ok)
    BY DEF Command, Callback, Overwrite, ExitFailure, Unsupported, DoubleFree, Reap
  <2>2. m = n /\ LastPass(r, n)
    BY <1>1, <2>1 DEF OverwriteDone, ReleaseNamespace, Inv, TypeOK
  <2>3. inFlight[r][n] = 1
    BY <1>1, <2>1, <2>2, DoneOutstanding
  <2>4. inFlight'[r][n] = 0
    BY <1>1, <2>1, <2>2, <2>3 DEF OverwriteDone, Inv, TypeOK
  <2> QED BY <2>3, <2>4
<1> HIDE DEF Step
<1>2. Inv /\ [Next]_vars => [Step]_vars
  BY <1>1
<1> QED BY InvHolds, <1>2, PTL DEF Spec, OpenedByLastWrite, Step
=============================================================================
