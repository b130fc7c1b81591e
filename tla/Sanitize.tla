------------------------------ MODULE Sanitize ------------------------------
(***************************************************************************)
(* The Sanitize command of patches/sanitize.patch.  The overwrite action   *)
(* queues one write of a whole namespace per pass and namespace, answers   *)
(* NVME_NO_COMPLETE and returns; each write ends in a callback, and the    *)
(* callback that brings both reference counts to zero completes the        *)
(* command.  Nothing keeps a second Sanitize from starting meanwhile.      *)
(*                                                                         *)
(* Handlers and callbacks run on one thread, so each is one step, and the  *)
(* writes of a command end in any order.  The patterns written and the     *)
(* estimates of the log page are left out.                                 *)
(***************************************************************************)
EXTENDS Integers, FiniteSets

CONSTANTS
  Reqs,            \* slots of the admin queue
  Attached,        \* the namespaces attached to the controller
  OwPasses,        \* values of the 4-bit overwrite pass count a host may send
  DefaultPasses    \* 15: what a pass count of 0 stands for

ASSUME SanitizeAssumption ==
  /\ IsFiniteSet(Attached)
  /\ DefaultPasses \in Nat \ {0}
  /\ OwPasses \subseteq 0..DefaultPasses

VARIABLES
  state,      \* of each slot: "free", "active", or "posted" (completion not reaped)
  failed,     \* req->status: a write of the slot's command has failed
  numOvrs,    \* req->opaque: namespaces the command is still overwriting
  count,      \* *ctx->count of each command and namespace: passes to go
  freed,      \* the command's context of the namespace has been freed
  inFlight,   \* writes the block layer has not called back for
  nsStatus,   \* ns->status is NVME_SANITIZE_IN_PROGRESS: no I/O is admitted
  sanilog,    \* sstat.status, sprog, sstat.owcount and the action in scdw10
  crashed     \* the emulator died on a double free

vars == <<state, failed, numOvrs, count, freed, inFlight, nsStatus, sanilog, crashed>>

Sanacts == {"exit_failure", "overwrite", "unsupported"}
LogStatus == {"never", "completed", "in_progress", "failed"}

TypeOK ==
  /\ state \in [Reqs -> {"free", "active", "posted"}]
  /\ failed \in [Reqs -> BOOLEAN]
  /\ numOvrs \in [Reqs -> 0..Cardinality(Attached)]
  /\ count \in [Reqs -> [Attached -> 0..DefaultPasses]]
  /\ freed \in [Reqs -> [Attached -> BOOLEAN]]
  /\ inFlight \in [Reqs -> [Attached -> 0..DefaultPasses]]
  /\ nsStatus \in [Attached -> BOOLEAN]
  /\ sanilog \in [status : LogStatus, done : BOOLEAN, owcount : 0..DefaultPasses,
                  scdw10 : Sanacts \cup {"none"}]
  /\ crashed \in BOOLEAN

Init ==
  /\ state = [r \in Reqs |-> "free"]
  /\ failed = [r \in Reqs |-> FALSE]
  /\ numOvrs = [r \in Reqs |-> 0]
  /\ count = [r \in Reqs |-> [n \in Attached |-> 0]]
  /\ freed = [r \in Reqs |-> [n \in Attached |-> FALSE]]
  /\ inFlight = [r \in Reqs |-> [n \in Attached |-> 0]]
  /\ nsStatus = [n \in Attached |-> FALSE]
  /\ sanilog = [status |-> "never", done |-> FALSE, owcount |-> 0, scdw10 |-> "none"]
  /\ crashed = FALSE

-----------------------------------------------------------------------------
(* The command.                                                            *)

Passes(owpass) == IF owpass = 0 THEN DefaultPasses ELSE owpass

\* Forgets to give the initial reference of the namespaces back.
MutantStartedOvrs == Cardinality(Attached) + 1

\* num_ovrs when the handler returns: one per namespace, the initial one given back.
StartedOvrs == Cardinality(Attached)

\* Overwrite: every attached namespace is blocked and its writes are queued;
\* without one the command succeeds at once and leaves the log in progress.
Overwrite(r, owpass) ==
  /\ state[r] = "free"
  /\ state' = [state EXCEPT ![r] = IF Attached = {} THEN "posted" ELSE "active"]
  /\ failed' = [failed EXCEPT ![r] = FALSE]
  /\ numOvrs' = [numOvrs EXCEPT ![r] = StartedOvrs]
  /\ count' = [count EXCEPT ![r] = [n \in Attached |-> Passes(owpass)]]
  /\ freed' = [freed EXCEPT ![r] = [n \in Attached |-> FALSE]]
  /\ inFlight' = [inFlight EXCEPT ![r] = [n \in Attached |-> Passes(owpass)]]
  /\ nsStatus' = [n \in Attached |-> TRUE]
  /\ sanilog' = [status |-> "in_progress", done |-> FALSE, scdw10 |-> "overwrite",
                 owcount |-> IF Attached = {} THEN sanilog.owcount ELSE Passes(owpass)]
  /\ UNCHANGED crashed

\* Exit Failure Mode does not ask whether a sanitize failed, or runs.
ExitFailure(r) ==
  /\ state[r] = "free"
  /\ state' = [state EXCEPT ![r] = "posted"]
  /\ failed' = [failed EXCEPT ![r] = FALSE]
  /\ sanilog' = [sanilog EXCEPT !.status = "completed", !.done = TRUE,
                                !.scdw10 = "exit_failure"]
  /\ UNCHANGED <<numOvrs, count, freed, inFlight, nsStatus, crashed>>

\* Starts the log before it looks at the action.
MutantUnsupported(r) ==
  /\ state[r] = "free"
  /\ state' = [state EXCEPT ![r] = "posted"]
  /\ failed' = [failed EXCEPT ![r] = TRUE]
  /\ sanilog' = [sanilog EXCEPT !.status = "in_progress", !.scdw10 = "unsupported"]
  /\ UNCHANGED <<numOvrs, count, freed, inFlight, nsStatus, crashed>>

\* Any other action is refused after the log has taken it down.  (With a
\* namespace named, or with the PMR enabled, nothing changes.)
Unsupported(r) ==
  /\ state[r] = "free"
  /\ state' = [state EXCEPT ![r] = "posted"]
  /\ failed' = [failed EXCEPT ![r] = TRUE]
  /\ sanilog' = [sanilog EXCEPT !.scdw10 = "unsupported"]
  /\ UNCHANGED <<numOvrs, count, freed, inFlight, nsStatus, crashed>>

-----------------------------------------------------------------------------
(* nvme_aio_sanitize_ow_cb                                                 *)

\* Clears the namespace's status at the first write that ends.
MutantLastPass(r, n) == TRUE
LastPass(r, n) == count[r][n] = 1

\* Completes the command with the first namespace that is done.
MutantLastNamespace(r) == TRUE
LastNamespace(r) == numOvrs[r] = 1

\* The context is shared by the passes of a namespace, and every callback
\* frees it.  From the second on the callback works on freed memory and frees
\* it again: it dies, or finds the old contents and goes on.
DoubleFree(r, n) ==
  /\ freed[r][n] /\ inFlight[r][n] > 0
  /\ crashed' = TRUE
  /\ UNCHANGED <<state, failed, numOvrs, count, freed, inFlight, nsStatus, sanilog>>

\* Does not look at whether the namespace has passes to go.
MutantReleaseNamespace(r, n) ==
  [nsStatus EXCEPT ![n] = IF numOvrs[r] = 1 THEN FALSE ELSE @]

ReleaseNamespace(r, n) == [nsStatus EXCEPT ![n] = IF LastPass(r, n) THEN FALSE ELSE @]

OverwriteDone(r, n, ok) ==
  LET last == LastPass(r, n) /\ LastNamespace(r) IN
  /\ inFlight[r][n] > 0
  /\ inFlight' = [inFlight EXCEPT ![r][n] = @ - 1]
  /\ freed' = [freed EXCEPT ![r][n] = TRUE]
  /\ count' = [count EXCEPT ![r][n] = @ - 1]
  /\ nsStatus' = ReleaseNamespace(r, n)
  /\ numOvrs' = [numOvrs EXCEPT ![r] = IF LastPass(r, n) THEN @ - 1 ELSE @]
  /\ failed' = [failed EXCEPT ![r] = @ \/ ~ok]
  /\ state' = [state EXCEPT ![r] = IF last THEN "posted" ELSE @]
  /\ sanilog' = [sanilog EXCEPT
       !.status = IF last THEN "completed" ELSE IF ok THEN @ ELSE "failed",
       !.done = @ \/ last]
  /\ UNCHANGED crashed

\* The host takes the completion and may use the slot again.
Reap(r) ==
  /\ state[r] = "posted"
  /\ state' = [state EXCEPT ![r] = "free"]
  /\ UNCHANGED <<failed, numOvrs, count, freed, inFlight, nsStatus, sanilog, crashed>>

-----------------------------------------------------------------------------

Callback(r) ==
  \E n \in Attached : DoubleFree(r, n) \/ \E ok \in BOOLEAN : OverwriteDone(r, n, ok)

Command(r) ==
  (\E owpass \in OwPasses : Overwrite(r, owpass)) \/ ExitFailure(r) \/ Unsupported(r)

Next == ~crashed /\ \E r \in Reqs : Command(r) \/ Callback(r) \/ Reap(r)

\* The block layer calls back for every write it has accepted.
Fairness == \A r \in Reqs : WF_vars(~crashed /\ Callback(r))

Spec == Init /\ [][Next]_vars /\ Fairness

-----------------------------------------------------------------------------
(* Properties                                                              *)

Outstanding(r) == {n \in Attached : inFlight[r][n] > 0}

\* The two reference counts agree with the writes that are really out: the
\* completion is posted by the last callback and by no earlier one.
CompletesAfterLastWrite ==
  \A r \in Reqs : (state[r] = "active") <=> (Outstanding(r) # {})

\* A namespace is opened to I/O again only by the end of the last write of a
\* sanitize to it, also when two sanitize commands run on top of each other.
OpenedByLastWrite ==
  [][\A n \in Attached :
       (nsStatus[n] /\ ~nsStatus'[n])
         => \E r \in Reqs : inFlight[r][n] = 1 /\ inFlight'[r][n] = 0]_vars

\* No namespace stays closed to I/O when nothing is being overwritten.
ClosedOnlyWhileOverwritten ==
  \A n \in Attached : nsStatus[n] => \E r \in Reqs : n \in Outstanding(r)

\* The log does not show a sanitize in progress when none runs (there is a
\* namespace to sanitize: without one it would show it for ever).
ProgressMeansActive ==
  (sanilog.status = "in_progress" /\ Attached # {}) => \E r \in Reqs : state[r] = "active"

\* Every sanitize ends, whatever the order of the callbacks and however many
\* fail, unless the double free ends the emulator first.
EverySanitizeEnds == \A r \in Reqs : state[r] = "active" ~> state[r] = "posted" \/ crashed

\* NVME_SANITIZE_OP_FAILED is the status of a sanitize that failed: once the
\* only command is over, the log shows it.  The code does not keep this: the
\* last callback writes NVME_SANITIZE_OP_COMPLETED over it.
FailureIsLogged ==
  \A r \in Reqs :
    (state[r] = "posted" /\ failed[r] /\ sanilog.scdw10 = "overwrite")
      => sanilog.status = "failed"

\* Overwrite is supported for every pass count, the default one included: no
\* callback frees a context a second time.  The code does not keep this.
ContextFreedOnce == ~crashed
=============================================================================
