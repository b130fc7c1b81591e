------------------------------ MODULE MiService ------------------------------
(***************************************************************************)
(* What a management host may expect of the endpoint.  A request is        *)
(* executed at most once and as it was made, while the process that made   *)
(* it writes or, where requests are late, only when the next one does; a   *)
(* process that is answered has the answer to the request executed on its  *)
(* own time; nothing else changes the endpoint's setting.  A host may give up  *)
(* at any time; the machine may be started again.  Once the endpoint has   *)
(* lost the beginning of packets, or the slave the end of an answer,       *)
(* nothing is promised until then.  MiTransport and MiCli implement it.    *)
(***************************************************************************)
CONSTANTS
  Requests,       \* what a host may ask
  Defaults,       \* the endpoint's setting when it is started
  Apply(_, _),    \* the setting a request leaves, of the one before
  Late            \* TRUE: a request waits for the next process, if ever it runs

VARIABLES
  session,        \* [st, req, ran]: the host's request, how far it has come, and
                  \* the request executed since it was made, none or one
  owed,           \* the request that waits for the next process, none or one
  setting         \* the endpoint's setting

vars == <<session, owed, setting>>

Init == session.st = "none" /\ owed = {} /\ setting = Defaults

Ask ==
  /\ session.st \in {"none", "answered"}
  /\ session'.st = "asked" /\ session'.req \in Requests /\ session'.ran = {}
  /\ UNCHANGED <<owed, setting>>

\* Where requests are late it is never the host's own.
Execute ==
  /\ session.st = "asked" /\ session.ran = {}
  /\ \E r \in IF Late THEN owed ELSE {session.req} :
       /\ session' = [session EXCEPT !.ran = {r}]
       /\ setting' = Apply(setting, r)
  /\ owed' = {}

Hold ==
  /\ Late /\ session.st = "asked" /\ session.ran = {} /\ owed = {}
  /\ session'.st = "none" /\ owed' = {session.req}
  /\ UNCHANGED setting

Answer ==
  /\ session.st = "asked" /\ session.ran # {}
  /\ session' = [session EXCEPT !.st = "answered"]
  /\ UNCHANGED <<owed, setting>>

Leave == session.st # "lost" /\ session'.st = "none" /\ UNCHANGED <<owed, setting>>

Lose == session'.st = "lost"

Restart == session'.st = "none" /\ owed' = {} /\ setting' = Defaults

Next == Ask \/ Execute \/ Hold \/ Answer \/ Leave \/ Lose \/ Restart

Spec == Init /\ [][Next]_vars
=============================================================================
