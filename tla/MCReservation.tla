--------------------------- MODULE MCReservation ---------------------------
(***************************************************************************)
(* Instances of Reservation for TLC.  Two controllers, which start out     *)
(* speaking for the same host, and two host slots; two keys, one of them   *)
(* the key 0 that several handlers treat as "any"; a registrants-only and  *)
(* an all-registrants type, which the handlers tell apart from each other  *)
(* and from the rest; and a generation counter that wraps after three      *)
(* steps.  The exclusive types differ in the access tables only.  One of   *)
(* the hosts may ask for 128-bit identifiers, which cost it the report.    *)
(***************************************************************************)
EXTENDS Reservation

MCControllers == {0, 1}
MCNsids == {1}
MCHostIds == {0, 1}
MCKeys == {0, 1}
MCRsvTypes == {4, 6}
MCExclusiveTypes == {2, 6}
MCExtendedHosts == {1}
=============================================================================
