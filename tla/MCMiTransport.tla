--------------------------- MODULE MCMiTransport ---------------------------
(***************************************************************************)
(* Instances of MiTransport for TLC: 4 bytes of payload per packet from    *)
(* the host, 5 or 8 from the endpoint, requests of one and two packets,    *)
(* answers of one to three, a request that is not answered, and hosts that *)
(* are killed while they read.  There is room for the message's checksum   *)
(* in the last packet of each answer.                                      *)
(***************************************************************************)
EXTENDS MiTransport

MCRequests == {[kind |-> READ, len |-> 3, arg |-> 1],
               [kind |-> READ, len |-> 6, arg |-> 2],
               [kind |-> CONFIG_UNIT, len |-> 3, arg |-> 5],
               [kind |-> CONFIG_UNIT, len |-> 3, arg |-> 8],
               [kind |-> UNKNOWN, len |-> 3, arg |-> 0]}
MCUnits == {5, 8}
MCReadSizes == <<4, 10>>
MCCrcBytes == {0}
MCPattern(tag, i) == 20 * tag + i
MCMayAbort == {"read"}
=============================================================================
