------------------------------- MODULE MCMiCli -------------------------------
(***************************************************************************)
(* Instances of MiCli for TLC: for each option the few numbers that tell   *)
(* its range, its width and the endpoint's cases apart, two options a      *)
(* process, a stack of zeros and one of bytes that are read back as a      *)
(* legal request of chspoll, and identify structures of four packets.      *)
(***************************************************************************)
EXTENDS MiCli

MCNumbers ==
  [ctrlid |-> {258}, portid |-> {7}, dtyp |-> {0, 4}, cs |-> {1, 256}, cdw0 |-> {}, cdw1 |-> {},
   configid |-> {1, 3}, smbusfreq |-> {28}, mctpunitsz |-> {0, 32}, dofst |-> {1}, dlen |-> {2},
   data |-> {1}, cns |-> {1, 2}, cntid |-> {}, nsid |-> {1}, log_id |-> {0}, log_len |-> {70},
   lpo |-> {}, lsp |-> {}, uuid_index |-> {2}, rae |-> {}, namespace_id |-> {},
   feature_id |-> {4}, sel |-> {2}, data_len |-> {8}, cdw11 |-> {}]
MCStacks == {[i \in Offsets |-> 0], [i \in Offsets |-> 129]}
MCJunk == {0, 8487297}
MCNamespaces == {1}
=============================================================================
