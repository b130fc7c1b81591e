---------------------------- MODULE MCController ----------------------------
(***************************************************************************)
(* Instances of Controller for TLC: a namespace of two blocks under an I/O *)
(* controller and an administrative one, with and without Write            *)
(* Uncorrectable; and two administrative controllers with self-tests.      *)
(***************************************************************************)
EXTENDS Controller, TLC

CONSTANTS c1, c2

Io(oncs) == [oncs |-> oncs, oacs |-> {"FORMAT", "NS_MGMT"}, administrative |-> FALSE,
             bootpart |-> FALSE, subsys |-> TRUE]
Admin(oacs) == [oncs |-> DefaultOncs, oacs |-> oacs, administrative |-> TRUE,
                bootpart |-> TRUE, subsys |-> TRUE]

MCControllers == {c1, c2}
MCParamChoices ==
  {c1 :> Io({"WRITE_UNCOR", "COPY", "VERIFY"}) @@ c2 :> Admin({}),
   c1 :> Io({"WRITE_ZEROES", "DSM", "COMPARE"}) @@ c2 :> Admin({}),
   c1 :> Admin(DefaultOacs) @@ c2 :> Admin({"DST"}),
   c1 :> Admin(DefaultOacs) @@ c2 :> Admin({})}
MCCopyRanges == {<<{1}, {0}>>}
MCNamespaces == {}
MCSymmetry == Permutations(Requests)
=============================================================================
