----------------------------- MODULE MCSanitize -----------------------------
(***************************************************************************)
(* Instances of Sanitize for TLC: two command slots, so that commands      *)
(* overlap, two namespaces, and a pass count of one or the default of two. *)
(***************************************************************************)
EXTENDS Sanitize

MCOwPasses == {0, 1}
=============================================================================
