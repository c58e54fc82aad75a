----------------------------- MODULE MCLocalMap -----------------------------
(***************************************************************************)
(* LocalMap on two axes: shifts on either, on both, and by the whole size.  *)
(***************************************************************************)
EXTENDS LocalMap

MCSize == <<3, 3>>
MCUsed == {<<0, 0>>, <<-1, 1>>}
=============================================================================
