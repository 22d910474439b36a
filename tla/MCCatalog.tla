----------------------------- MODULE MCCatalog -----------------------------
(***************************************************************************)
(* What requests ask for in the run of Catalog.                              *)
(***************************************************************************)
EXTENDS Catalog

\* Everything; fewer VODs than a page; the recent ones.
ThreeModes == {[max |-> 0, recent |-> 0], [max |-> 1, recent |-> 0], [max |-> 0, recent |-> 3]}
=============================================================================
