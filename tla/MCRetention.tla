---------------------------- MODULE MCRetention ----------------------------
(***************************************************************************)
(* Instances of Retention for TLC, over the VODs of MCVodProcessing.         *)
(***************************************************************************)
EXTENDS Retention, MCVodProcessing
=============================================================================
