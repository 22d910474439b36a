--------------------------- MODULE MCChatRecorder ---------------------------
(***************************************************************************)
(* Two streams for ChatRecorder, so close to each other that the VOD of either *)
(* is a candidate for both, with differences of either sign and one that is 0. *)
(***************************************************************************)
EXTENDS ChatRecorder

TwoStarts == <<0, 6>>
TwoDates == <<2, 6>>
=============================================================================
