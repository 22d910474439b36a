-------------------------- MODULE MCVodProcessing --------------------------
(***************************************************************************)
(* Instances of VodProcessing for TLC: which VODs there are, of which        *)
(* channel, recorded in which order, and which of them are back catalog.     *)
(***************************************************************************)
EXTENDS VodProcessing, TLC

CONSTANTS c1, c2, v1, v2, v3

TwoVods == {v1, v2}
TwoVodsHome == v1 :> c1 @@ v2 :> c1
TwoVodsDate == v1 :> 1 @@ v2 :> 2

\* Three VODs, the first two of them back catalog.
ThreeVods == {v1, v2, v3}
ThreeVodsHome == v1 :> c1 @@ v2 :> c1 @@ v3 :> c1
ThreeVodsDate == v1 :> 1 @@ v2 :> 2 @@ v3 :> 3

\* Two channels, the second with one VOD.
TwoHomes == v1 :> c1 @@ v2 :> c2
ThreeHomes == v1 :> c1 @@ v2 :> c1 @@ v3 :> c2
=============================================================================
