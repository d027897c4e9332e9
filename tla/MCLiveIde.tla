----------------------------- MODULE MCLiveIde -----------------------------
(* An instance of LiveIde for TLC.  The translation is lossy: p2 becomes y1,  *)
(* which comes back as p1; bad texts and the empty one are refused or kept.   *)
EXTENDS LiveIde, TLC

CONSTANTS p0, p1, p2, pBad, y0, y1, y2, yBad

Texts == ("pseudocode" :> { p0, p1, p2, pBad }) @@ ("python" :> { y0, y1, y2, yBad })

Translators ==
  ("pseudocode" :> (p0 :> y0 @@ p1 :> y1 @@ p2 :> y1 @@ pBad :> Refused)) @@
  ("python"     :> (y0 :> p0 @@ y1 :> p1 @@ y2 :> p2 @@ yBad :> Refused))

StarterProgram == ("pseudocode" :> p1) @@ ("python" :> y0)
EmptyBuffers   == ("pseudocode" :> p0) @@ ("python" :> y0)
LargeTexts     == { p2 }
=============================================================================
