----------------------------- MODULE MCAMLGraph -----------------------------
(* Small instances of AMLGraph and its refinement for TLC: the values of    *)
(* the constants that a .cfg cannot write.  Confidences sit on both sides   *)
(* of 0.70 and of the rounding to four decimals: 0.69994 rounds below the   *)
(* threshold, 0.69996 to it.                                                *)
EXTENDS AMLGraphImpl

OneCost  == {1}
TwoCosts == {1, 2}

AroundThreshold == {69994, 69996}

NoDelay  == {0}
SlowCall == {0, 2}
=============================================================================
