---------------------------- MODULE MCBookJourney ----------------------------
(* The instance of BookJourney for TLC: two requests, one repeated key, and *)
(* a target whose prerequisite has prerequisites of its own.                *)
EXTENDS BookJourney, TLC

CONSTANTS r1, r2, k1, a, b, c, t

MCRequests == {r1, r2}
MCKeys     == {k1}
MCUnits    == {a, b, c}
MCEdges    == {<<a, t>>, <<b, a>>, <<c, b>>}

(* Nothing known; unmet down to an unknown one; a known one on the way;    *)
(* everything known.                                                       *)
Known(x, y, z) == (a :> x) @@ (b :> y) @@ (c :> z)
MCHistories == {Known("unknown", "unknown", "unknown"), Known("unmet", "unmet", "unknown"),
                Known("unmet", "sufficient", "unknown"),
                Known("sufficient", "unmet", "unmet")}
=============================================================================
