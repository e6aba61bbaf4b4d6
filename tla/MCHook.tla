------------------------------- MODULE MCHook -------------------------------
EXTENDS NativeHook

Family(m, o, g, d) == [modes |-> m, others |-> o, goal |-> g, diff |-> d]

MCFamilies ==
  { Family({"autopilot", "deep-interview"}, {}, FALSE, "unaudited"),
    Family({"ralph", "ultrawork"}, {}, FALSE, "unaudited"),
    Family({"ralplan", "ultraqa"}, {}, FALSE, "unaudited"),
    Family({"autopilot", "ultrawork"}, {}, FALSE, "unaudited"),
    Family({"autopilot", "ralplan"}, {"code-review"}, FALSE, "unaudited"),
    Family({"autoresearch", "ralplan"}, {}, FALSE, "unaudited"),
    Family({"ultragoal", "deep-interview"}, {}, TRUE, "unaudited"),
    Family({"autopilot"}, {}, FALSE, "clean") }

MCRefusedFamilies == { Family({"autopilot", "deep-interview", "ralph"}, {}, FALSE, "unaudited") }
=============================================================================
