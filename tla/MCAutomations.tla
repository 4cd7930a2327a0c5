--------------------------- MODULE MCAutomations ---------------------------
(* An instance of Automations for TLC: events on the Monday after the         *)
(* Sunday the clock starts on.                                                *)
EXTENDS Automations, TLC

CONSTANTS u1, u2, e1, e2

OneOfEach  == [e \in Events |-> IF e = e1 THEN "confirmed" ELSE "proposed"]
Invited    == [u \in Users |-> 7 * 1440 - 1500]
Evenings   == [u \in Users |-> IF u = u1 THEN {"weekday_evening", "weekday_morning"} ELSE {}]
WestZones  == {-720, -180}
SundayEve  == 7 * 1440 + 21 * 60
MondayEve  == 8 * 1440 + 21 * 60

Symmetry   == Permutations(Runs)
=============================================================================
