--------------------------- MODULE MCRelativeDate ---------------------------
(* Every hour of a day, from New York to Auckland. *)
EXTENDS RelativeDate

MCRendered == {3 * Day + Hour * h - 1 : h \in 0..24}
MCZones    == {-(5 * Hour), 0, 3 * Hour, 5 * Hour + 3, 13 * Hour}
MCShifts   == {-Hour, 0, Hour}
=============================================================================
