----------------------------- MODULE MCMultiRegion -----------------------------
(* Small instances of MultiRegion for TLC.                                  *)
EXTENDS MultiRegion

CONSTANTS u1, u2, h1, h2, us, eu, ap       \* model values: users, updaters, regions

MCUsers    == {u1, u2}
MCUpdaters == {h1, h2}
MCRegions  == {us, eu, ap}                \* ap: no worker
MCHinted   == {<<us>>, <<eu, us>>, <<ap, eu>>}
MCWorkers  == {1, 2}
MCHome     == <<us, eu>>
=============================================================================
