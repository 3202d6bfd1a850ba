--------------------------- MODULE MCDummyBackend ---------------------------
(* Instances of DummyBackend for TLC.                                       *)
EXTENDS DummyBackend

(* No throttle, an interval of three units, and of one.                     *)
MixedRates == {0, 1, 3}
OneRate    == {1}
SomeLatencies == {0, 1}
NoLatency  == {0}
=============================================================================
