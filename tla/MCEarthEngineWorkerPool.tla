---------------------- MODULE MCEarthEngineWorkerPool ----------------------
(* The pool with its two slots and a few requests.                          *)
EXTENDS EarthEngineWorkerPool, TLC

MCNone == {}

\* the first worker may outlive kill
MCFirst == {<<0, 1>>}

RequestSymmetry == Permutations(Requests)
=============================================================================
