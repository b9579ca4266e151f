--------------------------- MODULE MCRuntimeEvents ---------------------------
(***************************************************************************)
(* Small instances of RuntimeEvents: two managers with a watcher each.     *)
(***************************************************************************)
EXTENDS RuntimeEvents, TLC

CONSTANTS m1, m2, w1, w2

OneWatcherEach == (w1 :> m1) @@ (w2 :> m2)
OneManager == [w \in Watchers |-> m1]
=============================================================================
