------------------------- MODULE MCStoreSequential -------------------------
(* The instance of ProjectedStore with one caller. *)
EXTENDS MCProjectedStore

ASSUME SequentialInstance == OneCaller
=============================================================================
