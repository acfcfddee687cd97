--------------------------- MODULE MCStockLedger ---------------------------
(***************************************************************************)
(* Small instances of StockLedger.  Modulo 16, the records and the pool   *)
(* are large enough for every uint64 operation to wrap around.             *)
(***************************************************************************)
EXTENDS StockLedger

MCNumbers == {0, 1, 6}
MCRewards == {4}
=============================================================================
