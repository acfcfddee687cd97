---------------------------- MODULE MCBlockBuild ----------------------------
(* BlockBuild with two senders whose transactions meet every error: too     *)
(* little balance, too little gas, a full block, a failing call, an unknown *)
(* minor type, a sender that is not the producer.                           *)
EXTENDS BlockBuild

CONSTANTS a, b, c

Tx(from, to, nonce, kind, gas, value, use, refund) ==
  [from |-> from, to |-> to, nonce |-> nonce, kind |-> kind, gas |-> gas,
   price |-> IF gas = 0 THEN 9 ELSE 1, value |-> value, use |-> use, refund |-> refund,
   timed |-> kind = "Base"]

MCTxs ==
  {Tx(a, b, 0, "Normal", 5, 1, 2, 6),        \* a refund above the gas used
   Tx(a, b, 0, "SetValidator", 0, 0, 0, 0),
   Tx(a, b, 0, "Normal", 1, 0, 0, 0),        \* below the intrinsic gas
   Tx(a, c, 1, "SetContract", 0, 0, 0, 0),
   Tx(a, b, 1, "Normal", 4, 9, 1, 0),        \* more value than balance
   Tx(a, b, 1, "Extra", 3, 0, 1, 0),
   Tx(a, b, 2, "Stock", 0, 0, 0, 0),
   Tx(b, c, 0, "Create", 4, 1, 1, 0),
   Tx(b, a, 0, "BadStock", 0, 0, 0, 0),
   Tx(b, a, 0, "Base", 2, 1, 5, 0),          \* a call that stores the time
   Tx(b, a, 1, "SetValidator", 0, 0, 0, 0),
   Tx(b, a, 1, "Normal", 4, 0, 99, 0),       \* a call that fails
   Tx(b, a, 1, "Invalid", 0, 0, 0, 0)}

MCGenesis == {<<>>, <<a, b>>}
=============================================================================
