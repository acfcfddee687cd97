----------------------------- MODULE BlockBuild -----------------------------
(***************************************************************************)
(* How a producer fills a block: worker.createNewWork and                  *)
(* commitTransactions (miner/worker.go) run the pending transactions       *)
(* through ApplyTransaction (core/state_processor.go) and the              *)
(* ...TransitionDb functions (core/state_transition.go), taking back what  *)
(* a refused transaction did; and Process, which runs the transactions of  *)
(* a finished block in order, with no refusals to take back.               *)
(*                                                                         *)
(* The world is the three databases a transaction writes: the account      *)
(* state (nonce, balance), the DposContext (validators) and the            *)
(* BokerContext (contracts, stock, gas pool).  What the stock operations   *)
(* do is in StockLedger; here stock is the sequence of those applied.      *)
(* What a contract's code does is left to the transaction: a call needs    *)
(* the gas tx.use and earns the refund tx.refund, or fails and burns what  *)
(* it was given when tx.use exceeds it; when tx.timed, the code stores the *)
(* time of the header it runs under.                                       *)
(***************************************************************************)
EXTENDS Integers, SequencesExt

CONSTANTS
  Accounts, Contract, \* the senders, and the address of a created contract
  Txs,                \* the transactions that may ever be pending
  Genesis,            \* the validator lists the genesis block may have
  Balance,            \* every sender's balance in the genesis block
  GasLimit,           \* the gas limit of every block
  TxGas, CreateGas,   \* intrinsic gas of a call and of a contract creation
  ExtraGas,           \* what ExtraMessage reports as used, whatever it was
  BaseGas,            \* protocol.MaxGasPrice, the gas a base call runs with
  MinerReward,        \* paid to the coinbase of a block other than block 1
  StockReward,        \* added to the gas pool with it
  OffSlot, Slots,     \* header times: off any slot, or on one of Slots
  MaxBlocks,          \* bound on the length of the chain
  None                \* no coinbase: no block is being filled

Addresses == Accounts \cup {Contract}

Kinds == {"Normal", "Create", "Extra", "Base", "SetContract", "SetValidator",
          "Stock", "BadStock", "Invalid"}

ASSUME TxsAssumption ==
  /\ Txs \subseteq [from : Accounts, to : Addresses, nonce : Nat, kind : Kinds,
                    gas : Nat, price : Nat, value : Nat, use : Nat, refund : Nat,
                    timed : BOOLEAN]
  /\ Genesis \subseteq Seq(Accounts)
  /\ {Balance, GasLimit, TxGas, CreateGas, ExtraGas, BaseGas, MinerReward,
      StockReward, MaxBlocks} \subseteq Nat
  /\ Slots \subseteq Nat /\ OffSlot \notin Slots
  /\ None \notin Accounts

VARIABLES
  number,  \* number of the head block
  world,   \* its state
  chain,   \* the transactions of all blocks up to it, in order
  phase,   \* "idle", or "commit" while commitTransactions runs
  coinbase, \* the header's coinbase, None between blocks
  slot,    \* the header's time while the block is filled (createNewWork's tstamp)
  tick,    \* the header's time in the sealed block (the mint loop's tick)
  pending, \* txs: what is left of each account's pending transactions
  env,     \* the Work: its state, gas pool, header.GasUsed, txs, receipts
  failed   \* accounts with a transaction refused that was not already mined

vars == <<number, world, chain, phase, coinbase, slot, tick, pending, env, failed>>

-----------------------------------------------------------------------------
\* What applying a transaction gives: an error or "nil", the world and the
\* gas pool it leaves (on an error too), and the gas it reports.
Result(err, w, gp, gas) == [err |-> err, w |-> w, gp |-> gp, gas |-> gas]

Fail(r, err) == [r EXCEPT !.err = err]

BuyGas_KeepsPool(w, tx, gp) ==
  LET cost == tx.gas * tx.price IN
  IF w.balance[tx.from] < cost
  THEN Result("InsufficientBalanceForGas", w, gp, 0)
  ELSE IF gp < tx.gas THEN Result("GasLimitReached", w, gp, 0)
  ELSE Result("nil", [w EXCEPT !.balance[tx.from] = @ - cost], gp, 0)

\* buyGas: the sender pays for all the gas of the transaction in advance, and
\* the gas pool of the block shrinks by it.
BuyGas(w, tx, gp) ==
  LET cost == tx.gas * tx.price IN
  IF w.balance[tx.from] < cost
  THEN Result("InsufficientBalanceForGas", w, gp, 0)
  ELSE IF gp < tx.gas THEN Result("GasLimitReached", w, gp, 0)
  ELSE Result("nil", [w EXCEPT !.balance[tx.from] = @ - cost], gp - tx.gas, 0)

\* preCheck: the nonce, then the gas.
PreCheck(w, tx, gp) ==
  IF w.nonce[tx.from] < tx.nonce THEN Result("NonceTooHigh", w, gp, 0)
  ELSE IF w.nonce[tx.from] > tx.nonce THEN Result("NonceTooLow", w, gp, 0)
  ELSE BuyGas(w, tx, gp)

SetNonce_OnlyCalls(w, tx) ==
  IF tx.kind = "SetContract" THEN w ELSE [w EXCEPT !.nonce[tx.from] = @ + 1]

\* SetNonce of the sender, by the transition or, for a creation, by the EVM.
SetNonce(w, tx) == [w EXCEPT !.nonce[tx.from] = @ + 1]

\* The EVM's answer to a call with this gas; without the funds for the value
\* it is ErrInsufficientBalance and nothing happens.
CanTransfer(w, tx) == w.balance[tx.from] >= tx.value

Transfer(w, tx) ==
  [w EXCEPT !.balance = [[@ EXCEPT ![tx.from] = @ - tx.value]
                            EXCEPT ![tx.to] = @ + tx.value]]

\* EVM.Call or EVM.Create under a header of the given time.
EvmCall(w, tx, gas, at) ==
  IF tx.use > gas THEN [w |-> w, left |-> 0, refund |-> 0]
  ELSE [w |-> [Transfer(w, tx) EXCEPT !.stamp = IF tx.timed THEN at ELSE @],
        left |-> gas - tx.use, refund |-> tx.refund]

IntrinsicGas(tx) == IF tx.kind = "Create" THEN CreateGas ELSE TxGas

RefundGas_Uncapped(run, tx, gp) ==
  LET back == run.left + run.refund
  IN  Result("nil", [run.w EXCEPT !.balance[tx.from] = @ + back * tx.price],
             gp + back, tx.gas - back)

\* refundGas: the gas left, and a refund of at most half the gas used, go
\* back to the sender and to the gas pool.
RefundGas(run, tx, gp) ==
  LET used == tx.gas - run.left
      back == run.left + (IF run.refund < used \div 2 THEN run.refund ELSE used \div 2)
  IN  Result("nil", [run.w EXCEPT !.balance[tx.from] = @ + back * tx.price],
             gp + back, tx.gas - back)

\* NormalTransitionDb; a call has bumped the nonce when the EVM looks at the
\* balance, a creation has not.
NormalTransition(w, tx, gp, at) ==
  LET pre == PreCheck(w, tx, gp) IN
  IF pre.err # "nil" THEN pre
  ELSE IF tx.gas < IntrinsicGas(tx) THEN Fail(pre, "OutOfGas")
  ELSE IF ~CanTransfer(pre.w, tx)
  THEN Fail(IF tx.kind = "Create" THEN pre ELSE [pre EXCEPT !.w = SetNonce(@, tx)],
            "InsufficientBalance")
  ELSE RefundGas(EvmCall(SetNonce(pre.w, tx), tx, tx.gas - IntrinsicGas(tx), at), tx, pre.gp)

\* ExtraTransitionDb is NormalTransitionDb; ExtraMessage reports a fixed gas.
ExtraTransition(w, tx, gp, at) == [NormalTransition(w, tx, gp, at) EXCEPT !.gas = ExtraGas]

\* SystemBaseTransitionDb and UserBaseTransitionDb: a call with unlimited gas;
\* nothing bought is given back and no gas is reported.
BaseTransition(w, tx, gp, at) ==
  LET pre == PreCheck(w, tx, gp)
      bumped == [pre EXCEPT !.w = SetNonce(@, tx)]
  IN  IF pre.err # "nil" THEN pre
      ELSE IF ~CanTransfer(bumped.w, tx) THEN Fail(bumped, "InsufficientBalance")
      ELSE [bumped EXCEPT !.w = EvmCall(@, tx, BaseGas, at).w]

\* getSingleContractsTrie reads an absent contract type as 0, which is System.
ContractType(w, addr) ==
  IF \E c \in ToSet(w.contracts) : c.addr = addr
  THEN (CHOOSE c \in ToSet(w.contracts) : c.addr = addr).type
  ELSE "System"

\* BokerContext.SetSystemContract, whose error the transition ignores.
SetSystemContract(w, addr) ==
  IF \/ \E c \in ToSet(w.contracts) : c.addr = addr
     \/ ContractType(w, addr) = "System"
  THEN w
  ELSE [w EXCEPT !.contracts = Append(@, [addr |-> addr, type |-> "System"])]

SystemContractTransition(w, tx, gp) ==
  LET pre == PreCheck(w, tx, gp) IN
  IF pre.err # "nil" THEN pre
  ELSE [pre EXCEPT !.w = SetNonce(SetSystemContract(@, tx.to), tx)]

\* GetProducer, on a slot and with validators.
Producer(w, at) == w.validators[(at % Len(w.validators)) + 1]

\* validatorTransaction: on a slot, its producer may name a new sole
\* validator; with no validator anyone may, as long as the head is block 0.
ValidatorAllowed(w, tx, at, cur) ==
  /\ at # OffSlot
  /\ IF w.validators = <<>> THEN cur = 0 ELSE Producer(w, at) = tx.from

ValidatorTransaction(w, tx, gp, at, cur) ==
  LET pre == PreCheck(w, tx, gp) IN
  IF ~ValidatorAllowed(w, tx, at, cur) THEN Result("NotProducer", w, gp, 0)
  ELSE IF pre.err # "nil" THEN pre
  ELSE [pre EXCEPT !.w = [SetNonce(@, tx) EXCEPT !.validators = <<tx.to>>]]

\* StockTransitionDb: the nonce moves before the minor type is looked at.
StockTransition(w, tx, gp) ==
  LET pre == PreCheck(w, tx, gp)
      bumped == [pre EXCEPT !.w = SetNonce(@, tx)]
  IN  IF pre.err # "nil" THEN pre
      ELSE IF tx.kind = "BadStock" THEN Fail(bumped, "UnknownMinor")
      ELSE [bumped EXCEPT !.w.stock = Append(@, [from |-> tx.from, to |-> tx.to])]

\* ApplyTransaction, with the header's time and the number of the head block.
ApplyTransaction(w, tx, gp, at, cur) ==
  CASE tx.kind \in {"Normal", "Create"} -> NormalTransition(w, tx, gp, at)
    [] tx.kind = "Extra"        -> ExtraTransition(w, tx, gp, at)
    [] tx.kind = "Base"         -> BaseTransition(w, tx, gp, at)
    [] tx.kind = "SetContract"  -> SystemContractTransition(w, tx, gp)
    [] tx.kind = "SetValidator" -> ValidatorTransaction(w, tx, gp, at, cur)
    [] tx.kind \in {"Stock", "BadStock"} -> StockTransition(w, tx, gp)
    [] tx.kind = "Invalid"      -> Result("InvalidType", w, gp, 0)

\* Process: the transactions of a block on the parent's state, with a fresh
\* gas pool, up to the first error; the gas is the sum.
Process(w, txs, at, cur) ==
  FoldLeft(LAMBDA r, tx :
             IF r.err # "nil" THEN r
             ELSE LET s == ApplyTransaction(r.w, tx, r.gp, at, cur)
                  IN  [s EXCEPT !.gas = r.gas + @],
           Result("nil", w, GasLimit, 0), txs)

-----------------------------------------------------------------------------
\* makeCurrent: a Work on the state of the parent block.
NewWork(w) == [w |-> w, gp |-> GasLimit, gasUsed |-> 0, txs |-> <<>>, receipts |-> <<>>]

Init ==
  /\ number = 0 /\ chain = <<>> /\ phase = "idle"
  /\ slot = OffSlot /\ tick = OffSlot
  /\ coinbase = None
  /\ \E vs \in Genesis :
       world = [nonce |-> [a \in Accounts |-> 0],
                balance |-> [a \in Addresses |-> IF a = Contract THEN 0 ELSE Balance],
                validators |-> vs, contracts |-> <<>>, stock |-> <<>>,
                gasPool |-> 0, stamp |-> OffSlot]
  /\ pending = [a \in Accounts |-> <<>>]
  /\ env = NewWork(world)
  /\ failed = {}

\* TxPool.Pending: for each account transactions with consecutive nonces.  The
\* pool follows the head asynchronously, so they may start anywhere.
PendingLists ==
  [a \in Accounts |->
     {SetToSortSeq(S, LAMBDA s, t : s.nonce < t.nonce) :
        S \in {S \in SUBSET {t \in Txs : t.from = a} :
                 /\ \A s, t \in S : s.nonce = t.nonce => s = t
                 /\ \A s, t \in S : \A n \in s.nonce..t.nonce : \E u \in S : u.nonce = n}}]

\* createNewWork up to commitTransactions, for a tick of the mint loop; the
\* clock is read again for the header's time.  The worker is the producer of
\* the tick or, without validators, the node that is configured to begin.
CreateNewWork ==
  /\ phase = "idle" /\ number < MaxBlocks
  /\ phase' = "commit"
  /\ tick' \in Slots /\ slot' \in Slots \cup {OffSlot}
  /\ coinbase' \in Accounts
  /\ world.validators # <<>> => Producer(world, tick') = coinbase'
  /\ \E ls \in [Accounts -> UNION {PendingLists[a] : a \in Accounts}] :
       /\ \A a \in Accounts : ls[a] \in PendingLists[a]
       /\ pending' = ls
  /\ env' = NewWork(world)
  /\ failed' = {}
  /\ UNCHANGED <<number, world, chain>>

Revert_KeepsNonce(snap, r) == [snap EXCEPT !.nonce = r.w.nonce]

Revert_KeepsState(snap, r) == r.w

\* RevertToSnapshot of all three databases; the gas pool stays as it is.
Revert(snap, r) == snap

\* After these errors the account's other transactions are dropped (Pop); in
\* every other case its next one comes up (Shift).
PopsAccount(err) == err \in {"GasLimitReached", "NonceTooHigh"}

\* A transaction without an error: its gas goes to header.GasUsed (usedGas) and
\* to its receipt, and both join the Work.
Included(e, tx, r) ==
  [w |-> r.w, gp |-> r.gp, gasUsed |-> e.gasUsed + r.gas,
   txs |-> Append(e.txs, tx), receipts |-> Append(e.receipts, r.gas)]

\* One round of commitTransactions: Peek gives the head transaction of some
\* account (the best price, any here) and commitTransaction runs it.
CommitTransaction(a) ==
  /\ phase = "commit" /\ pending[a] # <<>>
  /\ LET tx == Head(pending[a])
         r  == ApplyTransaction(env.w, tx, env.gp, slot, number)
     IN  /\ env' = IF r.err = "nil" THEN Included(env, tx, r)
                   ELSE [env EXCEPT !.w = Revert(@, r), !.gp = r.gp]
         /\ pending' = [pending EXCEPT ![a] = IF PopsAccount(r.err) THEN <<>> ELSE Tail(@)]
         /\ failed' = IF r.err # "nil" /\ tx.nonce >= env.w.nonce[a]
                      THEN failed \cup {a} ELSE failed
  /\ UNCHANGED <<number, world, chain, phase, coinbase, slot, tick>>

\* AccumulateRewards, not in block 1.
Rewarded(w) ==
  IF number = 0 THEN w
  ELSE [w EXCEPT !.balance[coinbase] = @ + MinerReward, !.gasPool = @ + StockReward]

\* Has commitTransactions come to its end?
Filled == phase = "commit" /\ \A a \in Accounts : pending[a] = <<>>

\* Finalize, and the sealed block becomes the head.
Finalize ==
  /\ Filled
  /\ world' = Rewarded(env.w)
  /\ number' = number + 1
  /\ chain' = chain \o env.txs
  /\ phase' = "idle" /\ slot' = OffSlot /\ tick' = OffSlot /\ coinbase' = None
  /\ env' = NewWork(world')
  /\ failed' = {}
  /\ UNCHANGED pending

Next ==
  \/ CreateNewWork
  \/ \E a \in Accounts : CommitTransaction(a)
  \/ Finalize

Spec == Init /\ [][Next]_vars

-----------------------------------------------------------------------------
Worlds ==
  [nonce : [Accounts -> Nat], balance : [Addresses -> Nat],
   validators : Seq(Accounts), contracts : Seq([addr : Addresses, type : {"System", "User"}]),
   stock : Seq([from : Accounts, to : Addresses]), gasPool : Nat,
   stamp : Slots \cup {OffSlot}]

\* Type invariant.  Balances and the gas a transaction reports stay natural
\* and the gas pool never exceeds the gas limit: SubBalance in buyGas and the
\* EVM's transfer are guarded by checks made at different moments, and only
\* the cap of refundGas keeps the gas given back below the gas bought.
TypeOK ==
  /\ number \in 0..MaxBlocks /\ phase \in {"idle", "commit"}
  /\ coinbase \in Accounts \cup {None}
  /\ {slot, tick} \subseteq Slots \cup {OffSlot}
  /\ world \in Worlds /\ env.w \in Worlds
  /\ env.gp \in 0..GasLimit /\ env.gasUsed \in Nat
  /\ chain \in Seq(Txs) /\ env.txs \in Seq(Txs) /\ env.receipts \in Seq(Nat)
  /\ pending \in [Accounts -> Seq(Txs)] /\ failed \subseteq Accounts

\* Has the header's time changed since the block was filled in a way its
\* transactions could notice?  Seal replaces the time by the tick: another
\* slot changes the producer, and any other time is seen by a call that reads
\* it.
TimeKept ==
  \/ slot = tick
  \/ slot = OffSlot /\ \A i \in DOMAIN env.txs : ~env.txs[i].timed

\* Refused transactions leave no trace in a block: Process, which never sees
\* them, runs the transactions the worker has put in without an error, to the
\* worker's state and header.GasUsed, though its gas pool is fuller, the
\* header's time is now the tick and the head of the node that verifies may
\* have any number cur from the parent's on.  (Without validators the first
\* block only replays on a node whose head is block 0: validatorTransaction
\* asks the head and not the parent.)
BlockReplays ==
  Filled /\ TimeKept =>
    \A cur \in number..MaxBlocks :
      (number = 0 /\ world.validators = <<>> => cur = 0) =>
        LET r == Process(world, env.txs, tick, cur)
        IN  /\ r.err = "nil"
            /\ r.w = env.w
            /\ r.gas = env.gasUsed

\* The transactions of account a in txs, in order.
Sent(a, txs) == SelectSeq(txs, LAMBDA t : t.from = a)

\* Whatever the pool offers again, no transaction is ever put in a chain of
\* blocks twice, and none before an earlier one of its sender: the nonces of a
\* sender's transactions are 0, 1, 2, ... in the order of the chain.
NoncesConsecutive ==
  \A a \in Accounts :
    LET mine == Sent(a, chain \o env.txs)
    IN  \A i \in DOMAIN mine : mine[i].nonce = i - 1

\* The gas the i-th transaction of the block has taken from the pool for
\* good: what a normal one reports, all that was bought for a base, contract,
\* validator or stock transaction; an extra one does not report its gas.
GasTaken(i) ==
  CASE env.txs[i].kind \in {"Normal", "Create"} -> env.receipts[i]
    [] env.txs[i].kind = "Extra" -> 0
    [] OTHER -> env.txs[i].gas

\* The gas taken by the transactions of a block, other than extra ones, fits
\* in its gas limit together with the gas pool that is left, although refused
\* transactions take from the pool too and only normal and extra ones give
\* back.
GasWithinLimit ==
  FoldLeft(LAMBDA n, i : n + GasTaken(i), env.gp, [i \in DOMAIN env.txs |-> i])
    <= GasLimit

\* "all later transactions of the account will be skipped" (commitTransaction):
\* once a transaction that is not already mined was refused, the block takes
\* no transaction of its sender, by Pop or by the nonce it left behind.
RefusedAccountSkipped ==
  [][\A a \in failed : phase' = "commit" => Sent(a, env'.txs) = Sent(a, env.txs)]_vars
=============================================================================
