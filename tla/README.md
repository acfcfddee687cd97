# TLA+ verification of Tina

Tina is a go-ethereum 1.7.4 node with a DPoS consensus engine, a "boker"
context kept beside the account state (stock, base contracts, gas pool) and a
set of Solidity contracts for node voting. This directory holds TLA+ models of
the parts that are Tina's own, or that Tina's changes touch, with TLC
configurations and TLAPS proofs. `PROJECT.json` maps every definition to the
lines it models and lists components, runs, mutants, hazards, findings and
theorems. Paths below are relative to `src/chain/`.

## 1. The system and its parts

```
 console/RPC --> eth/api.go, eth/backend.go --> miner/miner.go --> miner/worker.go
                                                   ^                  |  mintLoop, mintBlock
 downloader --- Start/Done/FailedEvent ------------+                  v
 core/tx_pool.go -- pending --> createNewWork/commitTransactions --> consensus/dpos (slots,
                                  |   core/state_processor.go          producer, Finalize, Seal)
                                  |   core/state_transition.go              |
                                  v                                         v  recv channel
             StateDB, DposContext, BokerContext  <---- WriteBlockAndState (core/blockchain.go)
                                                          reorg, insert, SetHead, loadLastState
 contracts/deploy/sol (BokerInterface, BokerNode, BokerNodeData, BokerManager, BokerLog)
 contracts/boker_interface (services polling the contracts)
```

| Part | Source | Module | Status |
|---|---|---|---|
| Stock ledger, gas assignment | core/types/boker_context.go, core/state_transition.go | StockLedger | modelled, proved about |
| DPoS block production | consensus/dpos/dpos.go, miner/worker.go, core/types/dpos_context.go | DposMint | partly (no confirmed header) |
| Miner start and stop | eth/api.go, eth/backend.go, miner/miner.go, miner/worker.go | MinerLifecycle | modelled |
| Block store | core/blockchain.go, core/headerchain.go | ChainStore, ForkChoice | partly (no fast sync) |
| Transaction execution, block filling | core/state_processor.go, core/state_transition.go, miner/worker.go | BlockBuild | partly (bytecode not interpreted) |
| Node voting contracts | contracts/deploy/sol | NodeVoting | partly (no vote log) |
| Block import pipeline | core/blockchain.go, core/block_validator.go | | planned |
| Confirmed block header | consensus/dpos/dpos.go | | planned |
| Base contract registry, pollers | core/types/boker_context.go, contracts/boker_interface | | planned |
| Transaction pool | core/tx_pool.go | | planned |
| Manager, log, file contracts | contracts/deploy/sol | | planned |
| Downloader, light client, tries, bytecode interpreter, p2p, RPC, key store, other engines | eth/downloader, les, trie, core/vm, p2p, ... | | not modelled: go-ethereum code, or out of TLC's reach |

## 2. The modules

Every component module declares its parameters as CONSTANTS with a named
ASSUME. `MC*` modules give the sets and trees that a `.cfg` file cannot write.
Operators named `X_Something` directly before `X` are faulty variants of `X`;
no specification uses them, and `PROJECT.json` pairs each with the property it
breaks.

### StockLedger

*State.* `owner`, `stocks`, `single`, `gasPool` are the four tries of the
BokerContext that concern stock. `phase`, `next`, `totalStock`, `curGas` are
the program counter and the locals of `bokerAssignGas`; `credited`, `wrapped`
and `signer` are history: what `AddBalance` gave out per stock state, which
loop has overflowed, and who signed the transaction of the last step.

*Actions.* One per minor type of a Stock transaction (`SetStockManager`,
`SetStock`, `TransferStock`, `CleanStock`, `FrozenStock`, `UnFrozenStock`,
`AssignGas`) and `AddGasPool` for the reward of a block. The two loops of
`bokerAssignGas` are unrolled (`SumEntry`, `SumDone`, `PayEntry`, `PayDone`);
no other action is enabled until they end, so the transaction stays atomic.
uint64 arithmetic is modulo `Modulus`. A refused operation is no step, because
`StockTransitionDb` drops its error and writes nothing.

### DposMint

*State.* The clock, for each mint loop the second its ticker is due in, its
ticker channel (one tick deep), program counter, last tick (`slot`) and work,
the `recv` channel, the blocks written and the head. A block carries its time,
its validator list, its mint counts, its signer and at most one SetValidator
transaction.

*Actions.* `Second` advances the clock; `Fire` is a ticker that reads it and
fills its channel unless that is full; `Receive`, `Check`, `Decline`,
`CreateNewWork`, `Execute` are the steps of `mintBlock` between reads of the
head; `Write` is `worker.wait`. Two variables, chosen once, describe the timing.
`late`: a loop or the writer may take a second or longer. `steady`: every tick
fires within the second it is due in. `time.NewTicker` runs at any phase and
`mintBlock` gets `now.Unix()`, so an unsteady ticker may fire just after a
second boundary: one second is then read twice and the one before it not at all.
`VerifyHeader`, `VerifySeal`, `ValidateDposState` are what another node checks.

### MinerLifecycle

*State.* A program counter per goroutine that runs `Miner.Start` or
`Miner.Stop`, the flags `mining` (twice), `canStart`, `shouldStart`, the
stopper channels, `quitCh`, and for each mint loop the channel it waits on.

*Actions.* One per access to shared memory. `Serial` says whether the
environment waits until the miner has settled before its next request or event.
A start that `StartMining` refuses, for want of a coinbase or its wallet,
changes nothing and is no step.

### ForkChoice and ChainStore

ForkChoice is the abstract specification: known blocks, a head that moves to a
new block exactly when that is higher (ties are free), a rewind, during which
blocks are forgotten and the head never gains height, and a crash, after which
the head is any known block, or the node first rewinds to block 0.

ChainStore has the database (`tds`, `headers`, `bodies`, `canon`, three head
pointers) and the memory (three current heads) of `BlockChain`.
`WriteBlockAndState` is one step per database write: `WriteTd`, `Decide` (fork
choice and `reorg`), `BatchWrite`, and `insert` as `InsertCanonical`,
`InsertHead`, `InsertHeader`, `InsertFast`. So is `SetHead`: `DeleteBody`,
`DeleteHeader` and `DeleteTd` for each block above the target, then
`DeleteCanonicalHash` for each number, `RewindHeader`, `RewindBlock`,
`RewindFast` and `Reload`. `Crash` may come between any two of these steps.
`Restart` is `loadLastState`; when the head block is missing it begins the
rewind of `Reset` to block 0, in the same steps. The refinement maps the
abstract head to the old head until the batch with the new block is written,
and during a rewind to the highest ancestor of the head that is still stored.

### BlockBuild

*State.* The head's world (nonces, balances, validators, contracts, stock, gas
pool and the time a contract has stored), the chain of included transactions,
and the Work being filled with its own world, gas pool, gas used, transactions,
receipts and coinbase. `slot` is the header time while the block is filled,
`tick` the one `Seal` writes.

*Actions.* `CreateNewWork` takes any pending lists, `CommitTransaction` is one
round of `commitTransactions` (all transaction types, every refusal, the revert
of the three databases, Pop or Shift), `Finalize` pays the coinbase and the gas
pool and moves the head. `Process` folds the same `ApplyTransaction` over a
finished block. Bytecode is not interpreted: a call needs an amount of gas given
with the transaction, earns a refund or fails, transfers its value, and may
store the time of the header it runs under.

### NodeVoting

*State.* Candidates, voters with deposit, votes and voted array, the blacklist
as map and array, `paused`; `initial` and `direct` are history. *Actions.*
`registerCandidate`, `vote`, `cancelAllVotes`, each called through
`BokerInterface`, which looks at `paused`, or at `BokerNode`, which does not;
`DataCandidate`, `DataDeposit`, `DataVote`, the voting functions of
`BokerNodeData` called directly, which is possible because they are external
and do not look at their caller; and the owner's `clearBlacks`, `insertBlacks`,
`deleteBlacks`, `setPaused`. A call that fails a `require` or an assertion of
SafeMath is undone by the EVM and is no step.

## 3. The runs

| Run | Config | Expected | What it shows |
|---|---|---|---|
| stock_ledger | StockLedger.cfg | pass | Records and holder list stay consistent and only the appointed manager's transactions change records; a gas assignment stays within the pool unless uint64 arithmetic wraps; it can wrap or divide by zero only in the named situations |
| stock_frozen | StockLedgerFrozen.cfg | violation | Frozen stock is paid gas, although protocol.go:86 says it earns none |
| stock_transfer | StockLedgerTransfer.cfg | violation | A transfer creates stock: the sender is not debited |
| dpos_mint | DposMint.cfg | pass | At most one block per slot and blocks at least BlockInterval apart, however late with a steady ticker, and with any ticker when ticks are handled in time; with prompt handling also: the seals of blocks made once a validator is set verify, DPoS state re-verifies, mint counts are exact and no slot that a tick names is missed |
| dpos_epoch | DposMintEpoch.cfg | violation | A tick handled after an epoch boundary gives a block whose mint count no other node reproduces, because Seal replaces the header time |
| miner_serial | MinerSerial.cfg | pass | When every request or event waits for a settled miner: one mint loop, no double close of a stopper, every start and stop honoured and eventually effective |
| miner_loops | MinerLoops.cfg | violation | Two starts in a row run two mint loops |
| miner_lost | MinerLost.cfg | violation | A start during the handling of DoneEvent is lost |
| chain_store | ChainStore.cfg | pass | After a crash between any two database writes of a block, a rewind or a recovery the head is stored and has a difficulty; without crashes the canonical hashes are the head's ancestors; the store implements ForkChoice |
| chain_header | ChainStoreHeader.cfg | violation | After a reorg of two or more blocks head header and head fast block stay behind the head block |
| block_build | BlockBuild.cfg | pass | A finished block re-executes to the same state unless Seal changed a time its transactions saw, no transaction is included twice or out of order, the gas of all but extra transactions stays within the limit, a refused account is skipped |
| node_voting | NodeVoting.cfg | pass | Tickets, votes and deposits agree while nobody votes twice for a candidate, and deposits cover the votes, as long as BokerNodeData is only written through BokerNode; the blacklist is listed without duplicates |

Deadlock is not checked where the bounds (time, calls, blocks, requests) or a
panic end every behaviour, which is all of these models.

### Bounds

* **StockLedger**: two accounts and the zero address, lists of up to three
  entries (enough for a holder listed twice beside another), `Modulus` 16 with
  stock 0, 1 or 6 and rewards of 4, so that the sum, the product and the pool
  all wrap. The proofs remove these bounds for four properties.
* **DposMint**: a slot of 3 s, an epoch of 6 s, genesis at second 2, so that
  epochs do not begin on a slot; twelve seconds give four slots in three epochs.
  `dpos_mint` takes a steady ticker with late or prompt handling, and an unsteady
  one with prompt handling; section 5 says what happens when both go wrong.
  One loop: two loops are a finding of MinerLifecycle.
* **MinerLifecycle**: two callers, four requests (one or two for the violations),
  one synchronisation, since `Miner.update` returns after the first one ends, and
  any number of head events; four requests allow
  start, stop, start, stop.
* **ChainStore**: a main branch of three blocks and a side branch of two from
  block 0, so that reorgs go both ways and have several blocks; two crashes and
  two rewinds, enough for a crash inside a rewind and another in the recovery
  from it.
* **BlockBuild**: two senders with thirteen transactions that meet every error,
  one with a refund above the gas it uses and one whose call stores the time;
  two blocks (the first without a reward, the second with transactions that are
  already mined); genesis without validators, or with two.
* **NodeVoting**: two candidates, two voters, three blacklist addresses with
  address(0) among them, seven successful calls of which at most one goes to
  BokerNodeData directly, largest integer 4. Candidates, voters and non-zero
  addresses are interchangeable, hence the symmetry; no liveness is checked
  under it.

### Fairness

Only `miner_serial` uses fairness. Weak fairness of every thread, of
`Miner.update` and of a loop's own steps is the Go scheduler running every
goroutine. `DoneEvent` is weakly fair because the downloader posts DoneEvent or
FailedEvent in a deferred call. `LoopStopped` is strongly fair because `select`
picks at random among its ready cases: a loop that again and again finds both
its ticker and a closed stopper ready takes the stopper at some time. Requests,
StartEvent, ticks and chain head events have no fairness.

## 4. What is proved

`StockLedgerProofs` proves, for every set of accounts, modulus, set of stock
numbers and rewards and every bound on the list (`LedgerAssumption`):

* `TypeCorrect`: `Spec => []TypeOK`.
* `StockListedAlways`: an account with a record is in the list of holders.
  `CleanStock` removes entry 0 when it does not find the account; this is why
  it never removes another holder.
* `PayoutWithinPoolAlways`: until an operation wraps, what has been paid is
  exactly `curGas` and at most the pool.
* `StockNeedsManagerAlways`: records change only by transactions that the
  appointed manager signed. `TransferStock` has no such check of its own; the
  SetStock it calls makes it.

The inductive invariant is `LedgerInv == TypeOK /\ StockListed /\ AssignInv`.
`PayoutWithinPool` alone is not inductive: one must know that `curGas` and
`credited` are zero until the payments begin, that the divisor is not zero once
they have, and that `curGas` stays within the pool even after a wrap, since the
cap `gas - curGas` would otherwise be negative. `AssignInv` says this. The step
theorem `NextLedgerInv` has one case per action. The operations on the list rest
on lemmas about removing an entry (`RemoveKeepsOthers`) and about the position
`CleanStock` finds (`PositionFinds`).

All else is model-checked only. Liveness (`StartEventuallyMines`,
`StopEventuallyStops`) is out of the prover's reach. `WrapNeedsFrozen`,
`RemainderOnlyLeft` and `PanicNeedsNoActiveStock` relate the running sum to the
sum over a list and need induction over the list.

## 5. Observations without a run

* MinerLifecycle without `Serial`: a start that passed its `canStart` test
  before StartEvent leaves a loop running during a synchronisation, and a stop
  may overtake the asynchronous start before it. Stop, start and stop while the
  mint loop is still in `mintBlock` close the same stopper twice, which is a
  panic. `worker.update` and an exiting mint loop may both close `quitCh`, with
  or without `Serial`.
* DposMint, late handling and an unsteady ticker together: two ticks name the
  same second and the block of the first still waits in `recv` when the second
  is checked; two blocks for one slot, the second with its parent's time, are
  then possible.
* DposMint: while no validator is set, the configured node makes blocks at any
  height, and those above block 1 fail `verifySeal`; `MintedSealsVerify` is
  therefore about blocks on top of a block with validators.
* ChainStore: after a crash in the middle of a reorg, canonical hashes below
  the head may belong to the old branch, and `Reset`, which rewinds from the
  header of the missing head block if that is still there, may leave canonical
  hashes above 0; `CanonicalIsBranch` and `HeaderOnBranch` are therefore about
  crash-free behaviours.
* BlockBuild: `BlockReplays` needs a block whose header time was the tick, or
  was off any slot while no transaction stored the time. Otherwise SetValidator
  may be judged by another producer on replay, or a contract that stores the
  time stores another one. Without validators the first block only replays on a
  node whose head is block 0, since `validatorTransaction` asks the head and not
  the parent.
* `SetSystemContract` refuses every new address, since an absent type reads as
  System; the error is dropped, so the registry stays empty.
* `SetStock` lists a holder again if it already has stock
  (boker_context.go:540), and the gas pool is not reduced by an assignment.
* NodeVoting: a second vote for the same candidate overwrites the first in the
  voter's record and adds to the candidate's tickets. A direct call of
  BokerNodeData changes one of tickets, votes and deposit without the others;
  `TicketsAreVotes` and `DepositCoversVotes` are about histories without one.
* `insertChain` gives an imported block no BokerContext (blockchain.go:1006),
  and `validateTx` refuses the gas assignment the poller submits
  (tx_pool.go:719). Neither is modelled yet.

## 6. What is not modelled, and the plan

Left out for good: cryptography (a seal is modelled by who signed), the EVM's
interpretation of bytecode, tries (maps with snapshots), the peer-to-peer network,
RPC decoding, the light client and the other consensus engines. The reward
table by calendar years is a constant.

Next, in this order:

1. **BlockImport**: `insertChain`, future blocks, header and body validation,
   `CalcGasLimit`, composed with ChainStore and BlockBuild.
2. **ConfirmedHeader**: `updateConfirmedBlockHeader` composed with ForkChoice;
   does a confirmed block stay on the chain?
3. **ContractRegistry** and the poller services: registration, the poll loops,
   stopping a service.
4. **TxPool**: pending and queued lists, promotion, demotion on a new head,
   limits; shown to give BlockBuild the lists it assumes.
5. **Manager and log contracts**: name registry and paged vote log as pure data
   structures checked against a reference definition.
6. **Proofs**: `HeadStored` and the refinement of ChainStore;
   `MintedHeadersVerify` and the length of the validator list in DposMint;
   `NoncesConsecutive` in BlockBuild; `DepositCoversVotes` and
   `BlacksListedOnce` in NodeVoting; `StopperClosedOnce` under `Serial` in
   MinerLifecycle.
