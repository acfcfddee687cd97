------------------------------ MODULE DposMint ------------------------------
(***************************************************************************)
(* Block production by one node: worker.mintLoop and mintBlock             *)
(* (miner/worker.go), the slot, producer and seal rules of the DPoS engine *)
(* (consensus/dpos/dpos.go), the validator set and mint counts kept in the *)
(* DposContext (core/types/dpos_context.go) and the SetValidator           *)
(* transaction (core/state_processor.go).                                  *)
(*                                                                         *)
(* Time is in seconds.  A mint loop is driven by a one-second ticker that  *)
(* reads the clock when it fires and whose channel holds one reading:      *)
(* while the loop is busy later ones are dropped, and the one it receives  *)
(* next may be old.  A ticker whose phase is close to a second boundary    *)
(* may fire just after it: two readings then name the same second and the  *)
(* second before has none.  The blocks a loop produces go through the recv *)
(* channel to the goroutine worker.wait, which writes them to the chain.   *)
(* Loops is the set of running mint loops.                                 *)
(***************************************************************************)
EXTENDS Integers, Sequences, FiniteSets

CONSTANTS
  Addresses,        \* account addresses
  Signer,           \* the coinbase of this node, the engine's signer
  LocalValidator,   \* the address the node's configuration names
  Loops,            \* mint loops that are running
  BlockInterval,    \* protocol.BlockInterval
  EpochInterval,    \* protocol.EpochInterval
  MaxValidatorSize, \* protocol.MaxValidatorSize
  GenesisTime,      \* time of block 0
  MaxTime,          \* bound on the clock
  Timings,          \* the pairs <<late, steady>> considered
  None              \* no tick, no transaction, no work

ASSUME MintAssumption ==
  /\ Signer \in Addresses /\ LocalValidator \in Addresses
  /\ None \notin Addresses
  /\ BlockInterval \in Nat \ {0} /\ EpochInterval \in Nat \ {0}
  /\ EpochInterval % BlockInterval = 0
  /\ MaxValidatorSize \in Nat \ {0}
  /\ GenesisTime \in Nat /\ MaxTime \in Nat /\ GenesisTime <= MaxTime
  /\ Timings \subseteq BOOLEAN \X BOOLEAN

VARIABLES
  late,    \* may a mint loop or worker.wait take a second or longer?
  steady,  \* does every ticker fire within the second it is due in?
  now,     \* time.Now().Unix()
  due,     \* due[l]: the second in which the ticker of loop l is due next
  tick,    \* tick[l]: content of the ticker channel of loop l
  pc,      \* where loop l is in mintBlock
  slot,    \* slot[l]: the last tick mintBlock was called with, its now
  work,    \* work[l]: parent and header time chosen by createNewWork
  recv,    \* blocks sealed and not written yet
  blocks,  \* blocks written, in the order they were; blocks[1] is block 0
  head     \* index in blocks of chain.CurrentBlock()

vars == <<late, steady, now, due, tick, pc, slot, work, recv, blocks, head>>
clock == <<late, steady, now, due>>

Epochs == 0 .. (MaxTime + 1) \div EpochInterval

CurrentBlock == blocks[head]
-----------------------------------------------------------------------------
(* The slot rules of the engine.                                           *)

PrevSlot(t) == ((t - 1) \div BlockInterval) * BlockInterval

NextSlot(t) == ((t + BlockInterval - 1) \div BlockInterval) * BlockInterval

OnSlot_AnySecond(t, first) == (t - first) % EpochInterval >= 0

OnSlot(t, first) == ((t - first) % EpochInterval) % BlockInterval = 0

CheckDeadline_SkipsSlot(last, t) ==
  /\ last.time + BlockInterval < NextSlot(t - GenesisTime) + GenesisTime
  /\ OnSlot(t, GenesisTime)

\* May a block be made at tick t on top of last?
CheckDeadline(last, t) ==
  LET prev == PrevSlot(t - GenesisTime) + GenesisTime
      next == NextSlot(t - GenesisTime) + GenesisTime
  IN  /\ last.time < next
      /\ OnSlot(t, GenesisTime)
      /\ last.time = prev \/ next - t <= 1

\* The producer of time t among validators, counting slots from first;
\* None stands for the errors ErrInvalidProducerTime and ErrInvalidProducer.
GetProducer(validators, t, first) ==
  IF OnSlot(t, first) /\ validators # << >>
  THEN LET offset == ((t - first) % EpochInterval) \div BlockInterval
       IN  validators[(offset % Len(validators)) + 1]
  ELSE None

CheckProducer_Anyone(last, t) == last.validators # << >>

CheckProducer(last, t) ==
  GetProducer(last.validators, t, GenesisTime) = Signer
-----------------------------------------------------------------------------
(* The validator set.  A SetValidator transaction is a record [from, to].  *)

Clean == << >>

InsertValidator(validators, a) ==
  IF Len(validators) >= MaxValidatorSize THEN validators
  ELSE Append(validators, a)

\* Does validatorTransaction accept tx in a block of time t, when the head
\* of the chain has the given number?
Accepted(tx, validators, t, number) ==
  /\ OnSlot(t, GenesisTime)
  /\ IF validators = << >> THEN number = 0
     ELSE GetProducer(validators, t, GenesisTime) = tx.from

ValidatorTransaction_KeepsOld(tx, validators) == Append(validators, tx.to)

ValidatorTransaction(tx, validators) == InsertValidator(Clean, tx.to)

\* The validators after executing tx, or no transaction, on validators.
Executed(tx, validators) ==
  IF tx = None THEN validators ELSE ValidatorTransaction(tx, validators)
-----------------------------------------------------------------------------
(* The mint counts: cnt[e][a] blocks of epoch e by a, 0 when absent.       *)

EpochOf(t) == t \div EpochInterval

UpdateMintCnt_AlwaysAdds(cnt, parentTime, t) ==
  [cnt EXCEPT ![EpochOf(t)][Signer] = cnt[EpochOf(parentTime)][Signer] + 1]

UpdateMintCnt(cnt, parentTime, t) ==
  [cnt EXCEPT ![EpochOf(t)][Signer] =
     IF EpochOf(parentTime) = EpochOf(t) THEN @ + 1 ELSE 1]
-----------------------------------------------------------------------------
Genesis ==
  [number |-> 0, parent |-> 0, time |-> GenesisTime, validators |-> << >>,
   cnt |-> [e \in Epochs |-> [a \in Addresses |-> 0]],
   signer |-> None, tx |-> None]

Init ==
  /\ \E t \in Timings : late = t[1] /\ steady = t[2]
  /\ now = GenesisTime
  /\ due = [l \in Loops |-> GenesisTime + 1]
  /\ tick = [l \in Loops |-> None]
  /\ pc = [l \in Loops |-> "select"]
  /\ slot = [l \in Loops |-> None]
  /\ work = [l \in Loops |-> None]
  /\ recv = << >>
  /\ blocks = <<Genesis>>
  /\ head = 1

\* Nothing is left to do for the ticks up to now.
Quiet ==
  /\ recv = << >>
  /\ \A l \in Loops : pc[l] = "select" /\ tick[l] = None

\* A second passes.  A ticker fires in the second it is due in or, unless
\* it is steady, in the one after.
Second ==
  /\ now < MaxTime
  /\ late \/ Quiet
  /\ \A l \in Loops : due[l] > now \/ (~steady /\ due[l] = now)
  /\ now' = now + 1
  /\ UNCHANGED <<late, steady, due, tick, pc, slot, work, recv, blocks, head>>

\* The ticker of loop l fires and offers the time it reads; the channel
\* drops it when it is full.  Ticks are due a second apart: one that fires
\* in a second after its own may be followed by the next in that second.
Fire(l) ==
  /\ due[l] <= now
  /\ late \/ Quiet
  /\ tick' = [tick EXCEPT ![l] = IF @ = None THEN now ELSE @]
  /\ \E next \in {now, now + 1} :
       /\ next = now => ~steady /\ due[l] < now
       /\ due' = [due EXCEPT ![l] = next]
  /\ UNCHANGED <<late, steady, now, pc, slot, work, recv, blocks, head>>

\* mintLoop receives a tick and calls mintBlock, which asks the engine for
\* the number of producers.
Receive(l) ==
  /\ pc[l] = "select" /\ tick[l] # None
  /\ slot' = [slot EXCEPT ![l] = tick[l]]
  /\ tick' = [tick EXCEPT ![l] = None]
  /\ pc' = [pc EXCEPT ![l] =
              IF CurrentBlock.validators = << >> THEN "bootstrap" ELSE "deadline"]
  /\ UNCHANGED <<clock, work, recv, blocks, head>>

\* The call of mintBlock returns.
Return(l) ==
  /\ pc' = [pc EXCEPT ![l] = "select"]
  /\ work' = [work EXCEPT ![l] = None]

\* What mintBlock asks of the current block, read again for each test,
\* before it goes on: the deadline and, without producers, that the coinbase
\* is the configured validator; otherwise the deadline, then the producer.
MayPass(l) ==
  CASE pc[l] = "bootstrap" -> CheckDeadline(CurrentBlock, slot[l])
                              /\ Signer = LocalValidator
    [] pc[l] = "deadline"  -> CheckDeadline(CurrentBlock, slot[l])
    [] pc[l] = "producer"  -> CheckProducer(CurrentBlock, slot[l])

Check(l) ==
  /\ pc[l] \in {"bootstrap", "deadline", "producer"}
  /\ MayPass(l)
  /\ pc' = [pc EXCEPT ![l] = IF @ = "deadline" THEN "producer" ELSE "create"]
  /\ UNCHANGED <<clock, tick, slot, work, recv, blocks, head>>

Decline(l) ==
  /\ pc[l] \in {"bootstrap", "deadline", "producer"}
  /\ ~MayPass(l)
  /\ Return(l)
  /\ UNCHANGED <<clock, tick, slot, recv, blocks, head>>

\* createNewWork takes the current block as parent and stamps the header.
CreateNewWork(l) ==
  /\ pc[l] = "create"
  /\ work' = [work EXCEPT ![l] =
       [parent |-> head,
        time |-> IF CurrentBlock.time >= now THEN CurrentBlock.time + 1 ELSE now]]
  /\ pc' = [pc EXCEPT ![l] = "execute"]
  /\ UNCHANGED <<clock, tick, slot, recv, blocks, head>>

Sealed_KeepsHeaderTime(p, tx, t, s) ==
  [number |-> blocks[p].number + 1, parent |-> p, time |-> t,
   validators |-> Executed(tx, blocks[p].validators),
   cnt |-> UpdateMintCnt(blocks[p].cnt, blocks[p].time, t),
   signer |-> Signer, tx |-> tx]

Sealed_CountsInParentEpoch(p, tx, t, s) ==
  [number |-> blocks[p].number + 1, parent |-> p, time |-> s,
   validators |-> Executed(tx, blocks[p].validators),
   cnt |-> UpdateMintCnt(blocks[p].cnt, blocks[p].time, blocks[p].time),
   signer |-> Signer, tx |-> tx]

\* The block made on parent p, executed at time t and sealed with the tick
\* s: Finalize has counted the block by its header time before Seal
\* overwrites that time with the tick.
Sealed(p, tx, t, s) ==
  [number |-> blocks[p].number + 1, parent |-> p, time |-> s,
   validators |-> Executed(tx, blocks[p].validators),
   cnt |-> UpdateMintCnt(blocks[p].cnt, blocks[p].time, t),
   signer |-> Signer, tx |-> tx]

Transactions == [from : Addresses, to : Addresses]

\* createNewWork executes the pending transactions, of which one SetValidator
\* transaction is followed here, and finalizes; Seal does not wait, since
\* slot[l] is a slot time, and the block is sent to recv.
Execute(l) ==
  /\ pc[l] = "execute"
  /\ \E tx \in Transactions \cup {None} :
       /\ tx # None => Accepted(tx, blocks[work[l].parent].validators,
                                work[l].time, CurrentBlock.number)
       /\ recv' = Append(recv, Sealed(work[l].parent, tx, work[l].time, slot[l]))
  /\ Return(l)
  /\ UNCHANGED <<clock, tick, slot, blocks, head>>

\* Fork choice of WriteBlockAndState: difficulty is 1, so the total
\* difficulty of a block is its number; ties are decided at random.
BecomesHead(b) ==
  IF b.number = CurrentBlock.number THEN BOOLEAN ELSE {b.number > CurrentBlock.number}

\* worker.wait writes the next block.
Write ==
  /\ recv # << >>
  /\ \E canon \in BecomesHead(recv[1]) :
       head' = IF canon THEN Len(blocks) + 1 ELSE head
  /\ blocks' = Append(blocks, recv[1])
  /\ recv' = Tail(recv)
  /\ UNCHANGED <<clock, tick, pc, slot, work>>

Next ==
  \/ Second
  \/ Write
  \/ \E l \in Loops :
       Fire(l) \/ Receive(l) \/ Check(l) \/ Decline(l) \/ CreateNewWork(l) \/ Execute(l)

Spec == Init /\ [][Next]_vars
-----------------------------------------------------------------------------
(* What another node checks of a block b whose parent is p.                *)

VerifyHeader(b, p) == p.time + BlockInterval <= b.time

VerifySeal(b, p) ==
  b.number = 1 \/ GetProducer(p.validators, b.time, p.time) = b.signer

\* Executing b again from its header reproduces its DposContext.
ValidateDposState(b, p) ==
  /\ b.tx = None \/ Accepted(b.tx, p.validators, b.time, p.number)
  /\ b.validators = Executed(b.tx, p.validators)
  /\ b.cnt = UpdateMintCnt(p.cnt, p.time, b.time)
-----------------------------------------------------------------------------
Blocks ==
  [number : Nat, parent : 0 .. Len(blocks),
   time : GenesisTime .. MaxTime,
   validators : {<< >>} \cup {<<a>> : a \in Addresses},
   cnt : [Epochs -> [Addresses -> Nat]],
   signer : Addresses \cup {None}, tx : Transactions \cup {None}]

\* Type invariant; in particular the validator list, which GetProducer
\* indexes, never has more than one entry, whatever MaxValidatorSize is.
TypeOK ==
  /\ late \in BOOLEAN /\ steady \in BOOLEAN
  /\ now \in GenesisTime .. MaxTime
  /\ due \in [Loops -> GenesisTime .. MaxTime + 1]
  /\ tick \in [Loops -> (GenesisTime .. MaxTime) \cup {None}]
  /\ pc \in [Loops -> {"select", "bootstrap", "deadline", "producer", "create", "execute"}]
  /\ slot \in [Loops -> (GenesisTime .. MaxTime) \cup {None}]
  /\ \A l \in Loops : work[l] = None \/
       work[l] \in [parent : 1 .. Len(blocks), time : GenesisTime .. MaxTime + 1]
  /\ \A i \in 1 .. Len(recv) : recv[i] \in Blocks
  /\ \A i \in 1 .. Len(blocks) : blocks[i] \in Blocks
  /\ head \in 1 .. Len(blocks)

Minted == 2 .. Len(blocks)

ParentOf(i) == blocks[blocks[i].parent]

\* Every block the node writes is at least BlockInterval younger than its
\* parent, which is what verifyHeader of the other nodes asks, although the
\* parent is read again after CheckDeadline looked at the head.  This is
\* promised while no second is read twice, or while every tick is handled
\* and its block written before the next: the code remembers neither the
\* last tick nor the blocks that wait in recv.
MintedHeadersVerify ==
  steady \/ ~late => \A i \in Minted : VerifyHeader(blocks[i], ParentOf(i))

\* The node signs a block only in a slot verifySeal gives to its signer,
\* although mintBlock counts slots from block 0 and verifySeal from the
\* parent block, once a validator has been set and while ticks and writes are
\* handled in time.  (A late write may change the validator between the
\* checks of mintBlock and createNewWork.)
MintedSealsVerify ==
  ~late => \A i \in Minted :
    ParentOf(i).validators # << >> => VerifySeal(blocks[i], ParentOf(i))

\* No two blocks are produced for the same slot: with a steady ticker also
\* when blocks wait in recv while the loop goes on to later ticks, and with
\* prompt handling also when two ticks name the same second.
OneBlockPerSlot ==
  steady \/ ~late =>
    \A i, j \in Minted : blocks[i].time = blocks[j].time => i = j

\* Executing a produced block again from its header gives the validators and
\* the mint counts its header commits to (ValidateDposState).
MintedDposStateVerifies ==
  \A i \in Minted : ValidateDposState(blocks[i], ParentOf(i))

\* It does so for every block whose tick was handled within its second, so
\* that the time Seal writes is the time Finalize used.
PromptDposStateVerifies == ~late => MintedDposStateVerifies

Ancestors[i \in Nat] == IF i <= 1 THEN {} ELSE {i} \cup Ancestors[blocks[i].parent]

\* The mint count updateMintCnt keeps for an epoch and a validator is the
\* number of blocks of that validator with a time in that epoch on the chain,
\* when ticks are handled in time.
MintCntExact ==
  ~late => \A i \in Minted : \A e \in Epochs : \A a \in Addresses :
    blocks[i].cnt[e][a] =
      Cardinality({j \in Ancestors[i] :
                     EpochOf(blocks[j].time) = e /\ blocks[j].signer = a})

\* A producer whose loop and writer keep up with the clock uses every slot
\* one of its ticks names, and with a steady ticker it misses no slot.  (A
\* second that no tick reads is a slot missed: mintBlock only sees ticks.)
NoSlotMissed ==
  ~late /\ Quiet /\ CurrentBlock.validators = <<Signer>> =>
    /\ \A l \in Loops : slot[l] # None /\ OnSlot(slot[l], GenesisTime)
                          => CurrentBlock.time >= slot[l]
    /\ steady /\ (\A l \in Loops : due[l] > now)
         => now - CurrentBlock.time < BlockInterval

=============================================================================
