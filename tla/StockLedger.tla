---------------------------- MODULE StockLedger ----------------------------
(***************************************************************************)
(* The stock (equity) ledger of the BokerContext: the stock manager, the   *)
(* list of holders, the per-account stock records, the stock gas pool, and *)
(* the Stock transactions that StockTransitionDb dispatches on them.       *)
(*                                                                         *)
(* Each Stock transaction is one action, except StockAssignGas: the two    *)
(* loops of bokerAssignGas are unrolled, one action per entry of the list, *)
(* with `phase` as the program counter.  No other action is enabled until  *)
(* the loops have ended, so the transaction stays atomic.                  *)
(***************************************************************************)
EXTENDS Integers, SequencesExt

CONSTANTS
    Accounts,   \* addresses that hold stock or sign transactions
    NoAccount,  \* the zero address, common.StringToAddress("")
    NoStock,    \* the outcome of getSingleStockTrie for an absent account
    Modulus,    \* uint64 arithmetic is modulo Modulus
    Numbers,    \* stock numbers a transaction may carry in its value
    Rewards,    \* what AccumulateRewards may add to the gas pool in a block
    MaxList     \* bound on the length of the list of holders

ASSUME LedgerAssumption ==
    /\ NoAccount \notin Accounts
    /\ Modulus \in Nat \ {0}
    /\ Numbers \subseteq 0 .. Modulus - 1
    /\ Rewards \subseteq Nat
    /\ MaxList \in Nat

VARIABLES
    owner,      \* ownerTrie: the stock manager
    stocks,     \* stocksTrie: the list of holders
    single,     \* singleStockTrie: the record of each account
    gasPool,    \* gasPoolTrie
    phase,      \* where bokerAssignGas stands
    next,       \* index of the list entry its current loop visits next
    totalStock, \* its sum of the stock that takes part
    curGas,     \* what it believes to have handed out
    credited,   \* what AddBalance gave to the holders in each stock state
    wrapped,    \* its loops in which a uint64 operation has wrapped around
    signer      \* history: who signed the transaction of the last step, if any

ledger == <<owner, stocks, single, gasPool>>
assign == <<phase, next, totalStock, curGas, credited, wrapped>>
vars == <<ledger, assign, signer>>

States == {"Run", "Frozen"}
Uint64 == 0 .. Modulus - 1
Addresses == Accounts \cup {NoAccount}
StockAccount == [number : Uint64, state : States]
Phases == {"idle", "summing", "paying", "panic"}

\* GetStock answers a record for the account.
HasStock(a) == single[a] # NoStock

Listed(list, a) == \E i \in DOMAIN list : list[i] = a

-----------------------------------------------------------------------------

Init ==
    /\ owner = NoAccount
    /\ stocks = <<>>
    /\ single = [a \in Addresses |-> NoStock]
    /\ gasPool = 0
    /\ phase = "idle"
    /\ next = 1
    /\ totalStock = 0
    /\ curGas = 0
    /\ credited = [s \in States |-> 0]
    /\ wrapped = {}
    /\ signer = NoAccount

AddGasPool_NoWrap(gas) ==
    /\ phase = "idle"
    /\ gasPool' = gasPool + gas
    /\ UNCHANGED <<owner, stocks, single, assign>>

\* AddGasPool, the part of AccumulateRewards that touches the ledger.
AddGasPool(gas) ==
    /\ phase = "idle"
    /\ gasPool' = (gasPool + gas) % Modulus
    /\ UNCHANGED <<owner, stocks, single, assign>>

\* `producer` is what GetCurrentNowProducer answers, NoAccount its error.
\* Only the first appointment is reserved to the producer.
SetStockManager(operation, address, producer) ==
    /\ phase = "idle"
    /\ owner = NoAccount => operation = producer
    /\ owner' = address
    /\ UNCHANGED <<stocks, single, gasPool, assign>>

\* The effect of SetStock once the owner check has passed.  stockExists
\* decodes into a nil pointer and so answers false for every account: the
\* record is overwritten and the account is listed once more.
WriteStock(address, number) ==
    /\ Len(stocks) < MaxList
    /\ stocks' = Append(stocks, address)
    /\ single' = [single EXCEPT ![address] = [number |-> number, state |-> "Run"]]

SetStock_NoOwnerCheck(operation, address, number) ==
    /\ phase = "idle"
    /\ WriteStock(address, number)
    /\ UNCHANGED <<owner, gasPool, assign>>

SetStock(operation, address, number) ==
    /\ phase = "idle"
    /\ owner = operation
    /\ WriteStock(address, number)
    /\ UNCHANGED <<owner, gasPool, assign>>

\* The debit of `from` is made on the local copy that GetStock returned and
\* is never written back; the nested SetStock answers an error, ignored,
\* unless `from` is the stock manager.
TransferStock(from, to, number) ==
    /\ phase = "idle"
    /\ HasStock(from)
    /\ single[from].state # "Frozen"
    /\ single[from].number >= number
    /\ ~HasStock(to)
    /\ owner = from
    /\ WriteStock(to, number)
    /\ UNCHANGED <<owner, gasPool, assign>>

\* The position CleanStock computes: the first entry of `from`, or the first
\* of the list when there is none.
Position_NotSearched(from) == 1

Position(from) ==
    IF Listed(stocks, from)
    THEN CHOOSE i \in DOMAIN stocks :
            /\ stocks[i] = from
            /\ \A j \in 1 .. i - 1 : stocks[j] # from
    ELSE 1

CleanStock(operation, from) ==
    /\ phase = "idle"
    /\ owner = operation
    /\ HasStock(from)
    /\ single' = [single EXCEPT ![from] = NoStock]
    /\ stocks' = RemoveAt(stocks, Position(from))
    /\ UNCHANGED <<owner, gasPool, assign>>

\* FrozenStock and UnFrozenStock.
SetState(operation, from, state) ==
    /\ phase = "idle"
    /\ owner = operation
    /\ HasStock(from)
    /\ single' = [single EXCEPT ![from].state = state]
    /\ UNCHANGED <<owner, stocks, gasPool, assign>>

FrozenStock(operation, from) == SetState(operation, from, "Frozen")
UnFrozenStock(operation, from) == SetState(operation, from, "Run")

\* bokerAssignGas up to its first loop: only the producer, only with gas.
AssignGas(operation, producer) ==
    /\ phase = "idle"
    /\ operation = producer
    /\ gasPool > 0
    /\ phase' = "summing"
    /\ UNCHANGED <<ledger, next, totalStock, curGas, credited, wrapped>>

SumEntry_StopsEarly ==
    /\ phase = "summing"
    /\ next <= Len(stocks)
    /\ LET s == single[stocks[next]]
           n == IF s # NoStock /\ s.state # "Frozen" THEN s.number ELSE 0
       IN /\ totalStock' = IF next < Len(stocks) THEN (totalStock + n) % Modulus ELSE totalStock
          /\ UNCHANGED wrapped
    /\ next' = next + 1
    /\ UNCHANGED <<ledger, phase, curGas, credited>>

\* First loop: GetStocks skips an entry without a record, the loop a frozen one.
SumEntry ==
    /\ phase = "summing"
    /\ next <= Len(stocks)
    /\ LET s == single[stocks[next]]
           n == IF s # NoStock /\ s.state # "Frozen" THEN s.number ELSE 0
       IN /\ totalStock' = (totalStock + n) % Modulus
          /\ wrapped' = IF totalStock + n < Modulus THEN wrapped ELSE wrapped \cup {"sum"}
    /\ next' = next + 1
    /\ UNCHANGED <<ledger, phase, curGas, credited>>

\* gas / totalStock panics on zero.
SumDone ==
    /\ phase = "summing"
    /\ next > Len(stocks)
    /\ phase' = IF totalStock = 0 THEN "panic" ELSE "paying"
    /\ next' = 1
    /\ UNCHANGED <<ledger, totalStock, curGas, credited, wrapped>>

SingleGas_OffByOne == gasPool \div (totalStock + 1)

SingleGas == gasPool \div totalStock

\* userGas after the cap, for the uncapped amount u.
Capped_Never(u) == u

Capped(u) == IF (curGas + u) % Modulus > gasPool THEN gasPool - curGas ELSE u

\* Second loop: every listed record is paid, whatever its state.
PayEntry ==
    /\ phase = "paying"
    /\ next <= Len(stocks)
    /\ LET a == stocks[next]
           product == SingleGas * single[a].number
           u == product % Modulus
           userGas == Capped(u)
       IN IF HasStock(a)
          THEN /\ curGas' = (curGas + userGas) % Modulus
               /\ credited' = [credited EXCEPT ![single[a].state] = @ + userGas]
               /\ wrapped' = IF product < Modulus /\ curGas + u < Modulus
                           THEN wrapped ELSE wrapped \cup {"pay"}
          ELSE UNCHANGED <<curGas, credited, wrapped>>
    /\ next' = next + 1
    /\ UNCHANGED <<ledger, phase, totalStock>>

PayDone ==
    /\ phase = "paying"
    /\ next > Len(stocks)
    /\ phase' = "idle"
    /\ next' = 1
    /\ totalStock' = 0
    /\ curGas' = 0
    /\ credited' = [s \in States |-> 0]
    /\ wrapped' = {}
    /\ UNCHANGED ledger

\* StockTransitionDb: dispatch on the minor type of a Stock transaction.  A
\* refused operation leaves the ledger alone: its error is dropped.
StockTransitionDb(sender, to, value, producer) ==
    \/ SetStockManager(sender, to, producer)
    \/ SetStock(sender, to, value)
    \/ TransferStock(sender, to, value)
    \/ CleanStock(sender, to)
    \/ FrozenStock(sender, to)
    \/ UnFrozenStock(sender, to)
    \/ AssignGas(sender, producer)

\* A step that is not the arrival of a transaction.
Unsigned == signer' = NoAccount

Next ==
    \/ \E gas \in Rewards : AddGasPool(gas) /\ Unsigned
    \/ \E sender \in Accounts, to \in Addresses,
          value \in Numbers, producer \in Addresses :
          StockTransitionDb(sender, to, value, producer) /\ signer' = sender
    \/ SumEntry /\ Unsigned
    \/ SumDone /\ Unsigned
    \/ PayEntry /\ Unsigned
    \/ PayDone /\ Unsigned

Spec == Init /\ [][Next]_vars

-----------------------------------------------------------------------------
(* Properties. *)

\* Every variable keeps the type its trie or local variable has.
TypeOK ==
    /\ owner \in Addresses
    /\ stocks \in Seq(Addresses)
    /\ Len(stocks) <= MaxList
    /\ single \in [Addresses -> StockAccount \cup {NoStock}]
    /\ gasPool \in Uint64
    /\ phase \in Phases
    /\ next \in Nat
    /\ totalStock \in Uint64
    /\ curGas \in Uint64
    /\ credited \in [States -> Nat]
    /\ wrapped \subseteq {"sum", "pay"}
    /\ signer \in Addresses

\* An account with a stock record is in the list of holders.  GetStocks finds
\* holders through the list only, and CleanStock removes entry 0 of the list
\* when it does not find the account: without this it would drop another
\* holder.
StockListed ==
    \A a \in Addresses : HasStock(a) => Listed(stocks, a)

\* Stock records change only by a transaction that the appointed stock manager
\* signed.  The owner checks are spread over SetStock, CleanStock, FrozenStock
\* and UnFrozenStock; TransferStock, which any holder may send, has none of its
\* own and depends on the one of the SetStock it calls.
StockNeedsManager ==
    [][single' # single => owner # NoAccount /\ signer' = owner /\ owner' = owner]_vars

\* The cap of bokerAssignGas works: as long as no uint64 operation wraps
\* around, what AddBalance has given out so far is exactly curGas and never
\* more than the gas pool, whatever the records and however often an account
\* is listed.
PayoutWithinPool ==
    wrapped = {} =>
        /\ credited["Run"] + credited["Frozen"] = curGas
        /\ phase = "paying" => curGas <= gasPool

ListedStock(state) ==
    {i \in DOMAIN stocks : HasStock(stocks[i]) /\ single[stocks[i]].state = state}

\* The payments can wrap around only when a frozen record is listed (its stock
\* is missing from totalStock but is paid) or the sum had wrapped before.
WrapNeedsFrozen ==
    phase = "paying" /\ "pay" \in wrapped =>
        "sum" \in wrapped \/ ListedStock("Frozen") # {}

\* Without frozen records and wrap-around the pool is shared out up to the
\* remainder of the division gas / totalStock: the cap never takes anything
\* from a holder.
RemainderOnlyLeft ==
    phase = "paying" /\ next > Len(stocks) /\ wrapped = {} /\ ListedStock("Frozen") = {} =>
        gasPool - curGas < totalStock

\* The division panics only when no listed record takes part with stock.
PanicNeedsNoActiveStock ==
    phase = "panic" =>
        "sum" \in wrapped \/ \A i \in ListedStock("Run") : single[stocks[i]].number = 0

-----------------------------------------------------------------------------
(* What comments and error texts of the code promise and the code does not    *)
(* do; see the violation runs.                                                 *)

\* protocol.go: frozen stock receives no gas.
FrozenEarnsNothing == credited["Frozen"] = 0

\* protocol.go: StockTransfer moves part of the stock, it creates none.
TotalNumber(s) ==
    MapThenSumSet(LAMBDA a : IF s[a] = NoStock THEN 0 ELSE s[a].number, Addresses)

TransferConserves ==
    [][\A from \in Accounts, to \in Addresses, n \in Numbers :
          TransferStock(from, to, n) => TotalNumber(single') = TotalNumber(single)]_vars

=============================================================================
