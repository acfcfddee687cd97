------------------------- MODULE StockLedgerProofs -------------------------
(***************************************************************************)
(* Proofs about StockLedger, for every set of accounts, every modulus and  *)
(* every bound on the list: type correctness, StockListed,                 *)
(* PayoutWithinPool and StockNeedsManager.                                 *)
(***************************************************************************)
EXTENDS StockLedger, SequenceTheorems, WellFoundedInduction, TLAPS

\* What bokerAssignGas keeps true of its local variables: they are fresh
\* until the payments begin; from then on the divisor is not zero and curGas
\* stays within the pool even when an operation wraps around; and until one
\* does, the payments add up to curGas.
AssignInv ==
    /\ next >= 1
    /\ phase # "paying" =>
         curGas = 0 /\ credited["Run"] = 0 /\ credited["Frozen"] = 0
    /\ phase = "paying" => totalStock > 0 /\ curGas <= gasPool
    /\ wrapped = {} => credited["Run"] + credited["Frozen"] = curGas

\* The inductive invariant.
LedgerInv == TypeOK /\ StockListed /\ AssignInv

-----------------------------------------------------------------------------

\* Remainders modulo the word size are machine words.
LEMMA ModUint64 ==
    ASSUME NEW n \in Nat
    PROVE  n % Modulus \in Uint64 /\ n % Modulus <= n
BY LedgerAssumption DEF Uint64

\* Removing entry p of a list leaves every entry with another value listed.
LEMMA RemoveKeepsOthers ==
    ASSUME NEW S, NEW s \in Seq(S), NEW p \in 1 .. Len(s)
    PROVE  /\ RemoveAt(s, p) \in Seq(S)
           /\ Len(RemoveAt(s, p)) = Len(s) - 1
           /\ \A x : Listed(s, x) /\ x # s[p] => Listed(RemoveAt(s, p), x)
<1> DEFINE front == SubSeq(s, 1, p - 1)
           back == SubSeq(s, p + 1, Len(s))
<1>1. /\ front \in Seq(S) /\ Len(front) = p - 1
      /\ \A i \in 1 .. p - 1 : front[i] = s[i]
  BY SubSeqProperties
<1>2. /\ back \in Seq(S) /\ Len(back) = Len(s) - p
      /\ \A i \in 1 .. Len(s) - p : back[i] = s[p + i]
  BY SubSeqProperties
<1> HIDE DEF front, back
<1>3. /\ front \o back \in Seq(S)
      /\ Len(front \o back) = Len(s) - 1
      /\ \A i \in 1 .. Len(s) - 1 : (front \o back)[i] =
              IF i <= p - 1 THEN front[i] ELSE back[i - (p - 1)]
  <2>1. /\ front \o back \in Seq(S)
        /\ Len(front \o back) = Len(front) + Len(back)
        /\ \A i \in 1 .. Len(front) + Len(back) : (front \o back)[i] =
              IF i <= Len(front) THEN front[i] ELSE back[i - Len(front)]
    BY <1>1, <1>2, ConcatProperties
  <2>2. Len(front) = p - 1 /\ Len(front) + Len(back) = Len(s) - 1
    BY <1>1, <1>2
  <2>3. QED
    BY <2>1, <2>2
<1> DEFINE r == RemoveAt(s, p)
<1>4. r = front \o back
  BY DEF RemoveAt, front, back
<1> HIDE DEF r
<1>5. r \in Seq(S) /\ Len(r) = Len(s) - 1 /\ DOMAIN r = 1 .. Len(s) - 1
  BY <1>3, <1>4
<1>6. ASSUME NEW i \in 1 .. p - 1
      PROVE  i \in 1 .. Len(s) - 1 /\ r[i] = s[i]
  BY <1>1, <1>3, <1>4
<1>7. ASSUME NEW i \in p + 1 .. Len(s)
      PROVE  i - 1 \in 1 .. Len(s) - 1 /\ r[i - 1] = s[i]
  <2>1. /\ i - 1 \in 1 .. Len(s) - 1 /\ ~(i - 1 <= p - 1)
        /\ (i - 1) - (p - 1) = i - p /\ i - p \in 1 .. Len(s) - p /\ p + (i - p) = i
    OBVIOUS
  <2>2. r[i - 1] = back[i - p]
    BY <1>3, <1>4, <2>1
  <2>3. back[i - p] = s[i]
    BY <1>2, <2>1
  <2>4. QED
    BY <2>1, <2>2, <2>3
<1>8. ASSUME NEW x, Listed(s, x), x # s[p]
      PROVE  Listed(r, x)
  <2>1. PICK i \in 1 .. Len(s) : s[i] = x
    BY <1>8 DEF Listed
  <2>2. i \in 1 .. p - 1 \/ i \in p + 1 .. Len(s)
    BY <1>8, <2>1
  <2>3. \E j \in 1 .. Len(s) - 1 : r[j] = x
    BY <1>6, <1>7, <2>1, <2>2
  <2>4. QED
    BY <1>5, <2>3 DEF Listed
<1>9. QED
  BY <1>5, <1>8 DEF r

\* A set of list positions has a least one.
LEMMA LeastPosition ==
    ASSUME NEW T \in SUBSET Nat, T # {}
    PROVE  \E x \in T : \A y \in T : x <= y
<1>1. \E x \in T : \A y \in T : ~ (<<y, x>> \in OpToRel(<, Nat))
  BY NatLessThanWellFounded, WFMin
<1>2. \E x \in T : \A y \in T : ~ (y < x)
  BY <1>1, Zenon DEF OpToRel
<1>3. QED
  BY <1>2

\* When the account is listed, CleanStock's search finds one of its entries.
LEMMA PositionFinds ==
    ASSUME TypeOK, NEW from, Listed(stocks, from)
    PROVE  Position(from) \in 1 .. Len(stocks) /\ stocks[Position(from)] = from
<1> DEFINE T == {i \in DOMAIN stocks : stocks[i] = from}
<1>1. T \in SUBSET Nat /\ T # {} /\ DOMAIN stocks = 1 .. Len(stocks)
  BY DEF TypeOK, Listed
<1>2. PICK x \in T : \A y \in T : x <= y
  BY <1>1, LeastPosition
<1>3. stocks[x] = from /\ \A j \in 1 .. x - 1 : stocks[j] # from
  BY <1>1, <1>2
<1>4. QED
  BY <1>1, <1>3 DEF Position, Listed

-----------------------------------------------------------------------------
THEOREM InitLedgerInv == Init => LedgerInv
<1> SUFFICES ASSUME Init PROVE LedgerInv
  OBVIOUS
<1>1. TypeOK
  BY LedgerAssumption DEF Init, TypeOK, Addresses, Uint64, States, Phases
<1>2. StockListed
  BY DEF Init, StockListed, HasStock
<1>3. AssignInv
  BY DEF Init, AssignInv, States
<1>4. QED
  BY <1>1, <1>2, <1>3 DEF LedgerInv

-----------------------------------------------------------------------------
\* The three operations that write the list or the records keep StockListed:
\* SetStock and TransferStock list the account they write a record for,
\* CleanStock removes one entry of the account whose record it deletes.
LEMMA WriteStockStep ==
    ASSUME TypeOK, StockListed, NEW address \in Addresses, NEW number \in Numbers,
           WriteStock(address, number)
    PROVE  /\ stocks' \in Seq(Addresses) /\ Len(stocks') <= MaxList
           /\ single' \in [Addresses -> StockAccount \cup {NoStock}]
           /\ StockListed'
<1>1. [number |-> number, state |-> "Run"] \in StockAccount
  BY LedgerAssumption DEF StockAccount, Uint64, States
<1>2. single' \in [Addresses -> StockAccount \cup {NoStock}]
  BY <1>1 DEF WriteStock, TypeOK
<1>3. /\ stocks' \in Seq(Addresses) /\ Len(stocks') = Len(stocks) + 1
      /\ \A i \in 1 .. Len(stocks) : stocks'[i] = stocks[i]
      /\ stocks'[Len(stocks) + 1] = address
  BY AppendProperties DEF WriteStock, TypeOK
<1>4. Len(stocks') <= MaxList
  BY <1>3, LedgerAssumption DEF WriteStock, TypeOK
<1>5. ASSUME NEW a \in Addresses, single'[a] # NoStock
      PROVE  Listed(stocks', a)
  <2>1. CASE a = address
    BY <1>3, <2>1 DEF TypeOK, Listed
  <2>2. CASE a # address
    <3>1. single[a] # NoStock
      BY <1>5, <2>2 DEF WriteStock, TypeOK
    <3>2. PICK i \in DOMAIN stocks : stocks[i] = a
      BY <3>1 DEF StockListed, HasStock, Listed
    <3>3. QED
      BY <1>3, <3>2 DEF TypeOK, Listed
  <2>3. QED
    BY <2>1, <2>2
<1>6. StockListed'
  BY <1>5 DEF StockListed, HasStock
<1>7. QED
  BY <1>2, <1>3, <1>4, <1>6

LEMMA CleanStockStep ==
    ASSUME TypeOK, StockListed, NEW operation, NEW from \in Addresses,
           CleanStock(operation, from)
    PROVE  /\ stocks' \in Seq(Addresses) /\ Len(stocks') <= MaxList
           /\ single' \in [Addresses -> StockAccount \cup {NoStock}]
           /\ StockListed'
<1> DEFINE p == Position(from)
<1>1. p \in 1 .. Len(stocks) /\ stocks[p] = from
  BY PositionFinds DEF CleanStock, StockListed
<1>2. stocks' = RemoveAt(stocks, p) /\ single' = [single EXCEPT ![from] = NoStock]
  BY DEF CleanStock
<1>3. single' \in [Addresses -> StockAccount \cup {NoStock}]
  BY <1>2 DEF TypeOK
<1> HIDE DEF p
<1>4. /\ stocks' \in Seq(Addresses) /\ Len(stocks') = Len(stocks) - 1
      /\ \A x : Listed(stocks, x) /\ x # stocks[p] => Listed(stocks', x)
  <2>1. stocks \in Seq(Addresses)
    BY DEF TypeOK
  <2>2. /\ RemoveAt(stocks, p) \in Seq(Addresses)
        /\ Len(RemoveAt(stocks, p)) = Len(stocks) - 1
        /\ \A x : Listed(stocks, x) /\ x # stocks[p] => Listed(RemoveAt(stocks, p), x)
    <3>1. p \in 1 .. Len(stocks)
      BY <1>1
    <3>2. QED
      BY ONLY <2>1, <3>1, RemoveKeepsOthers
  <2>3. QED
    BY <1>2, <2>2, Zenon
<1>5. Len(stocks') <= MaxList
  BY <1>4, LedgerAssumption DEF TypeOK
<1>6. ASSUME NEW a \in Addresses, single'[a] # NoStock
      PROVE  Listed(stocks', a)
  <2>1. a # from /\ single[a] # NoStock
    BY <1>2, <1>6 DEF TypeOK
  <2>2. QED
    BY <1>1, <1>4, <2>1 DEF StockListed, HasStock
<1>7. StockListed'
  BY <1>6 DEF StockListed, HasStock
<1>8. QED
  BY <1>3, <1>4, <1>5, <1>7

LEMMA SetStateStep ==
    ASSUME TypeOK, StockListed, NEW operation, NEW from \in Addresses,
           NEW state \in States, SetState(operation, from, state)
    PROVE  /\ single' \in [Addresses -> StockAccount \cup {NoStock}]
           /\ StockListed'
<1>1. single[from] \in StockAccount
  BY DEF TypeOK, SetState, HasStock
<1>2. [single[from] EXCEPT !.state = state] \in StockAccount
  BY <1>1 DEF StockAccount
<1>3. single' = [single EXCEPT ![from] = [single[from] EXCEPT !.state = state]]
  BY DEF SetState
<1>4. single' \in [Addresses -> StockAccount \cup {NoStock}]
  BY <1>2, <1>3 DEF TypeOK
<1>5. \A a \in Addresses : single'[a] # NoStock => single[a] # NoStock
  BY <1>3 DEF TypeOK, SetState, HasStock
<1>6. stocks' = stocks
  BY DEF SetState
<1>7. QED
  BY <1>4, <1>5, <1>6 DEF StockListed, HasStock

-----------------------------------------------------------------------------
\* Every step of the ledger and of bokerAssignGas keeps the invariant.
THEOREM NextLedgerInv == LedgerInv /\ [Next]_vars => LedgerInv'
<1> SUFFICES ASSUME LedgerInv, [Next]_vars PROVE LedgerInv'
  OBVIOUS
<1> USE DEF LedgerInv
<1>0. signer' \in Addresses
  BY DEF Next, Unsigned, vars, TypeOK, Addresses
<1>1. ASSUME NEW gas \in Rewards, AddGasPool(gas) PROVE LedgerInv'
  <2>1. gasPool' \in Uint64
    <3>1. gasPool + gas \in Nat
      BY LedgerAssumption DEF TypeOK, Uint64
    <3>2. QED
      BY <1>1, <3>1, ModUint64 DEF AddGasPool
  <2>2. TypeOK'
    BY <1>0, <1>1, <2>1 DEF AddGasPool, assign, TypeOK, Addresses, Phases
  <2>3. StockListed'
    BY <1>1 DEF AddGasPool, StockListed, HasStock
  <2>4. AssignInv'
    BY <1>1 DEF AddGasPool, assign, AssignInv
  <2>5. QED
    BY <2>2, <2>3, <2>4
<1>2. ASSUME NEW sender \in Accounts, NEW to \in Addresses, NEW value \in Numbers,
             NEW producer \in Addresses, StockTransitionDb(sender, to, value, producer)
      PROVE  LedgerInv'
  <2>1. CASE SetStockManager(sender, to, producer)
    <3>1. TypeOK'
      BY <1>0, <2>1 DEF SetStockManager, assign, TypeOK
    <3>2. StockListed'
      BY <2>1 DEF SetStockManager, StockListed, HasStock
    <3>3. AssignInv'
      BY <2>1 DEF SetStockManager, assign, AssignInv
    <3>4. QED
      BY <3>1, <3>2, <3>3
  <2>2. CASE SetStock(sender, to, value) \/ TransferStock(sender, to, value)
    <3>1. /\ WriteStock(to, value)
          /\ UNCHANGED <<owner, gasPool, assign>>
      BY <2>2 DEF SetStock, TransferStock
    <3>2. TypeOK'
      BY <1>0, <3>1, WriteStockStep DEF assign, TypeOK
    <3>3. StockListed'
      BY <3>1, WriteStockStep
    <3>4. AssignInv'
      BY <3>1 DEF assign, AssignInv
    <3>5. QED
      BY <3>2, <3>3, <3>4
  <2>3. CASE CleanStock(sender, to)
    <3>1. UNCHANGED <<owner, gasPool, assign>>
      BY <2>3 DEF CleanStock
    <3>2. TypeOK'
      BY <1>0, <2>3, <3>1, CleanStockStep DEF assign, TypeOK
    <3>3. StockListed'
      BY <2>3, CleanStockStep
    <3>4. AssignInv'
      BY <3>1 DEF assign, AssignInv
    <3>5. QED
      BY <3>2, <3>3, <3>4
  <2>4. CASE FrozenStock(sender, to) \/ UnFrozenStock(sender, to)
    <3>1. PICK state \in States : SetState(sender, to, state)
      BY <2>4 DEF FrozenStock, UnFrozenStock, States
    <3>2. UNCHANGED <<owner, stocks, gasPool, assign>>
      BY <3>1 DEF SetState
    <3>3. TypeOK'
      BY <1>0, <3>1, <3>2, SetStateStep DEF assign, TypeOK
    <3>4. StockListed'
      BY <3>1, SetStateStep
    <3>5. AssignInv'
      BY <3>2 DEF assign, AssignInv
    <3>6. QED
      BY <3>3, <3>4, <3>5
  <2>5. CASE AssignGas(sender, producer)
    <3>1. TypeOK'
      BY <1>0, <2>5 DEF AssignGas, ledger, TypeOK, Phases
    <3>2. StockListed'
      BY <2>5 DEF AssignGas, ledger, StockListed, HasStock
    <3>3. AssignInv'
      BY <2>5 DEF AssignGas, ledger, AssignInv
    <3>4. QED
      BY <3>1, <3>2, <3>3
  <2>6. QED
    BY <1>2, <2>1, <2>2, <2>3, <2>4, <2>5 DEF StockTransitionDb
<1>3. CASE SumEntry
  <2> DEFINE s == single[stocks[next]]
             n == IF s # NoStock /\ s.state # "Frozen" THEN s.number ELSE 0
  <2>1. stocks[next] \in Addresses
    BY <1>3 DEF SumEntry, TypeOK, AssignInv
  <2>2. n \in Nat
    BY <2>1 DEF TypeOK, StockAccount, Uint64
  <2>3. totalStock' = (totalStock + n) % Modulus
    BY <1>3 DEF SumEntry
  <2>4. wrapped' = wrapped \/ wrapped' = wrapped \cup {"sum"}
    BY <1>3 DEF SumEntry
  <2> HIDE DEF n
  <2>5. totalStock' \in Uint64
    <3>1. totalStock + n \in Nat
      BY <2>2 DEF TypeOK, Uint64
    <3>2. QED
      BY <2>3, <3>1, ModUint64
  <2>6. TypeOK'
    <3>1. wrapped' \subseteq {"sum", "pay"}
      BY <2>4 DEF TypeOK
    <3>2. UNCHANGED <<owner, stocks, single, gasPool, phase, curGas, credited>> /\ next' \in Nat
      BY <1>3 DEF SumEntry, ledger, TypeOK
    <3>3. QED
      BY <1>0, <2>5, <3>1, <3>2 DEF TypeOK
  <2>7. StockListed'
    BY <1>3 DEF SumEntry, ledger, StockListed, HasStock
  <2>8. AssignInv'
    BY <1>3, <2>4 DEF SumEntry, ledger, AssignInv, TypeOK
  <2>9. QED
    BY <2>6, <2>7, <2>8
<1>4. CASE SumDone
  <2>1. TypeOK'
    BY <1>0, <1>4 DEF SumDone, ledger, TypeOK, Phases
  <2>2. StockListed'
    BY <1>4 DEF SumDone, ledger, StockListed, HasStock
  <2>3. AssignInv'
    BY <1>4 DEF SumDone, ledger, AssignInv, TypeOK, Uint64
  <2>4. QED
    BY <2>1, <2>2, <2>3
<1>5. CASE PayEntry
  <2> DEFINE a == stocks[next]
             product == SingleGas * single[a].number
             u == product % Modulus
  <2>1. a \in Addresses
    BY <1>5 DEF PayEntry, TypeOK, AssignInv
  <2>2. StockListed'
    BY <1>5 DEF PayEntry, ledger, StockListed, HasStock
  <2>3. CASE ~HasStock(a)
    <3>1. UNCHANGED <<ledger, phase, totalStock, curGas, credited, wrapped>> /\ next' = next + 1
      BY <1>5, <2>3 DEF PayEntry
    <3>2. TypeOK'
      BY <1>0, <3>1 DEF ledger, TypeOK
    <3>3. AssignInv'
      BY <3>1 DEF ledger, AssignInv, TypeOK
    <3>4. QED
      BY <2>2, <3>2, <3>3
  <2>4. CASE HasStock(a)
    <3>1. single[a].number \in Nat /\ single[a].state \in States
      BY <2>1, <2>4 DEF HasStock, TypeOK, StockAccount, Uint64
    <3>2. totalStock \in Nat \ {0} /\ gasPool \in Nat /\ gasPool < Modulus /\ curGas \in Nat
          /\ curGas <= gasPool /\ phase = "paying"
      BY <1>5, LedgerAssumption DEF PayEntry, AssignInv, TypeOK, Uint64
    <3>3. SingleGas \in Nat
      BY <3>2 DEF SingleGas
    <3>4. product \in Nat
      BY <3>1, <3>3
    <3> HIDE DEF product
    <3>5. u \in Nat /\ u < Modulus /\ (product < Modulus => u = product)
      BY <3>4, LedgerAssumption
    <3> DEFINE userGas == Capped(u)
    <3>6. /\ next' = next + 1 /\ UNCHANGED <<ledger, phase, totalStock>>
          /\ curGas' = (curGas + userGas) % Modulus
          /\ credited' = [credited EXCEPT ![single[a].state] = @ + userGas]
          /\ wrapped' = IF product < Modulus /\ curGas + u < Modulus
                        THEN wrapped ELSE wrapped \cup {"pay"}
      BY <1>5, <2>4 DEF PayEntry, product
    <3> HIDE DEF u
    <3>7. /\ userGas \in Nat
          /\ (curGas + userGas) % Modulus \in Nat
          /\ (curGas + userGas) % Modulus <= gasPool
          /\ curGas + u < Modulus => (curGas + userGas) % Modulus = curGas + userGas
      <4>1. CASE (curGas + u) % Modulus > gasPool
        BY <4>1, <3>2, <3>5, LedgerAssumption DEF Capped
      <4>2. CASE ~((curGas + u) % Modulus > gasPool)
        BY <4>2, <3>2, <3>5, LedgerAssumption DEF Capped
      <4>3. QED
        BY <4>1, <4>2
    <3> HIDE DEF userGas
    <3>8. /\ credited' \in [States -> Nat]
          /\ credited'["Run"] + credited'["Frozen"] = credited["Run"] + credited["Frozen"] + userGas
      <4>1. credited \in [States -> Nat] /\ credited["Run"] \in Nat /\ credited["Frozen"] \in Nat
        BY DEF TypeOK, States
      <4>2. CASE single[a].state = "Run"
        BY <3>6, <3>7, <4>1, <4>2 DEF States
      <4>3. CASE single[a].state = "Frozen"
        BY <3>6, <3>7, <4>1, <4>3 DEF States
      <4>4. QED
        BY <3>1, <4>2, <4>3 DEF States
    <3>9. TypeOK'
      <4>1. curGas' \in Uint64
        BY <3>2, <3>6, <3>7, LedgerAssumption DEF Uint64
      <4>2. wrapped' \subseteq {"sum", "pay"}
        BY <3>6 DEF TypeOK
      <4>3. UNCHANGED <<owner, stocks, single, gasPool, phase, totalStock>> /\ next' \in Nat
        BY <3>6 DEF ledger, TypeOK
      <4>4. QED
        BY <1>0, <3>8, <4>1, <4>2, <4>3 DEF TypeOK
    <3>10. AssignInv'
      <4>1. next' >= 1 /\ (phase' = "paying") /\ totalStock' > 0 /\ curGas' <= gasPool'
        BY <3>2, <3>6, <3>7 DEF AssignInv, TypeOK, ledger
      <4>2. ASSUME wrapped' = {}
            PROVE  credited'["Run"] + credited'["Frozen"] = curGas'
        <5>1. wrapped = {} /\ curGas + u < Modulus
          BY <3>6, <4>2
        <5>2. curGas' = curGas + userGas
          BY <3>6, <3>7, <5>1
        <5>3. QED
          BY <3>8, <5>1, <5>2 DEF AssignInv
      <4>3. QED
        BY <4>1, <4>2 DEF AssignInv
    <3>11. QED
      BY <2>2, <3>9, <3>10
  <2>5. QED
    BY <2>3, <2>4
<1>6. CASE PayDone
  <2>1. TypeOK'
    BY <1>0, <1>6, LedgerAssumption DEF PayDone, ledger, TypeOK, Phases, States, Uint64
  <2>2. StockListed'
    BY <1>6 DEF PayDone, ledger, StockListed, HasStock
  <2>3. AssignInv'
    BY <1>6 DEF PayDone, ledger, AssignInv, States
  <2>4. QED
    BY <2>1, <2>2, <2>3
<1>7. CASE UNCHANGED vars
  <2>1. TypeOK'
    BY <1>0, <1>7 DEF vars, ledger, assign, TypeOK
  <2>2. StockListed'
    BY <1>7 DEF vars, ledger, StockListed, HasStock
  <2>3. AssignInv'
    BY <1>7 DEF vars, ledger, assign, AssignInv
  <2>4. QED
    BY <2>1, <2>2, <2>3
<1>8. QED
  BY <1>1, <1>2, <1>3, <1>4, <1>5, <1>6, <1>7 DEF Next

-----------------------------------------------------------------------------
\* The inductive invariant holds in every reachable state.
THEOREM LedgerInvariant == Spec => []LedgerInv
BY InitLedgerInv, NextLedgerInv, PTL DEF Spec

\* Type correctness of the ledger.
THEOREM TypeCorrect == Spec => []TypeOK
<1>1. LedgerInv => TypeOK
  BY DEF LedgerInv
<1>2. QED
  BY <1>1, LedgerInvariant, PTL

\* Whatever the transactions, an account with a stock record is listed, so
\* CleanStock never removes the entry of another holder.
THEOREM StockListedAlways == Spec => []StockListed
<1>1. LedgerInv => StockListed
  BY DEF LedgerInv
<1>2. QED
  BY <1>1, LedgerInvariant, PTL

\* The cap of bokerAssignGas keeps the payments within the gas pool unless a
\* uint64 operation wraps around.
THEOREM PayoutWithinPoolAlways == Spec => []PayoutWithinPool
<1>1. LedgerInv => PayoutWithinPool
  BY DEF LedgerInv, AssignInv, PayoutWithinPool
<1>2. QED
  BY <1>1, LedgerInvariant, PTL

\* Whatever is sent, and whoever sends it, a stock record changes only by a
\* transaction that the appointed manager signed.
THEOREM StockNeedsManagerAlways == Spec => StockNeedsManager
<1>1. ASSUME [Next]_vars
      PROVE  [single' # single => owner # NoAccount /\ signer' = owner /\ owner' = owner]_vars
  <2> SUFFICES ASSUME Next, single' # single
               PROVE  owner # NoAccount /\ signer' = owner /\ owner' = owner
    BY <1>1
  <2>1. PICK sender \in Accounts, to \in Addresses, value \in Numbers,
             producer \in Addresses :
             StockTransitionDb(sender, to, value, producer) /\ signer' = sender
    BY DEF Next, AddGasPool, SumEntry, SumDone, PayEntry, PayDone, ledger
  <2>2. owner = sender /\ owner' = owner
    BY <2>1 DEF StockTransitionDb, SetStockManager, SetStock, TransferStock, CleanStock,
                FrozenStock, UnFrozenStock, SetState, AssignGas, ledger
  <2>3. QED
    BY <2>1, <2>2, LedgerAssumption
<1>2. QED
  BY <1>1, PTL DEF Spec, StockNeedsManager

=============================================================================
