----------------------------- MODULE ChainStore -----------------------------
(***************************************************************************)
(* The block store of BlockChain (core/blockchain.go, core/headerchain.go):*)
(* WriteBlockAndState with reorg and insert, SetHead, and loadLastState    *)
(* after a restart.  The database writes of WriteBlockAndState, of SetHead *)
(* and of the Reset of a restart are separate steps, and the node may      *)
(* crash between any two of them.  Both operations hold bc.mu, so that no  *)
(* other one comes in between.                                             *)
(*                                                                         *)
(* A block has difficulty 1, so that its number stands for its total       *)
(* difficulty.  The block, its state and its receipts are written by one   *)
(* database batch; the transaction lookup entries are left out.  A rewind  *)
(* deletes body, header and difficulty one after the other; it keeps state *)
(* and receipts.                                                           *)
(***************************************************************************)
EXTENDS Naturals, FiniteSets

CONSTANTS
  Blocks, Genesis, \* the blocks that may be offered, and block 0
  Parent, Number,  \* the parent and the number of each block
  None,            \* no block
  MaxCrashes,      \* bound on the number of crashes
  MaxSetHeads      \* bound on the number of calls of SetHead

ASSUME TreeAssumption ==
  /\ Genesis \in Blocks /\ None \notin Blocks
  /\ Parent \in [Blocks -> Blocks] /\ Number \in [Blocks -> Nat]
  /\ Number[Genesis] = 0
  /\ \A b \in Blocks \ {Genesis} : Number[b] = Number[Parent[b]] + 1
  /\ MaxCrashes \in Nat /\ MaxSetHeads \in Nat

VARIABLES
  tds,        \* database: blocks with a total difficulty
  headers,    \* database: blocks with a header
  bodies,     \* database: blocks stored with their state
  canon,      \* database: the canonical hash of each number
  headBlock, headHeader, headFast, \* database: the head pointers
  curBlock, curHeader, curFast,    \* memory: the same in BlockChain
  up,         \* is the node running?
  pc,         \* the next step of WriteBlockAndState or SetHead
  new,        \* the block being written
  old,        \* the head when its writing began
  canonical,  \* will it become the head?
  todo,       \* blocks still to be inserted
  ins, upd,   \* the block of the current insert, its local updateHeads
  target,     \* the argument of SetHead
  level,      \* the number whose canonical hash it deletes next
  crashes, setHeads

db == <<tds, headers, bodies, canon, headBlock, headHeader, headFast>>
memory == <<curBlock, curHeader, curFast>>
write == <<new, old, canonical, todo, ins, upd>>
rewind == <<target, level>>
bounds == <<crashes, setHeads>>
vars == <<db, memory, up, pc, write, rewind, bounds>>

Numbers == {Number[b] : b \in Blocks}

\* A block and its ancestors.
Branch[b \in Blocks] == IF b = Genesis THEN {b} ELSE {b} \cup Branch[Parent[b]]

Init ==
  /\ tds = {Genesis} /\ headers = {Genesis} /\ bodies = {Genesis}
  /\ canon = [n \in Numbers |-> IF n = 0 THEN Genesis ELSE None]
  /\ headBlock = Genesis /\ headHeader = Genesis /\ headFast = None
  /\ curBlock = Genesis /\ curHeader = Genesis /\ curFast = Genesis
  /\ up = TRUE /\ pc = "idle"
  /\ new = None /\ old = None /\ canonical = FALSE
  /\ todo = {} /\ ins = None /\ upd = FALSE
  /\ target = 0 /\ level = 0
  /\ crashes = 0 /\ setHeads = 0

At(label) == up /\ pc = label
-----------------------------------------------------------------------------
(* WriteBlockAndState.  A caller offers a block it does not have whose     *)
(* parent it has.                                                          *)

WriteTd(b) ==
  /\ At("idle")
  /\ b \notin bodies /\ Parent[b] \in bodies
  /\ Parent[b] \in tds
  /\ tds' = tds \cup {b}
  /\ new' = b /\ old' = curBlock
  /\ pc' = "decide"
  /\ UNCHANGED <<headers, bodies, canon, headBlock, headHeader, headFast, memory,
                 up, canonical, todo, ins, upd, rewind, bounds>>

NewChain_KeepsLowest ==
  {b \in Branch[new] \ Branch[curBlock] : Number[b] > 1}

\* reorg: the blocks of the new chain above the common ancestor; it fails
\* when one of the two chains cannot be followed down to that ancestor.
NewChain == Branch[new] \ Branch[curBlock]

ReorgPossible ==
  LET fork == (Branch[new] \cup Branch[curBlock])
                \ (Branch[new] \cap Branch[curBlock])
  IN  {Parent[b] : b \in fork} \subseteq bodies

Wins_Always == {TRUE}

\* The values of the local variable reorg: ties are decided at random.
Wins ==
  IF Number[new] = Number[curBlock] THEN BOOLEAN
  ELSE {Number[new] > Number[curBlock]}

Decide ==
  /\ At("decide")
  /\ \E reorg \in Wins :
       \/ /\ reorg => Parent[new] = curBlock
          /\ canonical' = reorg /\ todo' = {} /\ pc' = "batch"
       \/ /\ reorg /\ Parent[new] # curBlock /\ ReorgPossible
          /\ canonical' = TRUE /\ todo' = NewChain /\ pc' = "insert"
       \/ /\ reorg /\ Parent[new] # curBlock /\ ~ReorgPossible
          /\ pc' = "idle"
          /\ UNCHANGED <<canonical, todo>>
  /\ UNCHANGED <<db, memory, up, new, old, ins, upd, rewind, bounds>>

BatchWrite ==
  /\ At("batch")
  /\ headers' = headers \cup {new} /\ bodies' = bodies \cup {new}
  /\ IF canonical THEN todo' = {new} /\ pc' = "insert"
     ELSE todo' = {} /\ pc' = "idle"
  /\ UNCHANGED <<tds, canon, headBlock, headHeader, headFast, memory, up,
                 new, old, canonical, ins, upd, rewind, bounds>>

UpdateHeads_OnlyNew(b) == canon[Number[b]] = None

\* insert moves the head header and the head fast block as well when the
\* block was not canonical.
UpdateHeads(b) == canon[Number[b]] # b

\* insert, of the highest block of newChain first, or of the new head.
InsertCanonical ==
  /\ At("insert")
  /\ \E b \in todo :
       /\ \A c \in todo : Number[c] <= Number[b]
       /\ ins' = b /\ todo' = todo \ {b}
       /\ upd' = UpdateHeads(b)
       /\ canon' = [canon EXCEPT ![Number[b]] = b]
  /\ pc' = "head"
  /\ UNCHANGED <<tds, headers, bodies, headBlock, headHeader, headFast, memory,
                 up, new, old, canonical, rewind, bounds>>

AfterInsert_SkipsBatch ==
  IF new \in bodies \/ todo = {} THEN "idle" ELSE "insert"

\* Where WriteBlockAndState goes on after an insert.
AfterInsert ==
  IF new \in bodies THEN "idle" ELSE IF todo = {} THEN "batch" ELSE "insert"

InsertHead ==
  /\ At("head")
  /\ headBlock' = ins /\ curBlock' = ins
  /\ pc' = IF upd THEN "header" ELSE AfterInsert
  /\ UNCHANGED <<tds, headers, bodies, canon, headHeader, headFast, curHeader, curFast,
                 up, write, rewind, bounds>>

InsertHeader ==
  /\ At("header")
  /\ headHeader' = ins /\ curHeader' = ins
  /\ pc' = "fast"
  /\ UNCHANGED <<tds, headers, bodies, canon, headBlock, headFast, curBlock, curFast,
                 up, write, rewind, bounds>>

InsertFast ==
  /\ At("fast")
  /\ headFast' = ins /\ curFast' = ins
  /\ pc' = AfterInsert
  /\ UNCHANGED <<tds, headers, bodies, canon, headBlock, headHeader, curBlock, curHeader,
                 up, write, rewind, bounds>>
-----------------------------------------------------------------------------
(* SetHead.  hc.SetHead goes down from the current header, deleting body,  *)
(* header and difficulty of each block above the target, then deletes the  *)
(* canonical hashes and stores the header it arrived at; BlockChain.SetHead*)
(* lets the other heads follow.  DeleteHeader also deletes the number      *)
(* stored under the hash: a header without it is not found by its hash.    *)

Rewinding ==
  {"rewind", "deleteHeader", "deleteTd", "rewindBlock", "rewindFast", "reload"}

SetHead(n) ==
  /\ At("idle") /\ setHeads < MaxSetHeads
  /\ target' = n /\ level' = Number[curHeader]
  /\ pc' = "rewind"
  /\ setHeads' = setHeads + 1
  /\ UNCHANGED <<db, memory, up, write, crashes>>

AboveTarget == curHeader # None /\ Number[curHeader] > target

DeleteBody ==
  /\ At("rewind") /\ AboveTarget
  /\ bodies' = bodies \ {curHeader}
  /\ pc' = "deleteHeader"
  /\ UNCHANGED <<tds, headers, canon, headBlock, headHeader, headFast, memory, up,
                 write, rewind, bounds>>

DeleteHeader ==
  /\ At("deleteHeader")
  /\ headers' = headers \ {curHeader}
  /\ pc' = "deleteTd"
  /\ UNCHANGED <<tds, bodies, canon, headBlock, headHeader, headFast, memory, up,
                 write, rewind, bounds>>

DeleteTd ==
  /\ At("deleteTd")
  /\ tds' = tds \ {curHeader}
  /\ curHeader' = IF Parent[curHeader] \in headers THEN Parent[curHeader] ELSE None
  /\ pc' = "rewind"
  /\ UNCHANGED <<headers, bodies, canon, headBlock, headHeader, headFast, curBlock,
                 curFast, up, write, rewind, bounds>>

DeleteCanonicalHash ==
  /\ At("rewind") /\ ~AboveTarget /\ level > target
  /\ canon' = [canon EXCEPT ![level] = None]
  /\ level' = level - 1
  /\ UNCHANGED <<tds, headers, bodies, headBlock, headHeader, headFast, memory, up,
                 pc, write, target, bounds>>

RewindHeader ==
  /\ At("rewind") /\ ~AboveTarget /\ level <= target
  /\ curHeader' = IF curHeader = None THEN Genesis ELSE curHeader
  /\ headHeader' = curHeader'
  /\ pc' = "rewindBlock"
  /\ UNCHANGED <<tds, headers, bodies, canon, headBlock, headFast, curBlock, curFast,
                 up, write, rewind, bounds>>

\* The block b moved down to the current header, when it is above it; block 0
\* when there is none or the header has no body.
Followed(b) ==
  IF b # None /\ Number[curHeader] >= Number[b] THEN b
  ELSE IF b # None /\ curHeader \in bodies THEN curHeader
  ELSE Genesis

RewindBlock ==
  /\ At("rewindBlock")
  /\ curBlock' = Followed(curBlock) /\ curFast' = Followed(curFast)
  /\ headBlock' = curBlock'
  /\ pc' = "rewindFast"
  /\ UNCHANGED <<tds, headers, bodies, canon, headHeader, headFast, curHeader, up,
                 write, rewind, bounds>>

RewindFast ==
  /\ At("rewindFast")
  /\ headFast' = curFast
  /\ pc' = "reload"
  /\ UNCHANGED <<tds, headers, bodies, canon, headBlock, headHeader, memory, up,
                 write, rewind, bounds>>
-----------------------------------------------------------------------------
(* loadLastState.                                                          *)

LoadLastState_FastUnchecked ==
  LET header == IF headHeader \in headers THEN headHeader ELSE headBlock
  IN  /\ curBlock' = headBlock /\ curHeader' = header /\ headHeader' = header
      /\ curFast' = headFast

\* The heads of the memory after loadLastState, when the head block exists.
LoadLastState ==
  LET header == IF headHeader \in headers THEN headHeader ELSE headBlock
      fast == IF headFast \in bodies THEN headFast ELSE headBlock
  IN  /\ curBlock' = headBlock /\ curHeader' = header /\ headHeader' = header
      /\ curFast' = fast

\* The end of SetHead, which would wait for bc.mu forever if the head block
\* were missing.  After a Reset, ResetWithGenesisBlock then writes block
\* 0 and its difficulty again and makes it the head, which it already is.
Reload ==
  /\ At("reload")
  /\ headBlock \in bodies
  /\ LoadLastState
  /\ pc' = "idle" /\ target' = 0 /\ level' = 0
  /\ UNCHANGED <<tds, headers, bodies, canon, headBlock, headFast, up, write, bounds>>

Crash ==
  /\ up /\ crashes < MaxCrashes
  /\ up' = FALSE /\ crashes' = crashes + 1
  /\ UNCHANGED <<db, memory, pc, write, rewind, setHeads>>

Intact_Unchecked == TRUE

\* Is the entire head block available?
Intact == headBlock \in bodies

\* NewBlockChain: loadLastState or, when the head block is missing, Reset,
\* which begins with SetHead(0) from the header of the head block, if that is
\* still there, with no current block in memory yet.
Restart ==
  /\ ~up
  /\ up' = TRUE
  /\ new' = None /\ old' = None /\ canonical' = FALSE
  /\ todo' = {} /\ ins' = None /\ upd' = FALSE
  /\ target' = 0
  /\ \/ /\ Intact
        /\ LoadLastState
        /\ pc' = "idle" /\ level' = 0
     \/ /\ ~Intact
        /\ curHeader' = IF headBlock \in headers THEN headBlock ELSE Genesis
        /\ curBlock' = None /\ curFast' = None
        /\ pc' = "rewind" /\ level' = Number[curHeader']
        /\ UNCHANGED headHeader
  /\ UNCHANGED <<tds, headers, bodies, canon, headBlock, headFast, bounds>>

Next ==
  \/ \E b \in Blocks \ {Genesis} : WriteTd(b)
  \/ Decide \/ BatchWrite
  \/ InsertCanonical \/ InsertHead \/ InsertHeader \/ InsertFast
  \/ \E n \in Numbers : SetHead(n)
  \/ DeleteBody \/ DeleteHeader \/ DeleteTd \/ DeleteCanonicalHash
  \/ RewindHeader \/ RewindBlock \/ RewindFast \/ Reload
  \/ Crash \/ Restart

Spec == Init /\ [][Next]_vars
-----------------------------------------------------------------------------
\* Type invariant.
TypeOK ==
  /\ tds \subseteq Blocks /\ headers \subseteq Blocks /\ bodies \subseteq headers
  /\ canon \in [Numbers -> Blocks \cup {None}]
  /\ {headBlock, headHeader, headFast, new, old, ins} \subseteq Blocks \cup {None}
  /\ {curBlock, curHeader, curFast} \subseteq
       IF up /\ pc \notin Rewinding THEN Blocks ELSE Blocks \cup {None}
  /\ {up, canonical, upd} \subseteq BOOLEAN
  /\ pc \in {"idle", "decide", "batch", "insert", "head", "header", "fast"} \cup Rewinding
  /\ todo \subseteq Blocks
  /\ target \in Numbers /\ level \in Numbers
  /\ crashes \in 0 .. MaxCrashes /\ setHeads \in 0 .. MaxSetHeads

Idle == At("idle")

\* Between two operations the current block is the stored head, it is in the
\* database and has a total difficulty, also after crashes at any write of
\* a block, of a rewind or of the recovery itself: otherwise the next
\* WriteBlockAndState would compare with a nil difficulty.  At the end of a
\* rewind the head it has written exists: otherwise loadLastState would call
\* Reset with bc.mu held and lock it a second time.
HeadStored ==
  /\ Idle => /\ headBlock = curBlock
             /\ curBlock \in bodies \cap tds
             /\ curHeader \in headers /\ curFast \in bodies
  /\ At("reload") => headBlock \in bodies

\* Without a crash, the canonical hashes up to the head are the head's
\* ancestors after every reorg, although reorg inserts the newest block first
\* and insert moves the head with each of them.
CanonicalIsBranch ==
  Idle /\ crashes = 0 =>
    \A b \in Branch[curBlock] : canon[Number[b]] = b

\* Without a crash, the head header is never on a side chain of the head.
HeaderOnBranch ==
  Idle /\ crashes = 0 => curHeader \in Branch[curBlock]

\* insert: the head header and the head fast block are reset to the new head
\* block if they are older or on a different side chain.
HeaderFollowsHead ==
  Idle /\ crashes = 0 => curHeader = curBlock /\ curFast = curBlock

\* Without a crash or a rewind, no stored block is higher than the head.
HeadIsHighest ==
  Idle /\ crashes = 0 /\ setHeads = 0 =>
    \A b \in bodies : Number[b] <= Number[curBlock]

\* The highest ancestor of b that is stored.
Stored(b) ==
  CHOOSE c \in Branch[b] \cap bodies :
    \A d \in Branch[b] \cap bodies : Number[d] <= Number[c]

\* The head other components may rely on: the old one until the batch is
\* written, then the new one; during a rewind what is left of the branch of
\* the head, and block 0 while a restarted node resets the chain.
VisibleHead ==
  CASE curBlock = None -> Genesis
    [] curBlock # None /\ pc \in Rewinding -> Stored(curBlock)
    [] curBlock # None /\ pc = "idle" -> curBlock
    [] OTHER -> IF new \in bodies THEN new ELSE old

Mode == IF ~up THEN "down" ELSE IF pc \in Rewinding THEN "rewind" ELSE "up"

FC == INSTANCE ForkChoice WITH known <- bodies, head <- VisibleHead, mode <- Mode

\* The store implements the fork choice, with all the intermediate writes of
\* WriteBlockAndState and SetHead, crashes, restarts and resets.
Refinement == FC!Spec
=============================================================================
