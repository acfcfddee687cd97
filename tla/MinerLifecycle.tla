--------------------------- MODULE MinerLifecycle ---------------------------
(***************************************************************************)
(* Starting and stopping the miner: PrivateMinerAPI.Start and Stop         *)
(* (eth/api.go), StartMining (eth/backend.go), Miner.Start, Stop and       *)
(* update (miner/miner.go), and start, stop, mintLoop and update of the    *)
(* worker (miner/worker.go), one atomic access to shared memory per step.  *)
(*                                                                         *)
(* The threads are the goroutines that run Miner.Start or Miner.Stop for a *)
(* request from the console, and Miner.update, which runs both.  A mint    *)
(* loop waits for its ticker or for the stopper channel it found in the    *)
(* worker when it entered its select statement.  Closing a closed channel  *)
(* is a panic, which ends the program.                                     *)
(***************************************************************************)
EXTENDS Naturals, FiniteSets

CONSTANTS
  Callers,     \* goroutines serving console requests
  Update,      \* the goroutine Miner.update
  LoopIds,     \* identities for mint loops
  Requests,    \* the requests the console makes, among "start" and "stop"
  MaxRequests, \* bound on their number
  Serial       \* does the environment wait until the miner is settled?

ASSUME LifecycleAssumption ==
  /\ Update \notin Callers
  /\ Requests \subseteq {"start", "stop"}
  /\ MaxRequests \in Nat
  /\ Serial \in BOOLEAN

VARIABLES
  pc,          \* pc[t]: the next step of thread t
  loop,        \* loop[l]: the next step of mint loop l, "none" if not running
  on,          \* on[l]: the stopper channel loop l waits on, 0 if none
  mining,      \* Miner.mining
  wmining,     \* worker.mining
  canStart,    \* Miner.canStart
  shouldStart, \* Miner.shouldStart
  loaded,      \* the local shouldStart of Miner.update
  stopper,     \* worker.stopper, channels are numbered as they are made
  closed,      \* stopper channels that have been closed
  quitClosed,  \* is worker.quitCh closed?
  heading,     \* is worker.update between close(quitCh) and its new quitCh?
  panic,       \* the channel whose second close ended the program, or "no"
  wanted,      \* was the last console request a start?
  requests     \* number of console requests so far

flags == <<mining, wmining, canStart, shouldStart, loaded>>
chans == <<stopper, closed, quitClosed, heading>>
loops == <<loop, on>>
vars == <<pc, flags, chans, loops, panic, wanted, requests>>

\* Channel 0 is the nil channel; newWorker makes channel 1.
FirstStopper_Nil == 0

FirstStopper == 1

Threads == Callers \cup {Update}

Init ==
  /\ pc = [t \in Threads |-> "idle"]
  /\ loop = [l \in LoopIds |-> "none"]
  /\ on = [l \in LoopIds |-> 0]
  /\ mining = FALSE /\ wmining = FALSE
  /\ canStart = TRUE /\ shouldStart = FALSE /\ loaded = FALSE
  /\ stopper = FirstStopper /\ closed = {} /\ quitClosed = FALSE /\ heading = FALSE
  /\ panic = "no"
  /\ wanted = FALSE /\ requests = 0

Running == {l \in LoopIds : loop[l] # "none"}

\* No request is being served and every loop waits on an open channel.
Settled ==
  /\ panic = "no"
  /\ \A t \in Threads : pc[t] \in {"idle", "exited"}
  /\ \A l \in Running : loop[l] = "select" /\ on[l] \notin closed

\* Thread t is at the given step of a program that has not panicked.
At(t, label) == panic = "no" /\ pc[t] = label

Goto(t, label) == pc' = [pc EXCEPT ![t] = label]

\* Where thread t goes on after Miner.Start or Miner.Stop returns.
Returns(t, procedure) ==
  Goto(t, IF t # Update THEN "idle"
          ELSE IF procedure = "start" THEN "exited" ELSE "resume")
-----------------------------------------------------------------------------
(* The console: a start request returns at once and leaves a goroutine, a  *)
(* stop request returns when Miner.Stop does.                              *)

ConsoleFree ==
  /\ requests < MaxRequests
  /\ \A c \in Callers :
       pc[c] \notin {"checkWorker", "closeStopper", "clearMining", "clearShould"}
  /\ Serial => Settled

ApiStart_Unchecked(c) ==
  /\ "start" \in Requests /\ ConsoleFree /\ At(c, "idle")
  /\ wanted' = TRUE /\ requests' = requests + 1
  /\ Goto(c, "setShould")
  /\ UNCHANGED <<flags, chans, loops, panic>>

\* Start tests IsMining; StartMining starts the goroutine, or returns an error
\* and starts nothing when the node has no coinbase or no wallet for it, which
\* is no step here.
ApiStart(c) ==
  /\ "start" \in Requests /\ ConsoleFree /\ At(c, "idle")
  /\ wanted' = TRUE /\ requests' = requests + 1
  /\ Goto(c, IF mining THEN "idle" ELSE "setShould")
  /\ UNCHANGED <<flags, chans, loops, panic>>

ApiStop(c) ==
  /\ "stop" \in Requests /\ ConsoleFree /\ At(c, "idle")
  /\ wanted' = FALSE /\ requests' = requests + 1
  /\ Goto(c, "checkWorker")
  /\ UNCHANGED <<flags, chans, loops, panic>>
-----------------------------------------------------------------------------
(* Miner.Start.                                                            *)

SetShould(t) ==
  /\ At(t, "setShould")
  /\ shouldStart' = TRUE
  /\ Goto(t, "checkCanStart")
  /\ UNCHANGED <<mining, wmining, canStart, loaded, chans, loops, panic, wanted, requests>>

CheckCanStart_Ignored(t) ==
  /\ At(t, "checkCanStart")
  /\ Goto(t, "setMining")
  /\ UNCHANGED <<flags, chans, loops, panic, wanted, requests>>

CheckCanStart(t) ==
  /\ At(t, "checkCanStart")
  /\ IF canStart THEN Goto(t, "setMining") ELSE Returns(t, "start")
  /\ UNCHANGED <<flags, chans, loops, panic, wanted, requests>>

SetMining(t) ==
  /\ At(t, "setMining")
  /\ mining' = TRUE
  /\ Goto(t, "startWorker")
  /\ UNCHANGED <<wmining, canStart, shouldStart, loaded, chans, loops, panic, wanted, requests>>

\* worker.start, under worker.mu.
StartWorker(t) ==
  /\ At(t, "startWorker")
  /\ wmining' = TRUE
  /\ \E l \in LoopIds \ Running : loop' = [loop EXCEPT ![l] = "top"]
  /\ Returns(t, "start")
  /\ UNCHANGED <<mining, canStart, shouldStart, loaded, chans, on, panic, wanted, requests>>
-----------------------------------------------------------------------------
(* Miner.Stop.                                                             *)

CheckWorker(t) ==
  /\ At(t, "checkWorker")
  /\ Goto(t, IF wmining THEN "closeStopper" ELSE "clearMining")
  /\ UNCHANGED <<flags, chans, loops, panic, wanted, requests>>

CloseStopper_NotClosed(t) ==
  /\ At(t, "closeStopper")
  /\ wmining' = FALSE
  /\ Goto(t, "clearMining")
  /\ UNCHANGED <<mining, canStart, shouldStart, loaded, chans, loops, panic, wanted, requests>>

\* worker.stop, under worker.mu.
CloseStopper(t) ==
  /\ At(t, "closeStopper")
  /\ wmining' = FALSE
  /\ IF stopper \in closed THEN panic' = "stopper" /\ UNCHANGED closed
     ELSE closed' = closed \cup {stopper} /\ UNCHANGED panic
  /\ Goto(t, "clearMining")
  /\ UNCHANGED <<mining, canStart, shouldStart, loaded, stopper, quitClosed, heading, loops, wanted, requests>>

ClearMining_Forgotten(t) ==
  /\ At(t, "clearMining")
  /\ Goto(t, "clearShould")
  /\ UNCHANGED <<flags, chans, loops, panic, wanted, requests>>

ClearMining(t) ==
  /\ At(t, "clearMining")
  /\ mining' = FALSE
  /\ Goto(t, "clearShould")
  /\ UNCHANGED <<wmining, canStart, shouldStart, loaded, chans, loops, panic, wanted, requests>>

ClearShould(t) ==
  /\ At(t, "clearShould")
  /\ shouldStart' = FALSE
  /\ Returns(t, "stop")
  /\ UNCHANGED <<mining, wmining, canStart, loaded, chans, loops, panic, wanted, requests>>
-----------------------------------------------------------------------------
(* Miner.update: a StartEvent of the downloader, then Done or Failed.      *)

\* The downloader posts an event when Miner.update is ready to take it.
SyncEvent(label) ==
  /\ At(Update, "idle")
  /\ Serial => Settled
  /\ Goto(Update, label)

StartEvent ==
  /\ canStart
  /\ SyncEvent("isMining")
  /\ canStart' = FALSE
  /\ UNCHANGED <<mining, wmining, shouldStart, loaded, chans, loops, panic, wanted, requests>>

IsMining ==
  /\ At(Update, "isMining")
  /\ Goto(Update, IF mining THEN "checkWorker" ELSE "idle")
  /\ UNCHANGED <<flags, chans, loops, panic, wanted, requests>>

Resume_Forgotten ==
  /\ At(Update, "resume")
  /\ Goto(Update, "idle")
  /\ UNCHANGED <<flags, chans, loops, panic, wanted, requests>>

Resume ==
  /\ At(Update, "resume")
  /\ shouldStart' = TRUE
  /\ Goto(Update, "idle")
  /\ UNCHANGED <<mining, wmining, canStart, loaded, chans, loops, panic, wanted, requests>>

DoneEvent ==
  /\ ~canStart
  /\ SyncEvent("allow")
  /\ loaded' = shouldStart
  /\ UNCHANGED <<mining, wmining, canStart, shouldStart, chans, loops, panic, wanted, requests>>

Allow ==
  /\ At(Update, "allow")
  /\ canStart' = TRUE
  /\ Goto(Update, "reset")
  /\ UNCHANGED <<mining, wmining, shouldStart, loaded, chans, loops, panic, wanted, requests>>

Reset ==
  /\ At(Update, "reset")
  /\ shouldStart' = FALSE
  /\ Goto(Update, IF loaded THEN "setShould" ELSE "exited")
  /\ UNCHANGED <<mining, wmining, canStart, loaded, chans, loops, panic, wanted, requests>>
-----------------------------------------------------------------------------
(* The mint loops.                                                         *)

LoopAt(l, label) == panic = "no" /\ loop[l] = label

LoopGoto(l, label) == loop' = [loop EXCEPT ![l] = label]

\* The loop enters its select statement.
LoopSelect(l) ==
  /\ LoopAt(l, "top")
  /\ LoopGoto(l, "select")
  /\ on' = [on EXCEPT ![l] = stopper]
  /\ UNCHANGED <<pc, flags, chans, panic, wanted, requests>>

\* A tick arrives and mintBlock runs.
LoopTick(l) ==
  /\ LoopAt(l, "select")
  /\ LoopGoto(l, "mint")
  /\ on' = [on EXCEPT ![l] = 0]
  /\ UNCHANGED <<pc, flags, chans, panic, wanted, requests>>

LoopMinted(l) ==
  /\ LoopAt(l, "mint")
  /\ LoopGoto(l, "top")
  /\ UNCHANGED <<pc, flags, chans, on, panic, wanted, requests>>

CloseQuit ==
  IF quitClosed THEN panic' = "quit" /\ UNCHANGED quitClosed
  ELSE quitClosed' = TRUE /\ UNCHANGED panic

\* The stopper is closed: the loop closes quitCh, ...
LoopStopped(l) ==
  /\ LoopAt(l, "select") /\ on[l] \in closed
  /\ CloseQuit
  /\ LoopGoto(l, "newQuit")
  /\ on' = [on EXCEPT ![l] = 0]
  /\ UNCHANGED <<pc, flags, stopper, closed, heading, wanted, requests>>

\* ... replaces it, ...
LoopNewQuit(l) ==
  /\ LoopAt(l, "newQuit")
  /\ quitClosed' = FALSE
  /\ LoopGoto(l, "newStopper")
  /\ UNCHANGED <<pc, flags, stopper, closed, heading, on, panic, wanted, requests>>

LoopNewStopper_Reused(l) ==
  /\ LoopAt(l, "newStopper")
  /\ LoopGoto(l, "none")
  /\ UNCHANGED <<pc, flags, chans, on, panic, wanted, requests>>

\* ... replaces the stopper and returns.
LoopNewStopper(l) ==
  /\ LoopAt(l, "newStopper")
  /\ stopper' = stopper + 1
  /\ LoopGoto(l, "none")
  /\ UNCHANGED <<pc, flags, closed, quitClosed, heading, on, panic, wanted, requests>>

\* worker.update on a ChainHeadEvent.
ChainHead ==
  /\ panic = "no" /\ ~heading
  /\ heading' = TRUE
  /\ CloseQuit
  /\ UNCHANGED <<pc, flags, stopper, closed, loops, wanted, requests>>

ChainHeadDone ==
  /\ panic = "no" /\ heading
  /\ heading' = FALSE
  /\ quitClosed' = FALSE
  /\ UNCHANGED <<pc, flags, stopper, closed, loops, panic, wanted, requests>>
-----------------------------------------------------------------------------
ThreadStep(t) ==
  \/ SetShould(t) \/ CheckCanStart(t) \/ SetMining(t) \/ StartWorker(t)
  \/ CheckWorker(t) \/ CloseStopper(t) \/ ClearMining(t) \/ ClearShould(t)

UpdateStep == IsMining \/ Resume \/ Allow \/ Reset

LoopStep(l) ==
  LoopSelect(l) \/ LoopMinted(l) \/ LoopStopped(l) \/ LoopNewQuit(l) \/ LoopNewStopper(l)

Next ==
  \/ \E c \in Callers : ApiStart(c) \/ ApiStop(c)
  \/ \E t \in Threads : ThreadStep(t)
  \/ StartEvent \/ DoneEvent \/ UpdateStep
  \/ \E l \in LoopIds : LoopStep(l) \/ LoopTick(l)
  \/ ChainHead \/ ChainHeadDone

Spec == Init /\ [][Next]_vars

\* The Go scheduler runs every goroutine; a loop that keeps finding both its
\* ticker and a closed stopper ready takes the stopper at some point; a
\* synchronisation ends, with DoneEvent or FailedEvent.
Live ==
  /\ \A t \in Threads : WF_vars(ThreadStep(t))
  /\ WF_vars(UpdateStep)
  /\ WF_vars(DoneEvent)
  /\ WF_vars(ChainHeadDone)
  /\ \A l \in LoopIds :
       /\ WF_vars(LoopSelect(l) \/ LoopMinted(l)
                   \/ LoopNewQuit(l) \/ LoopNewStopper(l))
       /\ SF_vars(LoopStopped(l))

FairSpec == Spec /\ Live
-----------------------------------------------------------------------------
\* Type invariant.
TypeOK ==
  /\ pc \in [Threads ->
       {"idle", "exited", "setShould", "checkCanStart", "setMining", "startWorker",
        "checkWorker", "closeStopper", "clearMining", "clearShould",
        "isMining", "resume", "allow", "reset"}]
  /\ loop \in [LoopIds -> {"none", "top", "select", "mint", "newQuit", "newStopper"}]
  /\ on \in [LoopIds -> 0 .. stopper]
  /\ {mining, wmining, canStart, shouldStart, loaded, quitClosed, heading, wanted}
       \subseteq BOOLEAN
  /\ stopper \in Nat /\ closed \subseteq 1 .. stopper
  /\ panic \in {"no", "stopper", "quit"}
  /\ requests \in 0 .. MaxRequests

\* PrivateMinerAPI.Start: when the miner already runs, a start only adjusts
\* its threads, so there is never a second mint loop.
OneMintLoop == Cardinality(Running) <= 1

\* worker.stop closes each stopper channel once.
StopperClosedOnce == panic # "stopper"

\* Miner.canStart: while the downloader synchronises, the miner, once
\* settled, is not mining.
NoLoopWhileSyncing == Settled /\ ~canStart => Running = {}

\* "Network syncing, will start miner afterwards": a start request is
\* honoured at once or when the synchronisation has ended.
StartHonoured == Settled /\ canStart /\ wanted => Running # {}

\* PrivateMinerAPI.Stop: when the last request was a stop, no loop is left.
StopHonoured == Settled /\ ~wanted => Running = {}

\* A request to start leads to a running mint loop, or to a later stop, even
\* when a synchronisation begins and ends in between.
StartEventuallyMines ==
  wanted ~> (Running # {} \/ ~wanted \/ panic # "no")

\* A stop request makes every mint loop end, however busy its ticker is.
StopEventuallyStops ==
  ~wanted ~> (Running = {} \/ wanted \/ panic # "no")
=============================================================================
