----------------------------- MODULE NodeVoting -----------------------------
(***************************************************************************)
(* The voting contracts (contracts/deploy/sol): BokerInterface passes      *)
(* registerCandidate, voteCandidate and cancelAllVotes to BokerNode, which *)
(* keeps candidates, voters and the blacklist in BokerNodeData.  Only      *)
(* BokerInterface looks at paused, and only the blacklist belongs to the   *)
(* owner: all other functions of BokerNode and BokerNodeData are external  *)
(* without a check of the caller, so that they are operations of their own *)
(* as well.  A call that fails a require or a SafeMath assertion is undone *)
(* as a whole by the EVM, so it is no step here.  The arrays are modelled  *)
(* without their unused entry 0, so that "index > 0" is membership.        *)
(***************************************************************************)
EXTENDS Integers, SequencesExt, FiniteSetsExt

CONSTANTS
  Candidates, Voters, \* the addresses that may register and vote
  Zero,               \* address(0), which deleteBlacks leaves in the array
  Blackable,          \* the addresses the owner may put on the blacklist
  Tokens,             \* the amounts of a vote and of initial tickets
  MaxUint,            \* the largest uint256
  MaxCalls,           \* bound on the number of successful calls
  MaxDirect           \* bound on those made to BokerNodeData directly

ASSUME VotingAssumption ==
  /\ Tokens \subseteq Nat /\ MaxUint \in Nat
  /\ MaxCalls \in Nat /\ MaxDirect \in Nat
  /\ Zero \notin Candidates \cup Voters

VARIABLES
  candidateArray, \* registered candidates, in order
  tickets,        \* candidates[c].tickets
  voterArray,     \* voters that have ever voted, in order
  deposit,        \* voters[v].deposit
  votes,          \* voters[v].votes[c].tickets
  voted,          \* voters[v].candidateArray
  blackMap,       \* the addresses mapped to true
  blackArray,
  paused,         \* BokerManager.paused
  initial,        \* the tickets each candidate registered with (history)
  calls,          \* successful calls so far (bound)
  direct          \* those to the voting functions of BokerNodeData (history)

candidateVars == <<candidateArray, tickets, initial>>
voterVars == <<voterArray, deposit, votes, voted>>
blackVars == <<blackMap, blackArray>>
vars == <<candidateVars, voterVars, blackVars, paused, calls, direct>>

Init ==
  /\ candidateArray = <<>> /\ tickets = [c \in Candidates |-> 0]
  /\ initial = [c \in Candidates |-> 0]
  /\ voterArray = <<>> /\ deposit = [v \in Voters |-> 0]
  /\ votes = [v \in Voters |-> [c \in Candidates |-> 0]]
  /\ voted = [v \in Voters |-> <<>>]
  /\ blackMap = {} /\ blackArray = <<>>
  /\ paused = FALSE /\ calls = 0 /\ direct = 0

Call == calls < MaxCalls /\ calls' = calls + 1 /\ UNCHANGED direct

\* The contracts through which votes come: BokerNode asks nothing of its
\* caller, BokerInterface asks that the contracts are not paused.
Entries == {"BokerNode", "BokerInterface"}

CallBy(entry) == Call /\ (entry = "BokerInterface" => ~paused)

\* A call of a voting function of BokerNodeData itself.
CallData ==
  /\ calls < MaxCalls /\ calls' = calls + 1
  /\ direct < MaxDirect /\ direct' = direct + 1
  /\ UNCHANGED <<blackVars, paused>>

AddFits_Unchecked(m, n) == TRUE

\* SafeMath.add asserts that the sum did not wrap.
AddFits(m, n) == m + n <= MaxUint

existCandidate(c) == c \in ToSet(candidateArray)

existVoter(v) == v \in ToSet(voterArray)
-----------------------------------------------------------------------------
(* The voting functions of BokerNodeData.                                  *)

\* A second registration succeeds and changes nothing.
addCandidate(c, t) ==
  IF existCandidate(c) THEN UNCHANGED candidateVars
  ELSE /\ candidateArray' = Append(candidateArray, c)
       /\ tickets' = [tickets EXCEPT ![c] = t]
       /\ initial' = [initial EXCEPT ![c] = t]

increaseCandidateTicket(c, t) ==
  /\ existCandidate(c) => AddFits(tickets[c], t)
  /\ tickets' = [tickets EXCEPT ![c] = IF existCandidate(c) THEN @ + t ELSE @]
  /\ UNCHANGED <<candidateArray, initial>>

decreaseCandidateTicket(c, t) ==
  /\ existCandidate(c) => tickets[c] >= t
  /\ tickets' = [tickets EXCEPT ![c] = IF existCandidate(c) THEN @ - t ELSE @]
  /\ UNCHANGED <<candidateArray, initial>>

increaseVoterDeposit(v, t) ==
  /\ AddFits(deposit[v], t)
  /\ voterArray' = IF existVoter(v) THEN voterArray ELSE Append(voterArray, v)
  /\ deposit' = [deposit EXCEPT ![v] = @ + t]

\* _findAddVote: the tickets a vote starts from, whatever was there before; the
\* candidate is appended to the voter's array each time.
FindAddVote(v, c) == 0

increaseVoterVote(v, c, t) ==
  /\ votes' = [votes EXCEPT ![v][c] = FindAddVote(v, c) + t]
  /\ voted' = [voted EXCEPT ![v] = Append(@, c)]

clearVoterVote(v, c) == votes' = [votes EXCEPT ![v][c] = 0]

setVoterDeposit(v, t) == deposit' = [deposit EXCEPT ![v] = t]

\* What a caller of the data contract can do to candidates or to voters; the
\* functions return at once for a voter that does not exist.
DataCandidate ==
  /\ CallData
  /\ \E c \in Candidates, t \in Tokens :
       addCandidate(c, t) \/ increaseCandidateTicket(c, t) \/ decreaseCandidateTicket(c, t)
  /\ UNCHANGED voterVars

DataDeposit(v) ==
  /\ CallData
  /\ \E t \in Tokens :
       \/ increaseVoterDeposit(v, t)
       \/ existVoter(v) /\ setVoterDeposit(v, t) /\ UNCHANGED voterArray
  /\ UNCHANGED <<candidateVars, votes, voted>>

DataVote(v) ==
  /\ CallData /\ existVoter(v)
  /\ \E c \in Candidates, t \in Tokens :
       \/ increaseVoterVote(v, c, t)
       \/ clearVoterVote(v, c) /\ UNCHANGED voted
  /\ UNCHANGED <<candidateVars, voterArray, deposit>>
-----------------------------------------------------------------------------
(* The functions of BokerNode, called directly or through BokerInterface.  *)

registerCandidate(entry, c, t) ==
  /\ CallBy(entry)
  /\ addCandidate(c, t)
  /\ UNCHANGED <<voterVars, blackVars, paused>>

\* vote, of tokens that BokerInterface takes from the value of the call.
vote(entry, v, c, t) ==
  /\ CallBy(entry)
  /\ existCandidate(c) /\ t > 0
  /\ increaseVoterDeposit(v, t)
  /\ increaseVoterVote(v, c, t)
  /\ increaseCandidateTicket(c, t)
  /\ UNCHANGED <<blackVars, paused>>

\* How often the voter's array names the candidate.
Times(v, c) == Cardinality({i \in DOMAIN voted[v] : voted[v][i] = c})

\* _cancelAllVotes takes a vote from a registered candidate once for each
\* entry of the array getVoteInfo returned, which is never shortened.
Withdrawn(v, c) == IF existCandidate(c) THEN Times(v, c) * votes[v][c] ELSE 0

Cleared_KeepsDeposit(v) ==
  /\ votes' = [votes EXCEPT ![v] = [c \in Candidates |-> 0]]
  /\ UNCHANGED deposit

Cleared_KeepsVotes(v) ==
  /\ deposit' = [deposit EXCEPT ![v] = 0]
  /\ UNCHANGED votes

\* clearVoterVote for every entry, and setVoterDeposit to 0.
Cleared(v) ==
  /\ votes' = [votes EXCEPT ![v] = [c \in Candidates |-> 0]]
  /\ setVoterDeposit(v, 0)

\* cancelAllVotes; decreaseCandidateTicket requires that the tickets suffice.
cancelAllVotes(entry, v) ==
  /\ CallBy(entry)
  /\ \A c \in Candidates : Withdrawn(v, c) <= tickets[c]
  /\ tickets' = [c \in Candidates |-> tickets[c] - Withdrawn(v, c)]
  /\ Cleared(v)
  /\ UNCHANGED <<candidateArray, initial, voterArray, voted, blackVars, paused>>
-----------------------------------------------------------------------------
(* The functions of the owner.                                             *)

clearBlacks ==
  /\ Call
  /\ blackMap' = blackMap \ ToSet(blackArray) /\ blackArray' = <<>>
  /\ UNCHANGED <<candidateVars, voterVars, paused>>

insertBlacks(x) ==
  /\ Call
  /\ IF x \in blackMap THEN UNCHANGED blackVars
     ELSE blackMap' = blackMap \cup {x} /\ blackArray' = Append(blackArray, x)
  /\ UNCHANGED <<candidateVars, voterVars, paused>>

\* delete of the map entry, if the array has one for x.
Hole(x) == blackMap \ ({x} \cap ToSet(blackArray))

ZeroEntries_KeptInArray(x) == blackArray

\* delete of the array entries of x, which become address(0).
ZeroEntries(x) == [i \in DOMAIN blackArray |-> IF blackArray[i] = x THEN Zero ELSE blackArray[i]]

deleteBlacks(x) ==
  /\ Call
  /\ blackMap' = Hole(x) /\ blackArray' = ZeroEntries(x)
  /\ UNCHANGED <<candidateVars, voterVars, paused>>

\* BokerManager.pause and unpause.
setPaused ==
  /\ Call
  /\ paused' = ~paused
  /\ UNCHANGED <<candidateVars, voterVars, blackVars>>

Next ==
  \/ \E e \in Entries, c \in Candidates, t \in Tokens : registerCandidate(e, c, t)
  \/ \E e \in Entries, v \in Voters, c \in Candidates, t \in Tokens : vote(e, v, c, t)
  \/ \E e \in Entries, v \in Voters : cancelAllVotes(e, v)
  \/ DataCandidate
  \/ \E v \in Voters : DataDeposit(v) \/ DataVote(v)
  \/ clearBlacks
  \/ \E x \in Blackable : insertBlacks(x)
  \/ \E x \in Blackable : deleteBlacks(x)
  \/ setPaused

Spec == Init /\ [][Next]_vars

-----------------------------------------------------------------------------
\* Type invariant: sums and differences of tickets stay within a uint256, which
\* SafeMath asserts in each call.
TypeOK ==
  /\ candidateArray \in Seq(Candidates) /\ voterArray \in Seq(Voters)
  /\ tickets \in [Candidates -> 0..MaxUint] /\ initial \in [Candidates -> 0..MaxUint]
  /\ deposit \in [Voters -> 0..MaxUint]
  /\ votes \in [Voters -> [Candidates -> 0..MaxUint]]
  /\ voted \in [Voters -> Seq(Candidates)]
  /\ blackMap \subseteq Blackable /\ blackArray \in Seq(Blackable \cup {Zero})
  /\ paused \in BOOLEAN /\ calls \in 0..MaxCalls /\ direct \in 0..MaxDirect

VotedOnce(v) == \A c \in Candidates : Times(v, c) <= 1

VotesOf(v) == MapThenSumSet(LAMBDA c : votes[v][c], Candidates)

\* While BokerNodeData is only written through BokerNode and no voter has voted
\* twice for a candidate (not even with a cancel in between), the tickets of a
\* candidate are those it registered with and the votes the voters have for
\* it: votes and cancels of others never mix, whoever made the calls.
TicketsAreVotes ==
  direct = 0 /\ (\A v \in Voters : VotedOnce(v)) =>
    \A c \in Candidates :
      tickets[c] = initial[c] + MapThenSumSet(LAMBDA v : votes[v][c], Voters)

\* While BokerNodeData is only written through BokerNode, a voter's deposit is
\* never less than the votes recorded for it, also when it votes again for a
\* candidate or after a cancel, and is exactly their sum while it has voted for
\* no candidate twice: vote and cancelAllVotes keep the three records of one
\* voter together.
DepositCoversVotes ==
  direct = 0 => \A v \in Voters :
    /\ VotesOf(v) <= deposit[v]
    /\ VotedOnce(v) => VotesOf(v) = deposit[v]

\* getBlacks.
getBlacks == SelectSeq(blackArray, LAMBDA x : x \in blackMap)

\* getBlacks lists every blacklisted address exactly once, whatever insertions
\* and deletions came before, as long as address(0), which marks deleted
\* entries, is not itself on the list.
BlacksListedOnce ==
  Zero \notin blackMap => /\ ToSet(getBlacks) = blackMap
                          /\ Len(getBlacks) = Cardinality(blackMap)
=============================================================================
