------------------------------ MODULE Replica -------------------------------
(***************************************************************************)
(* One replica as a whole: its PBFTOrderProtocol, which owns the consensus *)
(* (module Consensus) and the synchronizer (module Synchronizer) and, by   *)
(* the ConsensusPhase it is in, decides which of the two is polled and is  *)
(* given the messages; and the driver outside this repository that polls   *)
(* it, suspends it to run a state transfer, and resumes it.                *)
(*                                                                         *)
(* The other members send what their channels hold, in that order.  A SYNC *)
(* also has the field forged: the instance its PRE-PREPARE is for.         *)
(***************************************************************************)
EXTENDS Consensus

S == INSTANCE Synchronizer

CONSTANTS
  Start,           \* [view, chan, upto, suspensions]: a view to start in, what the others
                   \* send, the last instance they vote for, and how often the protocol
                   \* may be suspended
  TimeoutIn,       \* views in which requests time out
  InstallViews     \* views a state transfer may install

VARIABLES
  sync,            \* the Synchronizer
  mode,            \* the ConsensusPhase: "Normal" or "Sync"
  executing,       \* is the ordering protocol being run?
  suspensions,     \* times it may still be suspended
  chan,            \* messages on the way from each of the other members
  upto,            \* the last instance the others vote for
  forged,          \* the PRE-PREPARE of a view change that waits for a state transfer
  behind           \* history: we led a view and forged it for an instance that was already
                   \* decided, or have missed a view change that the others completed

replicaVars == <<sync, mode, executing, suspensions, chan, upto, forged, behind>>

allVars == <<vars, replicaVars>>

NoMessage == [kind |-> "None"]

ViewOf(v) == S!NewViewInfo(v, Len(Members))

ASSUME ReplicaAssumption ==
  /\ Members = [i \in DOMAIN Members |-> i - 1] /\ Self \in 0..(Len(Members) - 1)
  /\ Quorum = S!QuorumSize(ViewOf(0))
  /\ TimeoutIn \subseteq Nat /\ InstallViews \subseteq Nat
  /\ \A start \in Start : start.view \in Nat /\ start.suspensions \in Nat
  /\ \A start \in Start : \A p \in DOMAIN start.chan :
       LET messages == {start.chan[p][i] : i \in DOMAIN start.chan[p]}
       IN  /\ start.chan[p] \in Seq(messages)
           /\ \A m \in messages : m.kind \in Kinds => m.seq \in Nat

\* A replica that has executed instance 0, in a view it has just started.
ReplicaInit ==
  /\ lastExec = 0 /\ executed = << >> /\ granted = {} /\ net = {}
  /\ installs = 0 /\ offContext = 0
  /\ mode = "Normal" /\ executing = TRUE
  /\ forged = NoMessage /\ behind = FALSE
  /\ \E start \in Start :
       /\ chan = start.chan /\ upto = start.upto /\ suspensions = start.suspensions
       /\ sync = S!InitSync(ViewOf(start.view))
       /\ consensus = [seqNo     |-> 1,
                       view      |-> View(start.view),
                       decisions |-> [i \in 1..Watermark |->
                                        InitDecision(i, View(start.view), EmptyQueue)],
                       signalled |-> 1..Watermark,
                       tbo       |-> EmptyTbo(1),
                       viewQueue |-> << >>,
                       guard     |-> UnlockConsensus(InitGuard(View(start.view)))]

-----------------------------------------------------------------------------
(***************************************************************************)
(* What a step of the synchronizer does to the rest of the replica: res is *)
(* its result, m the PRE-PREPARE to go on with in the new view.            *)
(***************************************************************************)
ToSelf(messages) == {m \in messages : m.to = Self}

\* switch_phase(): leaving the normal phase locks the proposer out.
Locked(c, newMode) ==
  IF mode = "Normal" /\ newMode = "Sync" THEN [c EXCEPT !.guard = LockConsensus(@)] ELSE c

\* The view change is over: the missing decision is executed from its proof and
\* the consensus starts the new view with the PRE-PREPARE of the SYNC.
NewView(res, m, rest) ==
  LET caughtUp == res.last # lastExec
      view     == View(res.sync.view.seq)
      c        == IF caughtUp THEN NextInstances(consensus, 1, view) ELSE consensus
  IN  /\ res.status = "NewView"
      /\ mode' = "Normal"
      /\ consensus' = FinalizeViewChange(c, view, m)
      /\ executed' = IF caughtUp THEN Append(executed, res.last) ELSE executed
      /\ lastExec' = res.last
      /\ net' = rest \cup ToSelf(res.sends) \cup FinalizeViewChangeVotes(c, view, m)
      /\ behind' = (behind \/ (Self \in view.leaders /\ m.seq < c.seqNo))
      /\ forged' = NoMessage
      /\ UNCHANGED executing

\* More than a decision is missing: the driver suspends the protocol and runs a
\* state transfer.
RunCst(res, m, rest) ==
  /\ res.status = "RunCst"
  /\ mode' = "Sync"
  /\ consensus' = Locked(consensus, "Sync")
  /\ forged' = m
  /\ executing' = FALSE
  /\ net' = rest \cup ToSelf(res.sends)
  /\ UNCHANGED <<executed, lastExec, behind>>

Proceed(res, rest) ==
  LET newMode == IF res.status = "Running" THEN "Sync" ELSE mode
  IN  /\ res.status \in {"Nil", "Running"}
      /\ mode' = newMode
      /\ consensus' = Locked(consensus, newMode)
      /\ net' = rest \cup ToSelf(res.sends)
      /\ UNCHANGED <<executed, lastExec, forged, behind, executing>>

AdvSync(s, m, rest) ==
  LET res    == S!ProcessMessage(Self, s, lastExec, m, TRUE, FALSE)
      propose(b) == IF m.kind = "Sync" THEN PrePrepare(m.view, m.forged, b)
                                       ELSE PrePrepare(s.next.seq, consensus.seqNo, b)
  IN  /\ sync' = S!SignalQueues(res.sync)
      /\ \/ \E b \in Batch : NewView(res, propose(b), rest) \/ RunCst(res, propose(b), rest)
         \/ Proceed(res, rest)

-----------------------------------------------------------------------------
(***************************************************************************)
(* poll() and process_message(), by the phase.                             *)
(***************************************************************************)
\* In the normal phase STOPs come before everything else.
PollsSync ==
  /\ executing /\ sync.signalled
  /\ mode = "Normal" => S!CanProcess(sync, "stop")

RunsConsensus == executing /\ mode = "Normal" /\ ~ S!CanProcess(sync, "stop")

PollConsensus ==
  /\ RunsConsensus
  /\ (\E s \in consensus.signalled : Poll(s)) \/ PollDecided
  /\ UNCHANGED replicaVars

PollSyncMessage ==
  /\ PollsSync /\ sync.phase # "SyncingState"
  /\ S!CanProcess(sync, S!PolledQueue(sync))
  /\ AdvSync(S!AfterPoll(sync), S!PolledMessage(sync), net)
  /\ UNCHANGED <<granted, installs, offContext, suspensions, chan, upto>>

PollSyncNothing ==
  /\ PollsSync /\ sync.phase # "SyncingState"
  /\ ~ S!CanProcess(sync, S!PolledQueue(sync))
  /\ sync' = [sync EXCEPT !.signalled = FALSE]
  /\ UNCHANGED <<vars, mode, executing, suspensions, chan, upto, forged, behind>>

PollResume ==
  LET res == S!ResumeViewChange(sync, lastExec)
  IN  /\ PollsSync /\ sync.phase = "SyncingState"
      /\ sync' = res.sync
      /\ NewView(res, forged, net)
      /\ UNCHANGED <<granted, installs, offContext, suspensions, chan, upto>>

IsConsensus(m) == m.kind \in Kinds

\* update_normal_phase(), once poll() has nothing left to do.  That a view change
\* ends here is unreachable!() in the code: see PhasesAgree of module ViewChange.
UpdateNormalPhase(m, rest) ==
  /\ RunsConsensus /\ consensus.signalled = {} /\ ~ CanFinalize(consensus)
  /\ \/ /\ IsConsensus(m)
        /\ AdvConsensus(consensus, m, rest)
        /\ UNCHANGED <<sync, mode, executing, forged, behind>>
     \/ ~ IsConsensus(m) /\ AdvSync(sync, m, rest)

\* update_sync_phase(): messages of the consensus are only queued.
UpdateSyncPhase(m, rest) ==
  /\ executing /\ mode = "Sync" /\ ~ sync.signalled
  /\ \/ /\ IsConsensus(m)
        /\ consensus' = Queue(consensus, m)
        /\ net' = rest
        /\ UNCHANGED <<lastExec, executed, sync, mode, executing, forged, behind>>
     \/ ~ IsConsensus(m) /\ AdvSync(sync, m, rest)

\* handle_off_ctx_message().
HandleOffContext(m, rest) ==
  /\ ~ executing
  /\ IF IsConsensus(m)
       THEN consensus' = Queue(consensus, m) /\ UNCHANGED sync
       ELSE sync' = S!SignalQueues(S!SyncQueue(sync, m)) /\ UNCHANGED consensus
  /\ net' = rest
  /\ UNCHANGED <<lastExec, executed, mode, executing, forged, behind>>

Handle(m, rest) ==
  /\ UpdateNormalPhase(m, rest) \/ UpdateSyncPhase(m, rest) \/ HandleOffContext(m, rest)
  /\ UNCHANGED <<granted, installs, offContext, suspensions, upto>>

ReceiveOwn ==
  \E m \in net : Handle(m, net \ {m}) /\ UNCHANGED chan

ReceiveFrom(p) ==
  /\ chan[p] # << >>
  /\ chan' = [chan EXCEPT ![p] = Tail(@)]
  /\ Handle(Head(chan[p]), net)

-----------------------------------------------------------------------------
(***************************************************************************)
(* The proposer, the timeouts and the driver.                              *)
(***************************************************************************)
ProposeNext ==
  /\ consensus.guard.canPropose
  /\ \E s \in consensus.guard.seqs : Propose(s)
  /\ UNCHANGED replicaVars

\* handle_timeout(), with requests that have timed out twice.
Timeout ==
  LET res == S!BeginViewChange(Self, sync, lastExec)
  IN  /\ executing /\ sync.view.seq \in TimeoutIn
      /\ sync' = res.sync
      /\ mode' = "Sync"
      /\ consensus' = Locked(consensus, "Sync")
      /\ net' = net \cup ToSelf(res.sends)
      /\ behind' = (behind \/ sync.phase = "SyncingState")
      /\ UNCHANGED <<lastExec, executed, granted, installs, offContext, executing, suspensions,
                     chan, upto, forged>>

\* handle_execution_changed(false).
Suspend ==
  /\ executing /\ suspensions > 0
  /\ suspensions' = suspensions - 1
  /\ executing' = FALSE
  /\ consensus' = [consensus EXCEPT !.guard = LockConsensus(@)]
  /\ UNCHANGED <<lastExec, executed, granted, net, installs, offContext, sync, mode, chan, upto,
                 forged, behind>>

\* Mutant of Resume: the end of the state transfer always lets the proposer go on.
ResumeUnlocking ==
  /\ ~ executing
  /\ sync.phase = "SyncingState" => consensus.seqNo > sync.finalizing.proof
  /\ executing' = TRUE
  /\ consensus' = [consensus EXCEPT !.guard = UnlockConsensus(@)]
  /\ UNCHANGED <<lastExec, executed, granted, net, installs, offContext, sync, mode, suspensions,
                 chan, upto, forged, behind>>

\* handle_execution_changed(true); the state that a view change has asked for has
\* been transferred.
Resume ==
  /\ ~ executing
  /\ sync.phase = "SyncingState" => consensus.seqNo > sync.finalizing.proof
  /\ executing' = TRUE
  /\ consensus' = IF mode = "Normal" THEN [consensus EXCEPT !.guard = UnlockConsensus(@)]
                                     ELSE consensus
  /\ UNCHANGED <<lastExec, executed, granted, net, installs, offContext, sync, mode, suspensions,
                 chan, upto, forged, behind>>

\* install_seq_no(), of the state a view change has asked for.
InstallState(seq) ==
  /\ ~ executing /\ sync.phase = "SyncingState" /\ seq > consensus.seqNo
  /\ StateInstalled(seq)
  /\ UNCHANGED replicaVars

\* Mutant of InstallNewView: the consensus is not told of the view.
InstallNewViewInSync(v) ==
  LET runs == S!RunsAfterReceiving(Self, sync, ViewOf(v))
      newMode == IF runs THEN "Sync" ELSE mode
  IN  /\ ~ executing /\ sync.phase = "Init" /\ v = sync.view.seq + 1
      /\ installs' = installs + 1
      /\ sync' = S!ReceiveView(Self, sync, ViewOf(v))
      /\ mode' = newMode
      /\ consensus' = Locked(consensus, newMode)
      /\ behind' = TRUE
      /\ UNCHANGED <<lastExec, executed, granted, net, offContext, executing, suspensions, chan,
                     upto, forged>>

\* install_view().
InstallNewView(v) ==
  LET runs == S!RunsAfterReceiving(Self, sync, ViewOf(v))
      newMode == IF runs THEN "Sync" ELSE mode
  IN  /\ ~ executing /\ sync.phase = "Init" /\ v = sync.view.seq + 1
      /\ installs' = installs + 1
      /\ sync' = S!ReceiveView(Self, sync, ViewOf(v))
      /\ mode' = newMode
      /\ consensus' = Locked(InstallView(consensus, View(v)), newMode)
      /\ behind' = TRUE
      /\ UNCHANGED <<lastExec, executed, granted, net, offContext, executing, suspensions, chan,
                     upto, forged>>

RunReplica ==
  \/ PollConsensus \/ PollSyncMessage \/ PollSyncNothing \/ PollResume
  \/ ReceiveOwn
  \/ \E p \in DOMAIN chan : ReceiveFrom(p)

Transfer == Resume \/ \E seq \in InstallSeq : InstallState(seq)

ReplicaNext ==
  \/ RunReplica
  \/ ProposeNext
  \/ Timeout
  \/ Suspend
  \/ Transfer
  \/ \E v \in InstallViews : InstallNewView(v)

ReplicaSpec == ReplicaInit /\ [][ReplicaNext]_allVars

\* The replica does not stop: whatever may happen beside it, it goes on while it
\* has a message, a signal, a number to propose to or a state to install.
Step == RunReplica \/ ProposeNext \/ Transfer

\* ENABLED Step, written out.
CanStep ==
  \/ PollsSync
  \/ RunsConsensus /\ (consensus.signalled # {} \/ CanFinalize(consensus))
  \/ /\ ~ executing \/ RunsConsensus \/ mode = "Sync"
     /\ net # {} \/ \E p \in DOMAIN chan : chan[p] # << >>
  \/ /\ consensus.guard.canPropose
     /\ \E s \in consensus.guard.seqs : IsNextSeqNo(consensus.guard, s) /\ s <= MaxSeq
  \/ /\ ~ executing
     /\ \/ sync.phase = "SyncingState" => consensus.seqNo > sync.finalizing.proof
        \/ installs < MaxInstalls /\ \E seq \in InstallSeq : seq > consensus.seqNo

\* Weak fairness of Step.
ReplicaFairSpec == ReplicaSpec /\ ([]<>(~ CanStep) \/ []<><<Step>>_allVars)
-----------------------------------------------------------------------------
(***************************************************************************)
(* The proposer may propose exactly while the protocol runs and orders:    *)
(* it is locked out for the whole of a view change and of a state          *)
(* transfer, and, whichever of them ends last and in whatever way, never   *)
(* left locked out after them.                                             *)
(***************************************************************************)
ProposesWhileOrdering == consensus.guard.canPropose <=> executing /\ mode = "Normal"

(***************************************************************************)
(* The consensus, the synchronizer and the guard are in the same view, or  *)
(* the protocol is in its sync phase and the synchronizer has still to     *)
(* finish the change to the view a state transfer has given to the other   *)
(* two, which is the next one.                                             *)
(***************************************************************************)
ViewsTogether ==
  /\ consensus.guard.view = consensus.view
  /\ \/ consensus.view.seq = sync.view.seq
     \/ mode = "Sync" /\ consensus.view.seq = sync.view.seq + 1

(***************************************************************************)
(* Progress across a view change, and across the state transfer it may ask *)
(* for: when every message arrives, every instance is executed, also those *)
(* whose messages came before the view or the window had reached them.     *)
(* Left out are a replica that led the new view and was behind the others  *)
(* when it forged the first PRE-PREPARE, one whose view was put in place   *)
(* by a state transfer, and one whose requests time out once more between  *)
(* the transfer and the view change it interrupted: they have missed a     *)
(* PRE-PREPARE or a view and catch up with a later transfer only.          *)
(***************************************************************************)
ExecutesAll == <>(behind \/ consensus.seqNo > upto)
=============================================================================
