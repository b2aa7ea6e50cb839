---------------------------- MODULE ReplicaProofs ---------------------------
(***************************************************************************)
(* A replica, for any membership, any messages, views and sequence         *)
(* numbers, and any way in which timeouts, view changes, state transfers   *)
(* and suspensions overlap:                                                *)
(*   - its proposer is let in exactly while it orders.  What the           *)
(*     synchronizer decides does not matter: the proof only uses which of  *)
(*     the handlers run in which phase, and what the operations of the     *)
(*     consensus do to the lock of its guard;                              *)
(*   - its consensus, its guard and its synchronizer are in the same view, *)
(*     but for the view of a change that is being finished;                *)
(*   - it executes the decisions in order, where no state transfer moves   *)
(*     its sequence number;                                                *)
(*   - its proposer is given every instance of a view once.                *)
(* The last three rest on what the synchronizer may make of a message, and *)
(* on the messages of consensus that it may send.                          *)
(***************************************************************************)
EXTENDS Replica, ConsensusProofs

USE ZenonT(60)

LockInv ==
  /\ HasGuard(consensus)
  /\ mode \in {"Normal", "Sync"} /\ executing \in BOOLEAN
  /\ ProposesWhileOrdering

-----------------------------------------------------------------------------
\* What entering the sync phase does to the lock.
LEMMA LockedLock ==
  ASSUME NEW c, HasGuard(c), NEW newMode
  PROVE  /\ HasGuard(Locked(c, newMode))
         /\ Locked(c, newMode).guard.canPropose =
              IF mode = "Normal" /\ newMode = "Sync" THEN FALSE ELSE c.guard.canPropose
BY DEF Locked, LockConsensus, HasGuard

-----------------------------------------------------------------------------
(***************************************************************************)
(* The actions of the consensus.                                           *)
(***************************************************************************)
LEMMA AdvConsensusLock ==
  ASSUME NEW c, HasGuard(c), NEW m, NEW rest, AdvConsensus(c, m, rest)
  PROVE  SameLock(consensus', c)
<1> DEFINE next == Processed(c, m)
<1>1. SameLock(next, c)
  BY ProcessedLock
<1>2. \/ \E n \in 0..Watermark : consensus' = NextInstances(next, n, next.view)
      \/ consensus' = next
  BY DEF AdvConsensus, FinalizeAllPossible
<1> HIDE DEF next
<1> QED
  BY SMTT(120), <1>1, <1>2, NextInstancesLock DEF SameLock

LEMMA PollConsensusLock ==
  ASSUME HasGuard(consensus), PollConsensus
  PROVE  SameLock(consensus', consensus)
<1>1. ASSUME NEW s, PollStale(s)
      PROVE  SameLock(consensus', consensus)
  BY <1>1 DEF PollStale, Unsignal, SameLock, HasGuard
<1>2. ASSUME NEW s, PollTryPropose(s)
      PROVE  SameLock(consensus', consensus)
  <2> DEFINE decisions == [consensus.decisions EXCEPT ![Position(consensus, s)] = AfterTryPropose(@)]
             g == IF Self \in consensus.view.leaders THEN MakeSeqAvailable(consensus.guard, s)
                                                     ELSE consensus.guard
  <2>1. consensus' = [consensus EXCEPT !.decisions = decisions, !.guard = g]
    BY <1>2 DEF PollTryPropose
  <2> HIDE DEF decisions
  <2> QED
    BY <2>1 DEF SameLock, HasGuard, MakeSeqAvailable
<1>3. ASSUME NEW s, PollNextMessage(s)
      PROVE  SameLock(consensus', consensus)
  <2> DEFINE decisions == [consensus.decisions EXCEPT ![Position(consensus, s)] = AfterNextMessage(@)]
             e == [consensus EXCEPT !.decisions = decisions]
  <2>1. AdvConsensus(e, NextMessage(Polled(consensus, s)), net)
    BY <1>3 DEF PollNextMessage
  <2> HIDE DEF decisions
  <2>2. SameLock(e, consensus)
    BY DEF SameLock, HasGuard
  <2> HIDE DEF e
  <2> QED
    BY <2>1, <2>2, AdvConsensusLock DEF SameLock
<1>4. ASSUME NEW s, PollRecv(s)
      PROVE  SameLock(consensus', consensus)
  <2> DEFINE u == Unsignal(consensus, s)
             decisions == [u.decisions EXCEPT ![Position(consensus, s)] = AfterRecv(@)]
  <2>1. consensus' = [u EXCEPT !.decisions = decisions]
    BY <1>4 DEF PollRecv
  <2>2. SameLock(u, consensus)
    BY DEF Unsignal, SameLock, HasGuard
  <2> HIDE DEF u, decisions
  <2> QED
    BY <2>1, <2>2 DEF SameLock, HasGuard
<1>5. CASE PollDecided
  <2>1. PICK n \in 0..Watermark : consensus' = NextInstances(consensus, n, consensus.view)
    BY <1>5 DEF PollDecided, FinalizeAllPossible
  <2> QED
    BY <2>1, NextInstancesLock
<1> QED
  BY <1>1, <1>2, <1>3, <1>4, <1>5 DEF PollConsensus, Poll
-----------------------------------------------------------------------------
(***************************************************************************)
(* The actions of the replica.                                             *)
(***************************************************************************)
LEMMA SameLockInv ==
  ASSUME LockInv, SameLock(consensus', consensus), UNCHANGED <<mode, executing>>
  PROVE  LockInv'
BY DEF LockInv, SameLock, ProposesWhileOrdering

LEMMA NewViewInv ==
  ASSUME LockInv, executing, NEW res, NEW m, NEW rest, NewView(res, m, rest)
  PROVE  LockInv'
<1> DEFINE view == View(res.sync.view.seq)
           c == IF res.last # lastExec THEN NextInstances(consensus, 1, view) ELSE consensus
<1>1. HasGuard(c)
  BY NextInstancesLock DEF LockInv, SameLock
<1>2. /\ consensus' = FinalizeViewChange(c, view, m)
      /\ mode' = "Normal" /\ UNCHANGED executing
  BY DEF NewView
<1> HIDE DEF c, view
<1>3. HasGuard(consensus') /\ consensus'.guard.canPropose = TRUE
  BY <1>1, <1>2, FinalizeViewChangeLock
<1> QED
  BY <1>2, <1>3 DEF LockInv, ProposesWhileOrdering

\* The lock is closed when the normal phase is left.
LEMMA LeaveInv ==
  ASSUME LockInv, NEW newMode \in {mode, "Sync"}, mode' = newMode,
         consensus' = Locked(consensus, newMode),
         executing' = executing \/ (newMode = "Sync" /\ executing' = FALSE)
  PROVE  LockInv'
<1>1. /\ HasGuard(consensus')
      /\ consensus'.guard.canPropose =
           IF mode = "Normal" /\ newMode = "Sync" THEN FALSE ELSE consensus.guard.canPropose
  BY LockedLock DEF LockInv
<1>2. mode' \in {"Normal", "Sync"} /\ executing' \in BOOLEAN
  BY DEF LockInv
<1> QED
  BY <1>1, <1>2 DEF LockInv, ProposesWhileOrdering

LEMMA AdvSyncInv ==
  ASSUME LockInv, executing, NEW s, NEW m, NEW rest, AdvSync(s, m, rest)
  PROVE  LockInv'
<1>1. \E res, p : NewView(res, p, rest) \/ RunCst(res, p, rest) \/ Proceed(res, rest)
  BY DEF AdvSync
<1>2. ASSUME NEW res, NEW p, RunCst(res, p, rest)
      PROVE  LockInv'
  <2>1. /\ mode' = "Sync" /\ consensus' = Locked(consensus, "Sync") /\ executing' = FALSE
    BY <1>2 DEF RunCst
  <2> QED
    BY <2>1, LeaveInv
<1>3. ASSUME NEW res, Proceed(res, rest)
      PROVE  LockInv'
  <2> DEFINE newMode == IF res.status = "Running" THEN "Sync" ELSE mode
  <2>1. /\ mode' = newMode /\ consensus' = Locked(consensus, newMode) /\ UNCHANGED executing
        /\ newMode \in {mode, "Sync"}
    BY <1>3 DEF Proceed
  <2> HIDE DEF newMode
  <2> QED
    BY <2>1, LeaveInv
<1> QED
  BY <1>1, <1>2, <1>3, NewViewInv

LEMMA HandleInv ==
  ASSUME LockInv, NEW m, NEW rest, Handle(m, rest)
  PROVE  LockInv'
<1>1. CASE UpdateNormalPhase(m, rest)
  <2>1. CASE AdvConsensus(consensus, m, rest) /\ UNCHANGED <<mode, executing>>
    <3>1. SameLock(consensus', consensus)
      BY <2>1, AdvConsensusLock DEF LockInv
    <3> QED
      BY <2>1, <3>1, SameLockInv
  <2>2. CASE AdvSync(sync, m, rest) /\ executing
    BY <2>2, AdvSyncInv
  <2> QED
    BY <1>1, <2>1, <2>2 DEF UpdateNormalPhase, RunsConsensus
<1>2. CASE UpdateSyncPhase(m, rest)
  <2>1. CASE consensus' = Queue(consensus, m) /\ UNCHANGED <<mode, executing>>
    <3>1. SameLock(consensus', consensus)
      BY <2>1, QueueLock DEF LockInv
    <3> QED
      BY <2>1, <3>1, SameLockInv
  <2>2. CASE AdvSync(sync, m, rest) /\ executing
    BY <2>2, AdvSyncInv
  <2> QED
    BY <1>2, <2>1, <2>2 DEF UpdateSyncPhase
<1>3. CASE HandleOffContext(m, rest)
  <2>1. /\ consensus' = Queue(consensus, m) \/ consensus' = consensus
        /\ UNCHANGED <<mode, executing>>
    BY <1>3 DEF HandleOffContext
  <2>2. SameLock(consensus', consensus)
    BY <2>1, QueueLock DEF LockInv, SameLock
  <2> QED
    BY <2>1, <2>2, SameLockInv
<1> QED
  BY <1>1, <1>2, <1>3 DEF Handle

LEMMA RunReplicaInv ==
  ASSUME LockInv, RunReplica
  PROVE  LockInv'
<1>1. CASE PollConsensus
  <2>1. SameLock(consensus', consensus) /\ UNCHANGED <<mode, executing>>
    BY <1>1, PollConsensusLock DEF LockInv, PollConsensus, replicaVars
  <2> QED
    BY <2>1, SameLockInv
<1>2. CASE PollSyncMessage
  <2>1. executing /\ AdvSync(S!AfterPoll(sync), S!PolledMessage(sync), net)
    BY <1>2 DEF PollSyncMessage, PollsSync
  <2> QED
    BY <2>1, AdvSyncInv
<1>3. CASE PollSyncNothing
  <2>1. UNCHANGED <<consensus, mode, executing>>
    BY <1>3 DEF PollSyncNothing, vars
  <2> QED
    BY <2>1, SameLockInv DEF LockInv, SameLock
<1>4. CASE PollResume
  <2>1. executing /\ NewView(S!ResumeViewChange(sync, lastExec), forged, net)
    BY <1>4 DEF PollResume, PollsSync
  <2> QED
    BY <2>1, NewViewInv
<1>5. CASE ReceiveOwn
  BY <1>5, HandleInv DEF ReceiveOwn
<1>6. ASSUME NEW p \in DOMAIN chan, ReceiveFrom(p)
      PROVE  LockInv'
  BY <1>6, HandleInv DEF ReceiveFrom
<1> QED
  BY <1>1, <1>2, <1>3, <1>4, <1>5, <1>6 DEF RunReplica
LEMMA ReplicaInitInv ==
  ASSUME ReplicaInit
  PROVE  LockInv
<1>1. PICK start \in Start :
        consensus = [seqNo     |-> 1,
                     view      |-> View(start.view),
                     decisions |-> [i \in 1..Watermark |->
                                      InitDecision(i, View(start.view), EmptyQueue)],
                     signalled |-> 1..Watermark,
                     tbo       |-> EmptyTbo(1),
                     viewQueue |-> << >>,
                     guard     |-> UnlockConsensus(InitGuard(View(start.view)))]
  BY DEF ReplicaInit
<1> DEFINE g == UnlockConsensus(InitGuard(View(start.view)))
<1>2. g = [field \in {"seqs", "view", "canPropose"} |-> g[field]] /\ g.canPropose = TRUE
  BY DEF UnlockConsensus, InitGuard
<1>3. HasGuard(consensus) /\ consensus.guard.canPropose = TRUE
  <2> HIDE DEF g
  <2>1. consensus.guard = g
    BY <1>1 DEF g
  <2> QED
    BY <1>1, <1>2, <2>1 DEF HasGuard
<1> QED
  BY <1>3 DEF ReplicaInit, LockInv, ProposesWhileOrdering

LEMMA ReplicaNextInv ==
  ASSUME LockInv, [ReplicaNext]_allVars
  PROVE  LockInv'
<1>1. CASE ProposeNext
  <2>1. PICK s \in consensus.guard.seqs : Propose(s)
    BY <1>1 DEF ProposeNext
  <2>2. consensus' = [consensus EXCEPT !.guard = TakeSeqNo(@, s)]
    BY <2>1 DEF Propose
  <2>3. SameLock(consensus', consensus) /\ UNCHANGED <<mode, executing>>
    BY <1>1, <2>2 DEF ProposeNext, replicaVars, LockInv, SameLock, HasGuard, TakeSeqNo
  <2> QED
    BY <2>3, SameLockInv
<1>2. CASE Timeout
  <2>1. mode' = "Sync" /\ consensus' = Locked(consensus, "Sync") /\ UNCHANGED executing
    BY <1>2 DEF Timeout
  <2> QED
    BY <2>1, LeaveInv
<1>3. CASE Suspend
  <2>1. /\ HasGuard(consensus') /\ consensus'.guard.canPropose = FALSE
        /\ mode' = mode /\ executing' = FALSE
    BY <1>3 DEF Suspend, LockConsensus, LockInv, HasGuard
  <2> QED
    BY <2>1 DEF LockInv, ProposesWhileOrdering
<1>4. CASE Resume
  <2>1. CASE mode = "Normal"
    <3>1. /\ HasGuard(consensus') /\ consensus'.guard.canPropose = TRUE
          /\ mode' = mode /\ executing' = TRUE
      BY <1>4, <2>1 DEF Resume, UnlockConsensus, LockInv, HasGuard
    <3> QED
      BY <2>1, <3>1 DEF LockInv, ProposesWhileOrdering
  <2>2. CASE mode # "Normal"
    <3>1. consensus' = consensus /\ mode' = mode /\ executing' = TRUE
      BY <1>4, <2>2 DEF Resume
    <3> QED
      BY <2>2, <3>1 DEF LockInv, ProposesWhileOrdering
  <2> QED
    BY <2>1, <2>2
<1>5. ASSUME NEW seq \in InstallSeq, InstallState(seq)
      PROVE  LockInv'
  <2>1. /\ consensus' = InstallSequenceNumber(consensus, seq)
        /\ UNCHANGED <<mode, executing>>
    BY <1>5 DEF InstallState, StateInstalled, replicaVars
  <2>2. SameLock(consensus', consensus)
    BY <2>1, InstallSequenceNumberLock DEF LockInv
  <2> QED
    BY <2>1, <2>2, SameLockInv
<1>6. ASSUME NEW v \in InstallViews, InstallNewView(v)
      PROVE  LockInv'
  <2> DEFINE c == InstallView(consensus, View(v))
  <2>1. PICK newMode \in {mode, "Sync"} :
          mode' = newMode /\ consensus' = Locked(c, newMode) /\ executing' = executing
    BY <1>6 DEF InstallNewView
  <2>2. SameLock(c, consensus)
    BY InstallViewLock DEF LockInv
  <2> HIDE DEF c
  <2>3. /\ HasGuard(consensus')
        /\ consensus'.guard.canPropose =
             IF mode = "Normal" /\ newMode = "Sync" THEN FALSE ELSE consensus.guard.canPropose
    BY <2>1, <2>2, LockedLock DEF SameLock
  <2>4. mode' \in {"Normal", "Sync"}
    BY <2>1 DEF LockInv
  <2> QED
    BY <2>1, <2>3, <2>4 DEF LockInv, ProposesWhileOrdering
<1>7. CASE UNCHANGED allVars
  <2>1. UNCHANGED <<consensus, mode, executing>>
    BY <1>7 DEF allVars, vars, replicaVars
  <2> QED
    BY <2>1, SameLockInv DEF LockInv, SameLock
<1> QED
  BY <1>1, <1>2, <1>3, <1>4, <1>5, <1>6, <1>7, RunReplicaInv DEF ReplicaNext, Transfer

(***************************************************************************)
(* The guard is unlocked exactly while the protocol is being executed and  *)
(* in its normal phase: the locks of switch_phase() and of                 *)
(* handle_execution_changed(), and the unlocks of finalize_view_change()   *)
(* and handle_execution_changed(), match up in whatever order a view       *)
(* change and a suspension begin and end.                                  *)
(***************************************************************************)
THEOREM ProposesWhileOrderingHolds == ReplicaSpec => []ProposesWhileOrdering
<1>1. ReplicaInit => LockInv
  BY ReplicaInitInv
<1>2. LockInv /\ [ReplicaNext]_allVars => LockInv'
  BY ReplicaNextInv
<1>3. LockInv => ProposesWhileOrdering
  BY DEF LockInv
<1> QED
  BY <1>1, <1>2, <1>3, PTL DEF ReplicaSpec

-----------------------------------------------------------------------------
(***************************************************************************)
(* What the synchronizer reports to the replica: it moves by one view, and *)
(* only when it says so, it brings at most one decision, and it sends no   *)
(* messages of the consensus.                                              *)
(***************************************************************************)
SyncFields == {"view", "next", "phase", "count", "stopped", "adding", "addingNode",
               "collects", "queue", "signalled", "finalizing"}

IsRecord(s) == s = [field \in SyncFields |-> s[field]]

\* The phases that follow a quorum of STOPs.
Changing == {"StoppingData", "Syncing", "SyncingState"}

IsSynchronizer(s) ==
  /\ IsRecord(s)
  /\ s.view.seq \in Nat
  /\ s.phase \in Changing => s.next.seq = s.view.seq + 1

NotOfConsensus(messages) == \A m \in messages : m.kind \notin Kinds

IsOutcome(res, s, last) ==
  /\ NotOfConsensus(res.sends)
  /\ res.last \in {last, last + 1}
  /\ IsSynchronizer(res.sync)
  /\ res.sync.view.seq = IF res.status = "NewView" THEN s.view.seq + 1 ELSE s.view.seq

LEMMA SameSynchronizer ==
  ASSUME NEW s, IsSynchronizer(s), NEW t, IsRecord(t), t.view = s.view, t.next = s.next,
         t.phase = s.phase \/ t.phase \notin Changing
  PROVE  IsSynchronizer(t)
BY DEF IsSynchronizer

LEMMA SameOutcome ==
  ASSUME NEW s, NEW t, IsSynchronizer(t), t.view = s.view, NEW status, status # "NewView",
         NEW sends, NotOfConsensus(sends), NEW last
  PROVE  IsOutcome(S!Result(t, status, sends, last), s, last)
BY DEF IsOutcome, S!Result

LEMMA NoSends == NotOfConsensus({})
BY DEF NotOfConsensus

LEMMA SyncQueueOutcome ==
  ASSUME NEW s, IsSynchronizer(s), NEW m
  PROVE  LET t == S!SyncQueue(s, m)
         IN  IsSynchronizer(t) /\ t.view = s.view /\ t.next = s.next /\ t.phase = s.phase
<1> DEFINE q == [s.queue EXCEPT ![S!QueueFor(m)] = S!Put(@, m.view - s.view.seq, m)]
           t == [s EXCEPT !.queue = q]
<1>1. S!SyncQueue(s, m) = s \/ S!SyncQueue(s, m) = t
  BY DEF S!SyncQueue
<1> HIDE DEF q
<1>2. IsRecord(t) /\ t.view = s.view /\ t.next = s.next /\ t.phase = s.phase
  BY DEF IsSynchronizer, IsRecord, SyncFields
<1> HIDE DEF t
<1>3. IsSynchronizer(t)
  BY <1>2, SameSynchronizer
<1> QED
  BY <1>1, <1>2, <1>3

LEMMA StoppingQuorumOutcome ==
  ASSUME NEW self, NEW s, NEW t, IsSynchronizer(t), t.view = s.view,
         NEW next, next.seq = s.view.seq + 1, NEW last
  PROVE  IsOutcome(S!StoppingQuorum(self, t, next, last), s, last)
<1> DEFINE res == S!StoppingQuorum(self, t, next, last)
<1>1. PICK phase, sends :
        /\ res = S!Result(S!EnterPhase([t EXCEPT !.next = next, !.stopped = {}], phase, 0), "Running",
                          sends, last)
        /\ \A m \in sends : m.kind = "StopData"
  BY SMTT(120) DEF S!StoppingQuorum
<1> HIDE DEF res
<1> DEFINE u == S!EnterPhase([t EXCEPT !.next = next, !.stopped = {}], phase, 0)
<1>2. IsRecord(u) /\ u.view = s.view /\ u.next = next
  BY DEF IsSynchronizer, IsRecord, SyncFields, S!EnterPhase
<1>3. NotOfConsensus(sends)
  BY <1>1 DEF NotOfConsensus, Kinds
<1>4. res = S!Result(u, "Running", sends, last)
  BY <1>1
<1> HIDE DEF u
<1>5. IsSynchronizer(u)
  BY <1>2 DEF IsSynchronizer
<1> QED
  BY <1>2, <1>3, <1>4, <1>5, SameOutcome DEF res

LEMMA ProcessStopOutcome ==
  ASSUME NEW self, NEW s, IsSynchronizer(s), s.phase \notin Changing, NEW last, NEW m
  PROVE  IsOutcome(S!ProcessStop(self, s, last, m), s, last)
<1> DEFINE t == [s EXCEPT !.stopped = @ \cup {m}, !.count = @ + 1]
           u == [t EXCEPT !.phase = "Stopping2"]
           res == S!ProcessStop(self, s, last, m)
           next == S!NextView(s.view)
<1>1. IsRecord(t) /\ t.view = s.view /\ t.next = s.next /\ t.phase = s.phase
  BY DEF IsSynchronizer, IsRecord, SyncFields
<1>2. \/ res = S!Result(u, "Running", S!Stops(self, s), last)
      \/ res = S!StoppingQuorum(self, t, next, last)
      \/ \E status \in {"Nil", "Running"} : res = S!Result(t, status, {}, last)
  BY DEF S!ProcessStop
<1> HIDE DEF t, res
<1>3. IsRecord(u) /\ u.view = s.view /\ u.next = s.next /\ u.phase = "Stopping2"
  BY <1>1 DEF IsRecord, SyncFields
<1> HIDE DEF u
<1>4. IsSynchronizer(t) /\ IsSynchronizer(u)
  <2>1. "Stopping2" \notin Changing
    BY DEF Changing
  <2> QED
    BY <1>1, <1>3, <2>1, SameSynchronizer
<1>5. NotOfConsensus(S!Stops(self, s))
  BY SMTT(120) DEF NotOfConsensus, S!Stops, Kinds
<1>6. next.seq = s.view.seq + 1
  BY DEF S!NextView, S!Peek, S!NewViewInfo
<1> HIDE DEF next
<1>7. CASE res = S!Result(u, "Running", S!Stops(self, s), last)
  BY <1>3, <1>4, <1>5, <1>7, SameOutcome DEF res
<1>8. CASE res = S!StoppingQuorum(self, t, next, last)
  BY <1>1, <1>4, <1>6, <1>8, StoppingQuorumOutcome DEF res
<1>9. CASE \E status \in {"Nil", "Running"} : res = S!Result(t, status, {}, last)
  BY <1>1, <1>4, <1>9, SameOutcome, NoSends DEF res
<1> QED
  BY <1>2, <1>7, <1>8, <1>9


LEMMA ProcessStoppingOutcome ==
  ASSUME NEW self, NEW s, IsSynchronizer(s), s.phase \notin Changing, NEW last, NEW m
  PROVE  IsOutcome(S!ProcessStopping(self, s, last, m), s, last)
<1> DEFINE res == S!ProcessStopping(self, s, last, m)
           status == S!StopStatus(s)
           t == S!SyncQueue(s, m)
<1>1. \/ res = S!Result(s, status, {}, last)
      \/ res = S!Result(t, status, {}, last)
      \/ res = S!ProcessStop(self, s, last, m)
  BY DEF S!ProcessStopping
<1>2. status # "NewView"
  BY DEF S!StopStatus
<1>3. IsSynchronizer(t) /\ t.view = s.view
  BY SyncQueueOutcome
<1> HIDE DEF res, status, t
<1> QED
  BY <1>1, <1>2, <1>3, SameOutcome, NoSends, ProcessStopOutcome DEF res

LEMMA ProcessJoinOutcome ==
  ASSUME NEW self, NEW s, IsSynchronizer(s), s.phase \notin Changing, NEW last, NEW m
  PROVE  IsOutcome(S!ProcessJoin(self, s, last, m), s, last)
<1> DEFINE t == [s EXCEPT !.adding = @ \cup {[node |-> m.node, voter |-> m.from]}, !.count = @ + 1]
           u == [t EXCEPT !.addingNode = m.node]
           next == S!NextViewWithNewNode(s.view, S!MostVoted(t))
           res == S!ProcessJoin(self, s, last, m)
           w(phase) == [t EXCEPT !.phase = phase]
<1>1. IsRecord(t) /\ t.view = s.view /\ t.next = s.next /\ t.phase = s.phase
  BY DEF IsSynchronizer, IsRecord, SyncFields
<1>2. \/ \E phase \in {"ViewStopping", "ViewStopping2", "Panicked"} :
           res = S!Result(w(phase), "Running", {}, last)
      \/ res = S!StoppingQuorum(self, u, next, last)
  <2>1. \/ res = S!Result([t EXCEPT !.phase = "ViewStopping2"], "Running", {}, last)
        \/ res = S!StoppingQuorum(self, u, next, last)
        \/ res = S!Result(IF t.count >= Len(s.view.members) THEN S!Panic(t)
                            ELSE [t EXCEPT !.phase = "ViewStopping"], "Running", {}, last)
    <3> HIDE DEF t, next
    <3> QED
      BY SMTT(120) DEF S!ProcessJoin, t, next
  <2> HIDE DEF t, res, next
  <2> QED
    BY <2>1 DEF S!Panic
<1>3. next.seq = s.view.seq + 1
  BY DEF S!NextViewWithNewNode, S!FromQuorum
<1> HIDE DEF t, res, next
<1>4. ASSUME NEW phase \in {"ViewStopping", "ViewStopping2", "Panicked"}
      PROVE  IsSynchronizer(w(phase)) /\ w(phase).view = s.view
  <2> DEFINE x == w(phase)
  <2>1. IsRecord(x) /\ x.view = s.view /\ x.next = s.next /\ x.phase = phase
    BY <1>1 DEF IsRecord, SyncFields
  <2>2. phase \notin Changing
    BY DEF Changing
  <2> HIDE DEF x, w
  <2>3. IsSynchronizer(x)
    BY <2>1, <2>2, SameSynchronizer
  <2> QED
    BY <2>1, <2>3 DEF x
<1>5. IsSynchronizer(u) /\ u.view = s.view
  <2>1. IsRecord(u) /\ u.view = s.view /\ u.next = s.next /\ u.phase = s.phase
    BY <1>1 DEF IsRecord, SyncFields
  <2> HIDE DEF u
  <2> QED
    BY <2>1, SameSynchronizer
<1> HIDE DEF u, w
<1>6. CASE res = S!StoppingQuorum(self, u, next, last)
  BY <1>3, <1>5, <1>6, StoppingQuorumOutcome DEF res
<1> QED
  BY <1>2, <1>4, <1>6, SameOutcome, NoSends DEF res

LEMMA ProcessViewStoppingOutcome ==
  ASSUME NEW self, NEW s, IsSynchronizer(s), s.phase \notin Changing, NEW last, NEW m
  PROVE  IsOutcome(S!ProcessViewStopping(self, s, last, m), s, last)
<1> DEFINE res == S!ProcessViewStopping(self, s, last, m)
           t == S!SyncQueue(s, m)
           u == S!EnterPhase(t, "Stopping", 0)
           status == S!StopStatus(s)
<1>1. \/ res = S!Result(t, status, {}, last)
      \/ res = S!Result(u, "Running", {}, last)
      \/ res = S!ProcessJoin(self, s, last, m)
  BY DEF S!ProcessViewStopping
<1>2. IsSynchronizer(t) /\ t.view = s.view /\ t.next = s.next
  BY SyncQueueOutcome
<1> HIDE DEF t
<1>3. IsRecord(u) /\ u.view = t.view /\ u.next = t.next /\ u.phase = "Stopping"
  BY <1>2 DEF S!EnterPhase, SyncFields, IsRecord, IsSynchronizer
<1>4. status # "NewView" /\ "Stopping" \notin Changing
  BY DEF S!StopStatus, Changing
<1> HIDE DEF u, res, status
<1>5. IsSynchronizer(u)
  BY <1>2, <1>3, <1>4, SameSynchronizer
<1> QED
  BY <1>1, <1>2, <1>3, <1>4, <1>5, SameOutcome, NoSends, ProcessJoinOutcome DEF res

LEMMA InstallInTboOutcome ==
  ASSUME NEW s, IsRecord(s), NEW view, s.view.seq \in Nat, view.seq \in Int
  PROVE  LET t == S!InstallInTbo(s, view)
         IN  /\ IsRecord(t) /\ t.next = s.next /\ t.phase = s.phase
             /\ t.view = IF view.seq <= s.view.seq THEN s.view ELSE view
<1> DEFINE q == [k \in DOMAIN s.queue |-> S!DropQueues(s.queue[k], view.seq - s.view.seq)]
           t == [s EXCEPT !.view = view, !.queue = q]
<1>1. S!InstallInTbo(s, view) = IF view.seq <= s.view.seq THEN s ELSE t
  BY DEF S!InstallInTbo
<1> HIDE DEF q
<1>2. IsRecord(t) /\ t.view = view /\ t.next = s.next /\ t.phase = s.phase
  BY DEF IsRecord, SyncFields
<1> HIDE DEF t
<1> QED
  BY <1>1, <1>2

\* At most the decision that follows the last one is added to the log.
LEMMA CatchesUpByOne ==
  ASSUME NEW last \in Nat, NEW proof, S!CatchesUp(last, proof)
  PROVE  proof = last + 1
<1>1. S!OrZero(last) = last
  BY SMTT(120) DEF S!OrZero, S!NoDecision
<1>2. CASE proof = S!NoDecision
  BY SMTT(120), <1>1, <1>2 DEF S!CatchesUp, S!OrZero
<1>3. CASE proof # S!NoDecision
  <2>1. S!OrZero(proof) = proof
    BY <1>3 DEF S!OrZero
  <2> QED
    BY <1>1, <2>1 DEF S!CatchesUp
<1> QED
  BY <1>2, <1>3

LEMMA FinalizeOutcome ==
  ASSUME NEW s, IsSynchronizer(s), s.phase \in Changing, NEW last \in Nat, NEW state, NEW proof,
         NEW sends, NotOfConsensus(sends)
  PROVE  IsOutcome(S!Finalize(s, last, state, proof, sends), s, last)
<1> DEFINE res == S!Finalize(s, last, state, proof, sends)
           transfer == [s EXCEPT !.finalizing = state, !.phase = "SyncingState"]
           panic == S!Panic(s)
           installed == S!InstallInTbo(s, s.next)
           advanced == [installed EXCEPT !.next = S!NoView]
           entered == S!EnterPhase(advanced, "Init", 0)
           done(a) == [entered EXCEPT !.adding = a, !.addingNode = S!NoNode]
           newLast == IF S!CatchesUp(last, state.proof) /\ last # S!NoDecision THEN state.proof
                                                                             ELSE last
<1>0. /\ s.view.seq \in Nat /\ s.next.seq = s.view.seq + 1 /\ s.next.seq \in Int
      /\ ~ (s.next.seq <= s.view.seq)
  BY SMTT(120) DEF IsSynchronizer
<1>1. IsSynchronizer(transfer) /\ transfer.view = s.view
  <2>1. IsRecord(transfer) /\ transfer.view = s.view /\ transfer.next = s.next
    BY DEF IsSynchronizer, IsRecord, SyncFields
  <2> HIDE DEF transfer
  <2> QED
    BY <1>0, <2>1 DEF IsSynchronizer
<1>2. IsSynchronizer(panic) /\ panic.view = s.view
  <2>1. IsRecord(panic) /\ panic.view = s.view /\ panic.next = s.next
    BY DEF IsSynchronizer, IsRecord, SyncFields, S!Panic
  <2> HIDE DEF panic
  <2> QED
    BY <1>0, <2>1 DEF IsSynchronizer
<1>3. IsRecord(installed) /\ installed.view = s.next
  BY <1>0, InstallInTboOutcome DEF IsSynchronizer
<1>4. S!AdvanceView(s) = advanced
  <2>1. s.next # S!NoView
    BY SMTT(120), <1>0 DEF S!NoView, S!NewViewInfo
  <2> QED
    BY <2>1 DEF S!AdvanceView
<1> HIDE DEF installed
<1>5. IsRecord(advanced) /\ advanced.view = s.next
  BY <1>3 DEF IsRecord, SyncFields
<1> HIDE DEF advanced
<1>6. IsRecord(entered) /\ entered.view = s.next /\ entered.phase = "Init"
  BY <1>5 DEF S!EnterPhase, IsRecord, SyncFields
<1> HIDE DEF entered
<1>7. ASSUME NEW a
      PROVE  IsSynchronizer(done(a)) /\ done(a).view = s.next
  <2> DEFINE d == done(a)
  <2>1. IsRecord(d) /\ d.view = s.next /\ d.phase = "Init"
    BY <1>6 DEF IsRecord, SyncFields
  <2> HIDE DEF d, done
  <2>2. s.next.seq \in Nat /\ "Init" \notin Changing
    BY SMTT(120), <1>0 DEF Changing
  <2>3. IsSynchronizer(d)
    BY <2>1, <2>2 DEF IsSynchronizer
  <2> QED
    BY <2>1, <2>3 DEF d
<1>8. newLast \in {last, last + 1}
  BY CatchesUpByOne
<1>9. \/ res = S!Result(transfer, "RunCst", sends, last)
      \/ res = S!Result(s, "Running", sends, last)
      \/ res = S!Result(panic, "Running", sends, last)
      \/ \E a : res = S!Result(done(a), "NewView", sends, newLast)
  <2>1. PICK a : a = IF s.addingNode = S!NoNode THEN entered.adding ELSE {}
    OBVIOUS
  <2>2. [S!EnterPhase(S!AdvanceView(s), "Init", 0) EXCEPT
            !.adding = IF s.addingNode = S!NoNode THEN @ ELSE {}, !.addingNode = S!NoNode] = done(a)
    <3>1. S!EnterPhase(S!AdvanceView(s), "Init", 0) = entered
      BY <1>4 DEF entered
    <3>2. [entered EXCEPT !.adding = IF s.addingNode = S!NoNode THEN @ ELSE {},
                          !.addingNode = S!NoNode] = done(a)
      BY <2>1
    <3> QED
      BY <3>1, <3>2
  <2> HIDE DEF transfer, panic, done, newLast
  <2> QED
    BY <2>2 DEF S!Finalize, panic, transfer, newLast
<1> HIDE DEF res, transfer, panic, done, newLast
<1>10. ASSUME NEW a, res = S!Result(done(a), "NewView", sends, newLast)
       PROVE  IsOutcome(res, s, last)
  <2>1. /\ res.sends = sends /\ res.last = newLast /\ res.sync = done(a) /\ res.status = "NewView"
    BY <1>10 DEF S!Result
  <2> QED
    BY <1>0, <1>7, <1>8, <2>1 DEF IsOutcome
<1>11. CASE \E a : res = S!Result(done(a), "NewView", sends, newLast)
  BY <1>10, <1>11 DEF res
<1>12. CASE ~ \E a : res = S!Result(done(a), "NewView", sends, newLast)
  BY <1>1, <1>2, <1>9, <1>12, SameOutcome DEF res
<1> QED
  BY <1>11, <1>12


LEMMA ProcessStoppingDataOutcome ==
  ASSUME NEW self, NEW s, IsSynchronizer(s), s.phase \in Changing, NEW last \in Nat, NEW m,
         NEW sound, NEW empty
  PROVE  IsOutcome(S!ProcessStoppingData(self, s, last, m, sound, empty), s, last)
<1> DEFINE res == S!ProcessStoppingData(self, s, last, m, sound, empty)
           t == [s EXCEPT !.collects = @ \cup {m}]
           u == [t EXCEPT !.count = @ + 1]
           queued == S!SyncQueue(s, m)
           state == [proof |-> S!HighestProof(t.collects), sound |-> sound, empty |-> empty]
           sends == S!Syncs(self, s.next, state)
<1>1. IsRecord(t) /\ t.view = s.view /\ t.next = s.next /\ t.phase = s.phase
  BY DEF IsSynchronizer, IsRecord, SyncFields
<1>2. NotOfConsensus(sends)
  BY SMTT(120) DEF NotOfConsensus, S!Syncs, Kinds
<1>3. \/ res = S!Result(queued, "Running", {}, last)
      \/ res = S!Result(s, "Running", {}, last)
      \/ res = S!Result(u, "Running", {}, last)
      \/ res = S!Finalize(t, last, state, state.proof, sends)
  <2> HIDE DEF t, state, queued, sends
  <2> QED
    BY DEF S!ProcessStoppingData, t, state, queued, sends
<1> HIDE DEF t, res, state, sends
<1>4. IsRecord(u) /\ u.view = s.view /\ u.next = s.next /\ u.phase = s.phase
  BY <1>1 DEF IsRecord, SyncFields
<1>5. IsSynchronizer(queued) /\ queued.view = s.view
  BY SyncQueueOutcome
<1> HIDE DEF u, queued
<1>6. IsSynchronizer(t) /\ IsSynchronizer(u)
  BY <1>1, <1>4, SameSynchronizer
<1>7. IsOutcome(S!Finalize(t, last, state, state.proof, sends), s, last)
  <2>1. IsOutcome(S!Finalize(t, last, state, state.proof, sends), t, last)
    BY <1>1, <1>2, <1>6, FinalizeOutcome
  <2> QED
    BY <1>1, <2>1 DEF IsOutcome
<1> QED
  BY <1>3, <1>4, <1>5, <1>6, <1>7, SameOutcome, NoSends DEF res

LEMMA ProcessSyncingOutcome ==
  ASSUME NEW s, IsSynchronizer(s), s.phase \in Changing, NEW last \in Nat, NEW m
  PROVE  IsOutcome(S!ProcessSyncing(s, last, m), s, last)
<1> DEFINE res == S!ProcessSyncing(s, last, m)
           t == S!SyncQueue(s, m)
           state == [proof |-> m.proof, sound |-> m.sound, empty |-> m.empty]
<1>1. \/ res = S!Result(t, "Running", {}, last)
      \/ res = S!Result(s, "Running", {}, last)
      \/ res = S!Finalize(s, last, state, m.proof, {})
  BY DEF S!ProcessSyncing
<1>2. IsSynchronizer(t) /\ t.view = s.view
  BY SyncQueueOutcome
<1> HIDE DEF res, state, t
<1>3. IsOutcome(S!Finalize(s, last, state, m.proof, {}), s, last)
  BY FinalizeOutcome, NoSends
<1> QED
  BY <1>1, <1>2, <1>3, SameOutcome, NoSends DEF res

LEMMA ProcessMessageOutcome ==
  ASSUME NEW self, NEW s, IsSynchronizer(s), NEW last \in Nat, NEW m, NEW sound, NEW empty
  PROVE  IsOutcome(S!ProcessMessage(self, s, last, m, sound, empty), s, last)
<1> DEFINE res == S!ProcessMessage(self, s, last, m, sound, empty)
           queued == S!SyncQueue(s, m)
           panic == S!Panic(s)
<1>1. CASE s.phase = "Init"
  <2>1. IsSynchronizer(queued) /\ queued.view = s.view
    BY SyncQueueOutcome
  <2>2. res = S!Result(queued, "Nil", {}, last)
    BY <1>1 DEF S!ProcessMessage
  <2> HIDE DEF queued, res
  <2> QED
    BY <2>1, <2>2, SameOutcome, NoSends DEF res
<1>2. CASE s.phase \in {"Stopping", "Stopping2"}
  <2>1. s.phase \notin Changing
    BY <1>2 DEF Changing
  <2>2. res = S!ProcessStopping(self, s, last, m)
    BY <1>2 DEF S!ProcessMessage
  <2> QED
    BY <2>1, <2>2, ProcessStoppingOutcome
<1>3. CASE s.phase \in {"ViewStopping", "ViewStopping2"}
  <2>1. s.phase \notin Changing
    BY <1>3 DEF Changing
  <2>2. res = S!ProcessViewStopping(self, s, last, m)
    BY <1>3 DEF S!ProcessMessage
  <2> QED
    BY <2>1, <2>2, ProcessViewStoppingOutcome
<1>4. CASE s.phase = "StoppingData"
  <2>1. res = S!ProcessStoppingData(self, s, last, m, sound, empty) /\ s.phase \in Changing
    BY <1>4 DEF S!ProcessMessage, Changing
  <2> QED
    BY <2>1, ProcessStoppingDataOutcome
<1>5. CASE s.phase = "Syncing"
  <2>1. res = S!ProcessSyncing(s, last, m) /\ s.phase \in Changing
    BY <1>5 DEF S!ProcessMessage, Changing
  <2> QED
    BY <2>1, ProcessSyncingOutcome
<1>6. CASE s.phase \notin {"Init", "Stopping", "Stopping2", "ViewStopping", "ViewStopping2",
                           "StoppingData", "Syncing"}
  <2>1. IsRecord(panic) /\ panic.view = s.view /\ panic.next = s.next /\ panic.phase = "Panicked"
    BY DEF IsSynchronizer, IsRecord, SyncFields, S!Panic
  <2>2. res = S!Result(panic, "Running", {}, last) /\ "Panicked" \notin Changing
    BY <1>6 DEF S!ProcessMessage, Changing
  <2> HIDE DEF panic, res
  <2>3. IsSynchronizer(panic)
    BY <2>1, <2>2, SameSynchronizer
  <2> QED
    BY <2>1, <2>2, <2>3, SameOutcome, NoSends DEF res
<1> QED
  BY <1>1, <1>2, <1>3, <1>4, <1>5, <1>6

LEMMA ResumeViewChangeOutcome ==
  ASSUME NEW s, IsSynchronizer(s), s.phase \in Changing, NEW last \in Nat
  PROVE  IsOutcome(S!ResumeViewChange(s, last), s, last)
<1> DEFINE t == [s EXCEPT !.finalizing = S!NoState]
<1>1. IsRecord(t) /\ t.view = s.view /\ t.next = s.next /\ t.phase = s.phase
  BY DEF IsSynchronizer, IsRecord, SyncFields
<1>2. \/ S!ResumeViewChange(s, last) = S!Result(s, "Nil", {}, last)
      \/ S!ResumeViewChange(s, last) = S!Finalize(t, last, s.finalizing, S!NoDecision, {})
  BY DEF S!ResumeViewChange
<1> HIDE DEF t
<1>3. IsSynchronizer(t)
  BY <1>1, SameSynchronizer
<1>4. IsOutcome(S!Finalize(t, last, s.finalizing, S!NoDecision, {}), s, last)
  <2>1. IsOutcome(S!Finalize(t, last, s.finalizing, S!NoDecision, {}), t, last)
    BY <1>1, <1>3, FinalizeOutcome, NoSends
  <2> QED
    BY <1>1, <2>1 DEF IsOutcome
<1> QED
  BY <1>2, <1>4, SameOutcome, NoSends

LEMMA AfterPollOutcome ==
  ASSUME NEW s, IsSynchronizer(s)
  PROVE  IsSynchronizer(S!AfterPoll(s)) /\ S!AfterPoll(s).view = s.view
<1> DEFINE k == S!PolledQueue(s)
           rest == [s.queue[k] EXCEPT ![1] = Tail(@)]
           t == [s EXCEPT !.queue = [@ EXCEPT ![k] = rest]]
           u(phase) == S!EnterPhase(t, phase, 0)
<1>0. t = [s EXCEPT !.queue[S!PolledQueue(s)][1] = Tail(@)]
  OBVIOUS
<1> HIDE DEF rest, k
<1>1. S!AfterPoll(s) = t \/ \E phase \in {"Stopping", "ViewStopping"} : S!AfterPoll(s) = u(phase)
  <2> HIDE DEF t
  <2> QED
    BY <1>0 DEF S!AfterPoll
<1>2. IsRecord(t) /\ t.view = s.view /\ t.next = s.next /\ t.phase = s.phase
  BY DEF IsSynchronizer, IsRecord, SyncFields
<1> HIDE DEF t
<1>3. ASSUME NEW phase \in {"Stopping", "ViewStopping"}
      PROVE  IsSynchronizer(u(phase)) /\ u(phase).view = s.view
  <2> DEFINE w == u(phase)
  <2>1. IsRecord(w) /\ w.view = s.view /\ w.next = s.next /\ w.phase = phase
    BY <1>2 DEF S!EnterPhase, IsRecord, SyncFields
  <2>2. phase \notin Changing
    BY DEF Changing
  <2> HIDE DEF w, u
  <2>3. IsSynchronizer(w)
    BY <2>1, <2>2, SameSynchronizer
  <2> QED
    BY <2>1, <2>3 DEF w
<1>4. IsSynchronizer(t)
  BY <1>2, SameSynchronizer
<1> HIDE DEF u
<1> QED
  BY <1>1, <1>2, <1>3, <1>4

LEMMA BeginViewChangeOutcome ==
  ASSUME NEW self, NEW s, IsSynchronizer(s), NEW last
  PROVE  /\ IsOutcome(S!BeginViewChange(self, s, last), s, last)
         /\ S!BeginViewChange(self, s, last).status = "Running"
<1> DEFINE res == S!BeginViewChange(self, s, last)
           t == [s EXCEPT !.phase = "Stopping2"]
           u == S!EnterPhase(s, "Stopping2", 0)
           w == S!EnterPhase(S!ClearState(s), "Stopping2", 0)
<1>1. \E sends \in {{}, S!Stops(self, s)} : \E x \in {s, t, u, w} :
        res = S!Result(x, "Running", sends, last)
  <2> HIDE DEF t, u, w
  <2> QED
    BY DEF S!BeginViewChange, t, u, w
<1> HIDE DEF res
<1>2. /\ IsRecord(t) /\ t.view = s.view /\ t.next = s.next /\ t.phase = "Stopping2"
      /\ IsRecord(u) /\ u.view = s.view /\ u.next = s.next /\ u.phase = "Stopping2"
  BY DEF IsSynchronizer, IsRecord, SyncFields, S!EnterPhase
<1>3. IsRecord(w) /\ w.view = s.view /\ w.next = s.next /\ w.phase = "Stopping2"
  <2> DEFINE c == S!ClearState(s)
  <2>1. IsRecord(c) /\ c.view = s.view /\ c.next = s.next
    BY DEF IsSynchronizer, IsRecord, SyncFields, S!ClearState
  <2> HIDE DEF c
  <2> QED
    BY <2>1 DEF IsRecord, SyncFields, S!EnterPhase, c
<1> HIDE DEF t, u, w
<1>4. IsSynchronizer(t) /\ IsSynchronizer(u) /\ IsSynchronizer(w)
  <2>1. "Stopping2" \notin Changing
    BY DEF Changing
  <2> QED
    BY <1>2, <1>3, <2>1, SameSynchronizer
<1>5. NotOfConsensus(S!Stops(self, s))
  BY SMTT(120) DEF NotOfConsensus, S!Stops, Kinds
<1>6. PICK sends \in {{}, S!Stops(self, s)}, x \in {s, t, u, w} :
        res = S!Result(x, "Running", sends, last)
  BY <1>1
<1>7. res.status = "Running"
  BY <1>6 DEF S!Result
<1>8. IsSynchronizer(x) /\ x.view = s.view /\ NotOfConsensus(sends)
  BY <1>2, <1>3, <1>4, <1>5, NoSends
<1> QED
  BY <1>6, <1>7, <1>8, SameOutcome DEF res

\* The view that follows is installed, or the change to it is still to be run.
LEMMA ReceiveViewOutcome ==
  ASSUME NEW self, NEW s, IsSynchronizer(s), s.phase = "Init", NEW view,
         view.seq = s.view.seq + 1
  PROVE  LET t == S!ReceiveView(self, s, view)
         IN  /\ IsSynchronizer(t)
             /\ t.view.seq = IF S!RunsAfterReceiving(self, s, view) THEN s.view.seq
                                                                   ELSE s.view.seq + 1
<1> DEFINE t == S!InstallInTbo(s, S!PreviousView(view))
           changing(phase) == [S!EnterPhase(t, phase, 0) EXCEPT !.next = view]
           installed == S!InstallInTbo(t, view)
           leads == S!Leader(view) = self /\ S!CanProcess(t, "stopData")
           res == S!ReceiveView(self, s, view)
<1>0. s.view.seq \in Nat /\ view.seq \in Nat /\ S!PreviousView(view).seq = s.view.seq
  BY SMTT(120) DEF IsSynchronizer, S!PreviousView, S!Peek, S!NewViewInfo
<1>1. IsRecord(t) /\ t.view = s.view /\ t.phase = "Init"
  BY SMTT(120), <1>0, InstallInTboOutcome DEF IsSynchronizer
<1>2. /\ S!RunsAfterReceiving(self, s, view) <=> leads \/ S!CanProcess(t, "sync")
      /\ leads => res = changing("StoppingData")
      /\ ~ leads /\ S!CanProcess(t, "sync") => res = changing("Syncing")
      /\ ~ leads /\ ~ S!CanProcess(t, "sync") => res = installed
  <2> HIDE DEF changing
  <2> QED
    BY DEF S!RunsAfterReceiving, S!ReceiveView, changing
<1> HIDE DEF t, res, leads
<1>3. ASSUME NEW phase
      PROVE  IsSynchronizer(changing(phase)) /\ changing(phase).view = s.view
  <2> DEFINE x == S!EnterPhase(t, phase, 0)
             y == [x EXCEPT !.next = view]
  <2>1. IsRecord(x) /\ x.view = s.view
    BY <1>1 DEF S!EnterPhase, IsRecord, SyncFields
  <2> HIDE DEF x
  <2>2. IsRecord(y) /\ y.view = s.view /\ y.next = view
    BY <2>1 DEF IsRecord, SyncFields
  <2>3. changing(phase) = y
    BY DEF x
  <2> HIDE DEF y, changing
  <2> QED
    BY <1>0, <2>2, <2>3 DEF IsSynchronizer
<1>4. IsSynchronizer(installed) /\ installed.view = view
  <2>1. IsRecord(installed) /\ installed.view = view /\ installed.phase = "Init"
    BY SMTT(120), <1>0, <1>1, InstallInTboOutcome
  <2> HIDE DEF installed
  <2> QED
    BY <1>0, <2>1 DEF IsSynchronizer, Changing
<1> HIDE DEF changing, installed
<1>5. CASE leads \/ S!CanProcess(t, "sync")
  <2>1. IsSynchronizer(res) /\ res.view = s.view /\ S!RunsAfterReceiving(self, s, view)
    BY <1>2, <1>3, <1>5
  <2> QED
    BY <2>1 DEF res
<1>6. CASE ~ leads /\ ~ S!CanProcess(t, "sync")
  <2>1. IsSynchronizer(res) /\ res.view = view /\ ~ S!RunsAfterReceiving(self, s, view)
    BY <1>2, <1>4, <1>6
  <2> QED
    BY <2>1 DEF res
<1> QED
  BY <1>5, <1>6

-----------------------------------------------------------------------------
(***************************************************************************)
(* The consensus and the synchronizer together.  Follows is the part of    *)
(* the invariant that a state transfer breaks: the state it installs is    *)
(* not in the log.                                                         *)
(***************************************************************************)
HaveInstances(messages) == \A m \in messages : m.kind \in Kinds => m.seq \in Nat

Together ==
  /\ IsWindow(consensus) /\ consensus.view.seq \in Nat
  /\ IsSynchronizer(sync)
  /\ lastExec \in Nat /\ executed \in Seq(Nat)
  /\ HaveInstances(net)
  /\ ViewsTogether

Arriving ==
  \A p \in DOMAIN chan : \E messages : chan[p] \in Seq(messages) /\ HaveInstances(messages)

Follows == consensus.seqNo = lastExec + 1

\* The step hands over the instances from first on, as many as the window moves.
Ordered(first) ==
  \/ UNCHANGED <<lastExec, executed>> /\ consensus'.seqNo = first
  \/ \E n \in Nat \ {0} :
       /\ consensus'.seqNo = first + n /\ lastExec' = first + n - 1
       /\ executed' = executed \o [i \in 1..n |-> first + i - 1]

LEMMA OrderedTypes ==
  ASSUME NEW first \in Nat, Ordered(first), lastExec \in Nat, executed \in Seq(Nat)
  PROVE  lastExec' \in Nat /\ executed' \in Seq(Nat)
<1>1. CASE UNCHANGED <<lastExec, executed>>
  BY <1>1
<1>2. ASSUME NEW n \in Nat \ {0}, lastExec' = first + n - 1,
             executed' = executed \o [i \in 1..n |-> first + i - 1]
      PROVE  lastExec' \in Nat /\ executed' \in Seq(Nat)
  <2> DEFINE more == [i \in 1..n |-> first + i - 1]
  <2>1. more \in Seq(Nat)
    BY SMTT(120)
  <2> HIDE DEF more
  <2>2. executed' \in Seq(Nat)
    BY SMTT(120), <1>2, <2>1 DEF more
  <2> QED
    BY SMTT(120), <1>2, <2>2
<1> QED
  BY <1>1, <1>2 DEF Ordered

LEMMA FinalizeAllPossibleOrder ==
  ASSUME NEW c, IsWindow(c), executed \in Seq(Nat), FinalizeAllPossible(c)
  PROVE  Ordered(c.seqNo)
<1>1. PICK n \in 0..Watermark :
        /\ consensus' = NextInstances(c, n, c.view)
        /\ executed' = executed \o [i \in 1..n |-> c.decisions[i].seq]
        /\ lastExec' = IF n = 0 THEN lastExec ELSE c.decisions[n].seq
  BY DEF FinalizeAllPossible
<1> DEFINE seqs == [i \in 1..n |-> c.decisions[i].seq]
<1>2. /\ consensus' = NextInstances(c, n, c.view) /\ executed' = executed \o seqs
      /\ lastExec' = IF n = 0 THEN lastExec ELSE c.decisions[n].seq
  BY <1>1
<1>3. consensus'.seqNo = c.seqNo + n
  BY <1>1, <1>2, NextInstancesWindow
<1>4. \A i \in 1..n : c.decisions[i].seq = c.seqNo + i - 1
  BY SMTT(120), <1>1, WatermarkNat DEF IsWindow, AreDecisions
<1>5. seqs = [i \in 1..n |-> c.seqNo + i - 1]
  BY <1>4
<1>6. c.seqNo \in Nat
  BY DEF IsWindow
<1>7. CASE n = 0
  <2>1. seqs = << >>
    BY SMTT(120), <1>7
  <2> HIDE DEF seqs
  <2>2. executed' = executed
    BY SMTT(120), <1>2, <2>1
  <2> QED
    BY SMTT(120), <1>2, <1>3, <1>6, <1>7, <2>2 DEF Ordered
<1>8. CASE n # 0
  <2>1. n \in Nat \ {0} /\ n \in 1..n
    BY SMTT(120), <1>1, <1>8, WatermarkNat
  <2>2. lastExec' = c.seqNo + n - 1
    BY <1>2, <1>4, <1>8, <2>1
  <2> QED
    BY <1>2, <1>3, <1>5, <2>1, <2>2 DEF Ordered
<1> QED
  BY <1>7, <1>8

LEMMA AdvConsensusOrder ==
  ASSUME NEW c, IsWindow(c), NEW m, NEW rest, executed \in Seq(Nat), AdvConsensus(c, m, rest)
  PROVE  Ordered(c.seqNo)
<1> DEFINE next == Processed(c, m)
<1>1. IsWindow(next) /\ next.seqNo = c.seqNo
  BY ProcessedWindow
<1>2. FinalizeAllPossible(next) \/ (consensus' = next /\ UNCHANGED <<lastExec, executed>>)
  BY DEF AdvConsensus
<1> HIDE DEF next
<1>3. CASE FinalizeAllPossible(next)
  BY <1>1, <1>3, FinalizeAllPossibleOrder
<1>4. CASE consensus' = next /\ UNCHANGED <<lastExec, executed>>
  BY <1>1, <1>4 DEF Ordered
<1> QED
  BY <1>2, <1>3, <1>4

\* A step that leaves the view and the synchronizer alone.
LEMMA OrdersTogether ==
  ASSUME Together, IsWindow(consensus'), consensus'.view = consensus.view,
         consensus'.guard.view = consensus.guard.view, HaveInstances(net'),
         Ordered(consensus.seqNo), UNCHANGED <<sync, mode>>
  PROVE  Together'
<1>1. lastExec' \in Nat /\ executed' \in Seq(Nat)
  BY OrderedTypes DEF Together, IsWindow
<1>2. ViewsTogether'
  BY DEF Together, ViewsTogether
<1>3. IsSynchronizer(sync') /\ consensus'.view.seq \in Nat
  BY DEF Together
<1> QED
  BY <1>1, <1>2, <1>3 DEF Together

LEMMA AdvConsensusTogether ==
  ASSUME Together, NEW c, SamePlace(c, consensus), NEW m, NEW rest, rest \subseteq net,
         AdvConsensus(c, m, rest), UNCHANGED <<sync, mode>>
  PROVE  Together' /\ Ordered(consensus.seqNo)
<1>1. /\ IsWindow(c) /\ c.seqNo = consensus.seqNo /\ c.view = consensus.view
      /\ c.guard.view = consensus.guard.view /\ executed \in Seq(Nat)
  BY DEF SamePlace, Together
<1>2. Ordered(consensus.seqNo)
  BY <1>1, AdvConsensusOrder
<1>3. /\ IsWindow(consensus') /\ consensus'.guard = c.guard /\ consensus'.view = c.view
      /\ net' = rest \cup Votes(c, m) /\ \A v \in Votes(c, m) : v.seq \in Nat
  BY <1>1, AdvConsensusShape
<1>4. HaveInstances(net')
  BY <1>3 DEF HaveInstances, Together
<1> QED
  BY <1>1, <1>2, <1>3, <1>4, OrdersTogether

LEMMA InstallViewView ==
  ASSUME NEW c, IsWindow(c), c.view.seq \in Nat, c.guard.view = c.view,
         NEW view, view.seq \in Nat
  PROVE  LET e == InstallView(c, view)
         IN  /\ IsWindow(e) /\ e.seqNo = c.seqNo /\ e.guard.view = e.view
             /\ e.view.seq = IF view.seq > c.view.seq THEN view.seq ELSE c.view.seq
<1> DEFINE e == InstallView(c, view)
<1>1. IsWindow(e) /\ e.seqNo = c.seqNo
  BY InstallViewWindow
<1>2. CASE view.seq > c.view.seq
  <2>1. IsInstalled(e, c, view)
    BY <1>2, InstallViewShape
  <2> HIDE DEF e
  <2>2. e.view = view /\ e.guard = InstallViewInGuard(c.guard, view)
    BY <2>1 DEF IsInstalled
  <2>3. InstallViewInGuard(c.guard, view).view = view
    BY DEF InstallViewInGuard, IsWindow, IsGuard
  <2> QED
    BY <1>1, <1>2, <2>2, <2>3 DEF e
<1>3. CASE ~ (view.seq > c.view.seq)
  <2>1. view.seq <= c.view.seq
    BY SMTT(120), <1>3
  <2>2. e = c
    BY <2>1 DEF InstallView
  <2> HIDE DEF e
  <2> QED
    BY <1>1, <1>3, <2>2 DEF e
<1> QED
  BY <1>2, <1>3

LEMMA LockConsensusPlace ==
  ASSUME NEW c, IsWindow(c)
  PROVE  LET e == [c EXCEPT !.guard = LockConsensus(@)]
         IN  IsWindow(e) /\ e.seqNo = c.seqNo /\ e.view = c.view /\ e.guard.view = c.guard.view
<1> DEFINE g == LockConsensus(c.guard)
<1>1. IsGuard(g) /\ g.view = c.guard.view
  BY DEF LockConsensus, IsGuard, IsWindow
<1> HIDE DEF g
<1>2. LET e == [c EXCEPT !.guard = g]
      IN  IsWindow(e) /\ e.seqNo = c.seqNo /\ e.guard = g /\ e.view = c.view
  BY <1>1, GuardWindow
<1>3. [c EXCEPT !.guard = LockConsensus(@)] = [c EXCEPT !.guard = g]
  BY DEF g
<1> QED
  BY <1>1, <1>2, <1>3

LEMMA LockedPlace ==
  ASSUME NEW c, IsWindow(c), NEW newMode
  PROVE  LET e == Locked(c, newMode)
         IN  IsWindow(e) /\ e.seqNo = c.seqNo /\ e.view = c.view /\ e.guard.view = c.guard.view
<1> DEFINE e == [c EXCEPT !.guard = LockConsensus(@)]
<1>1. Locked(c, newMode) = e \/ Locked(c, newMode) = c
  BY DEF Locked
<1>2. IsWindow(e) /\ e.seqNo = c.seqNo /\ e.view = c.view /\ e.guard.view = c.guard.view
  BY LockConsensusPlace
<1> HIDE DEF e
<1> QED
  BY <1>1, <1>2

LEMMA SignalQueuesOutcome ==
  ASSUME NEW s, IsSynchronizer(s)
  PROVE  IsSynchronizer(S!SignalQueues(s)) /\ S!SignalQueues(s).view = s.view
<1> DEFINE t == [s EXCEPT !.signalled = TRUE]
<1>1. IsRecord(t) /\ t.view = s.view /\ t.next = s.next /\ t.phase = s.phase
  BY DEF IsSynchronizer, IsRecord, SyncFields
<1> HIDE DEF t
<1>2. IsSynchronizer(t)
  BY <1>1, SameSynchronizer
<1> QED
  BY <1>1, <1>2 DEF S!SignalQueues, t

LEMMA ToSelfInstances ==
  ASSUME NEW messages, NotOfConsensus(messages)
  PROVE  HaveInstances(ToSelf(messages))
BY DEF NotOfConsensus, HaveInstances, ToSelf

\* Nothing is executed, and the view stays.
LEMMA LeaveTogether ==
  ASSUME Together, NEW newMode, newMode \in {mode, "Sync"}, mode' = newMode,
         consensus' = Locked(consensus, newMode), UNCHANGED <<lastExec, executed>>,
         IsSynchronizer(sync'), sync'.view.seq = sync.view.seq, HaveInstances(net')
  PROVE  Together' /\ Ordered(consensus.seqNo)
<1>1. /\ IsWindow(consensus') /\ consensus'.seqNo = consensus.seqNo
      /\ consensus'.view = consensus.view /\ consensus'.guard.view = consensus.guard.view
  BY LockedPlace DEF Together
<1>2. ViewsTogether'
  BY <1>1 DEF Together, ViewsTogether
<1>3. Ordered(consensus.seqNo)
  BY <1>1 DEF Ordered
<1>4. consensus'.view.seq \in Nat
  BY <1>1 DEF Together
<1> QED
  BY <1>1, <1>2, <1>3, <1>4 DEF Together

(***************************************************************************)
(* The end of a view change: s is the synchronizer, of the current view,   *)
(* that has come to res.                                                   *)
(***************************************************************************)
LEMMA NewViewTogether ==
  ASSUME Together, NEW s, s.view.seq = sync.view.seq, NEW res, IsOutcome(res, s, lastExec),
         NEW m, NEW rest, rest \subseteq net, NewView(res, m, rest),
         IsSynchronizer(sync'), sync'.view = res.sync.view
  PROVE  Together' /\ (Follows => Ordered(consensus.seqNo))
<1> DEFINE caughtUp == res.last # lastExec
           view == View(res.sync.view.seq)
           moved == NextInstances(consensus, 1, view)
           c == IF caughtUp THEN moved ELSE consensus
           e == FinalizeViewChange(c, view, m)
           votes == FinalizeViewChangeVotes(c, view, m)
<1>1. /\ mode' = "Normal" /\ consensus' = e /\ lastExec' = res.last
      /\ executed' = IF caughtUp THEN Append(executed, res.last) ELSE executed
      /\ net' = rest \cup ToSelf(res.sends) \cup votes
      /\ res.status = "NewView"
  BY DEF NewView
<1>2. /\ IsWindow(consensus) /\ consensus.view.seq \in Nat /\ sync.view.seq \in Nat
      /\ consensus.guard.view = consensus.view
      /\ consensus.view.seq \in {sync.view.seq, sync.view.seq + 1}
      /\ lastExec \in Nat /\ executed \in Seq(Nat)
  BY DEF Together, ViewsTogether, IsSynchronizer
<1>3. /\ res.sync.view.seq = sync.view.seq + 1 /\ res.last \in {lastExec, lastExec + 1}
      /\ NotOfConsensus(res.sends)
  BY <1>1 DEF IsOutcome
<1>4. view.seq = sync.view.seq + 1
  BY <1>3 DEF View
<1> HIDE DEF view
<1>5. /\ IsWindow(moved) /\ moved.seqNo = consensus.seqNo + 1
      /\ moved.guard = consensus.guard /\ moved.view = consensus.view
  BY SMTT(120), <1>2, NextInstancesWindow, WatermarkNat
<1> HIDE DEF moved
<1>6. /\ IsWindow(c) /\ c.guard = consensus.guard /\ c.view = consensus.view
      /\ c.seqNo = IF caughtUp THEN consensus.seqNo + 1 ELSE consensus.seqNo
  BY <1>2, <1>5
<1> HIDE DEF c
<1>7. LET i == InstallView(c, view)
      IN  i.guard.view = i.view /\ i.view.seq = sync.view.seq + 1
  <2>1. /\ c.view.seq \in Nat /\ c.guard.view = c.view /\ view.seq \in Nat
        /\ (IF view.seq > c.view.seq THEN view.seq ELSE c.view.seq) = sync.view.seq + 1
    BY SMTT(120), <1>2, <1>4, <1>6
  <2> QED
    BY <1>6, <2>1, InstallViewView
<1>8. /\ IsWindow(e) /\ e.seqNo = c.seqNo /\ e.view = InstallView(c, view).view
      /\ e.guard.view = InstallView(c, view).guard.view
      /\ \A v \in votes : v.seq \in Nat
  BY <1>6, FinalizeViewChangeWindow
<1> HIDE DEF e, votes
<1>9. ViewsTogether'
  BY <1>1, <1>3, <1>7, <1>8 DEF ViewsTogether
<1>10. HaveInstances(net')
  <2>1. HaveInstances(ToSelf(res.sends)) /\ HaveInstances(net)
    BY <1>3, ToSelfInstances DEF Together
  <2> QED
    BY <1>1, <1>8, <2>1 DEF HaveInstances
<1>11. lastExec' \in Nat /\ executed' \in Seq(Nat)
  BY SMTT(120), <1>1, <1>2, <1>3
<1>12. Together'
  <2>1. consensus'.view.seq \in Nat /\ IsWindow(consensus')
    BY SMTT(120), <1>1, <1>2, <1>7, <1>8
  <2> QED
    BY <1>9, <1>10, <1>11, <2>1 DEF Together
<1>13. ASSUME Follows
       PROVE  Ordered(consensus.seqNo)
  <2>1. CASE ~ caughtUp
    <3>1. UNCHANGED <<lastExec, executed>> /\ consensus'.seqNo = consensus.seqNo
      BY <1>1, <1>6, <1>8, <2>1
    <3> QED
      BY <3>1 DEF Ordered
  <2>2. CASE caughtUp
    <3> DEFINE first == consensus.seqNo
               one == [i \in 1..1 |-> first + i - 1]
    <3>1. /\ consensus'.seqNo = first + 1 /\ lastExec' = first /\ first \in Nat
          /\ executed' = Append(executed, first)
      BY SMTT(120), <1>1, <1>2, <1>3, <1>6, <1>8, <1>13, <2>2 DEF Follows
    <3>2. one = <<first>>
      BY SMTT(120), <3>1
    <3> HIDE DEF first, one
    <3>3. executed' = executed \o one
      BY SMTT(120), <1>2, <3>1, <3>2
    <3>4. 1 \in Nat \ {0} /\ lastExec' = first + 1 - 1
      BY SMTT(120), <3>1
    <3> QED
      BY <3>1, <3>3, <3>4 DEF Ordered, first, one
  <2> QED
    BY <2>1, <2>2
<1> QED
  BY <1>12, <1>13

LEMMA AdvSyncTogether ==
  ASSUME Together, NEW s, IsSynchronizer(s), s.view = sync.view, NEW m,
         NEW rest, rest \subseteq net, AdvSync(s, m, rest)
  PROVE  Together' /\ (Follows => Ordered(consensus.seqNo))
<1> DEFINE res == S!ProcessMessage(Self, s, lastExec, m, TRUE, FALSE)
<1>1. lastExec \in Nat
  BY DEF Together
<1>2. IsOutcome(res, s, lastExec)
  BY <1>1, ProcessMessageOutcome
<1>3. /\ sync' = S!SignalQueues(res.sync)
      /\ \/ \E p : NewView(res, p, rest) \/ RunCst(res, p, rest)
         \/ Proceed(res, rest)
  BY DEF AdvSync
<1> HIDE DEF res
<1>4. IsSynchronizer(sync') /\ sync'.view = res.sync.view
  BY <1>2, <1>3, SignalQueuesOutcome DEF IsOutcome
<1>5. ASSUME NEW p, NewView(res, p, rest)
      PROVE  Together' /\ (Follows => Ordered(consensus.seqNo))
  BY <1>2, <1>4, <1>5, NewViewTogether
<1>6. ASSUME NEW newMode, newMode \in {mode, "Sync"}, mode' = newMode,
             consensus' = Locked(consensus, newMode), UNCHANGED <<lastExec, executed>>,
             net' = rest \cup ToSelf(res.sends), res.status # "NewView"
      PROVE  Together' /\ Ordered(consensus.seqNo)
  <2>1. sync'.view.seq = sync.view.seq
    BY <1>2, <1>4, <1>6 DEF IsOutcome
  <2>2. HaveInstances(ToSelf(res.sends)) /\ HaveInstances(net)
    BY <1>2, ToSelfInstances DEF Together, IsOutcome
  <2>3. HaveInstances(net')
    BY <1>6, <2>2 DEF HaveInstances
  <2> QED
    BY <1>4, <1>6, <2>1, <2>3, LeaveTogether
<1>7. ASSUME NEW p, RunCst(res, p, rest)
      PROVE  Together' /\ Ordered(consensus.seqNo)
  <2>1. /\ mode' = "Sync" /\ consensus' = Locked(consensus, "Sync")
        /\ UNCHANGED <<lastExec, executed>> /\ net' = rest \cup ToSelf(res.sends)
        /\ res.status # "NewView" /\ "Sync" \in {mode, "Sync"}
    BY <1>7 DEF RunCst
  <2> QED
    BY <1>6, <2>1
<1>8. CASE Proceed(res, rest)
  <2>1. PICK newMode : /\ newMode \in {mode, "Sync"} /\ mode' = newMode
                       /\ consensus' = Locked(consensus, newMode)
                       /\ UNCHANGED <<lastExec, executed>>
                       /\ net' = rest \cup ToSelf(res.sends) /\ res.status # "NewView"
    BY <1>8 DEF Proceed
  <2> QED
    BY <1>6, <2>1
<1> QED
  BY <1>3, <1>5, <1>7, <1>8

LEMMA HandleTogether ==
  ASSUME Together, NEW m, m.kind \in Kinds => m.seq \in Nat, NEW rest, rest \subseteq net,
         Handle(m, rest)
  PROVE  Together' /\ (Follows => Ordered(consensus.seqNo))
<1>0. HaveInstances(rest) /\ IsSynchronizer(sync) /\ IsWindow(consensus)
  BY DEF HaveInstances, Together
<1>1. ASSUME AdvConsensus(consensus, m, rest), UNCHANGED <<sync, mode>>
      PROVE  Together' /\ Ordered(consensus.seqNo)
  <2>1. SamePlace(consensus, consensus)
    BY <1>0 DEF SamePlace
  <2> QED
    BY <1>1, <2>1, AdvConsensusTogether
<1>2. ASSUME IsConsensus(m), consensus' = Queue(consensus, m), net' = rest,
             UNCHANGED <<lastExec, executed, sync, mode>>
      PROVE  Together' /\ Ordered(consensus.seqNo)
  <2>1. /\ IsWindow(consensus') /\ consensus'.seqNo = consensus.seqNo
        /\ consensus'.guard = consensus.guard /\ consensus'.view = consensus.view
    BY <1>0, <1>2, QueueWindow DEF IsConsensus
  <2>2. Ordered(consensus.seqNo)
    BY <1>2, <2>1 DEF Ordered
  <2> QED
    BY <1>0, <1>2, <2>1, <2>2, OrdersTogether
<1>3. CASE UpdateNormalPhase(m, rest)
  <2>1. CASE AdvSync(sync, m, rest)
    BY <1>0, <2>1, AdvSyncTogether
  <2> QED
    BY <1>1, <1>3, <2>1 DEF UpdateNormalPhase
<1>4. CASE UpdateSyncPhase(m, rest)
  <2>1. CASE AdvSync(sync, m, rest)
    BY <1>0, <2>1, AdvSyncTogether
  <2> QED
    BY <1>2, <1>4, <2>1 DEF UpdateSyncPhase
<1>5. CASE HandleOffContext(m, rest)
  <2>1. CASE IsConsensus(m)
    BY <1>2, <1>5, <2>1 DEF HandleOffContext
  <2>2. CASE ~ IsConsensus(m)
    <3> DEFINE t == S!SyncQueue(sync, m)
    <3>1. /\ sync' = S!SignalQueues(t) /\ net' = rest
          /\ UNCHANGED <<consensus, lastExec, executed, mode>>
      BY <1>5, <2>2 DEF HandleOffContext
    <3>2. IsSynchronizer(t) /\ t.view = sync.view
      BY <1>0, SyncQueueOutcome
    <3> HIDE DEF t
    <3>3. IsSynchronizer(sync') /\ sync'.view = sync.view
      BY <3>1, <3>2, SignalQueuesOutcome
    <3>4. Ordered(consensus.seqNo)
      BY <3>1 DEF Ordered
    <3>5. ViewsTogether'
      BY <3>1, <3>3 DEF Together, ViewsTogether
    <3> QED
      BY <1>0, <3>1, <3>3, <3>4, <3>5 DEF Together
  <2> QED
    BY <2>1, <2>2
<1> QED
  BY <1>3, <1>4, <1>5 DEF Handle

LEMMA PollConsensusTogether ==
  ASSUME Together, PollConsensus
  PROVE  Together' /\ Ordered(consensus.seqNo)
<1>0. /\ IsWindow(consensus) /\ executed \in Seq(Nat) /\ HaveInstances(net)
      /\ UNCHANGED <<sync, mode>>
  BY DEF Together, PollConsensus, replicaVars
<1>1. ASSUME NEW s, Poll(s)
      PROVE  Together' /\ Ordered(consensus.seqNo)
  <2>1. CASE SamePlace(consensus', consensus) /\ UNCHANGED <<net, lastExec, executed>>
    <3>1. Ordered(consensus.seqNo)
      BY <2>1 DEF Ordered, SamePlace
    <3> QED
      BY <1>0, <2>1, <3>1, OrdersTogether DEF SamePlace
  <2>2. ASSUME NEW e, NEW m, SamePlace(e, consensus), AdvConsensus(e, m, net)
        PROVE  Together' /\ Ordered(consensus.seqNo)
    BY <1>0, <2>2, AdvConsensusTogether
  <2>3. \/ SamePlace(consensus', consensus) /\ UNCHANGED <<net, lastExec, executed>>
        \/ \E e, m : SamePlace(e, consensus) /\ AdvConsensus(e, m, net)
    BY <1>0, <1>1, PollShape
  <2> QED
    BY <2>1, <2>2, <2>3
<1>2. ASSUME FinalizeAllPossible(consensus), net' = net
      PROVE  Together' /\ Ordered(consensus.seqNo)
  <2>1. Ordered(consensus.seqNo)
    BY <1>0, <1>2, FinalizeAllPossibleOrder
  <2>2. /\ IsWindow(consensus') /\ consensus'.guard = consensus.guard
        /\ consensus'.view = consensus.view
    BY <1>0, <1>2, FinalizeAllPossibleWindow
  <2> QED
    BY <1>0, <1>2, <2>1, <2>2, OrdersTogether
<1> QED
  BY <1>1, <1>2 DEF PollConsensus, PollDecided

LEMMA RunReplicaTogether ==
  ASSUME Together, Arriving, RunReplica
  PROVE  Together' /\ Arriving' /\ (Follows => Ordered(consensus.seqNo))
<1>0. IsSynchronizer(sync) /\ lastExec \in Nat /\ IsWindow(consensus) /\ HaveInstances(net)
  BY DEF Together
<1>1. CASE PollConsensus
  <2>1. chan' = chan
    BY <1>1 DEF PollConsensus, replicaVars
  <2> QED
    BY <1>1, <2>1, PollConsensusTogether DEF Arriving
<1>2. CASE PollSyncMessage
  <2> DEFINE s == S!AfterPoll(sync)
             m == S!PolledMessage(sync)
  <2>1. AdvSync(s, m, net) /\ chan' = chan
    BY <1>2 DEF PollSyncMessage
  <2>2. IsSynchronizer(s) /\ s.view = sync.view
    BY <1>0, AfterPollOutcome
  <2> HIDE DEF s, m
  <2>3. Together' /\ (Follows => Ordered(consensus.seqNo))
    BY <2>1, <2>2, AdvSyncTogether
  <2> QED
    BY <2>1, <2>3 DEF Arriving
<1>3. CASE PollSyncNothing
  <2> DEFINE t == [sync EXCEPT !.signalled = FALSE]
  <2>1. sync' = t /\ UNCHANGED <<consensus, lastExec, executed, net, mode, chan>>
    BY <1>3 DEF PollSyncNothing, vars
  <2>2. IsRecord(t) /\ t.view = sync.view /\ t.next = sync.next /\ t.phase = sync.phase
    BY <1>0 DEF IsSynchronizer, IsRecord, SyncFields
  <2> HIDE DEF t
  <2>3. IsSynchronizer(t)
    BY <1>0, <2>2, SameSynchronizer
  <2>4. ViewsTogether'
    BY <2>1, <2>2 DEF Together, ViewsTogether
  <2>5. Together'
    BY <2>1, <2>3, <2>4 DEF Together
  <2> QED
    BY <2>1, <2>5 DEF Arriving, Ordered
<1>4. CASE PollResume
  <2> DEFINE res == S!ResumeViewChange(sync, lastExec)
  <2>1. /\ sync.phase = "SyncingState" /\ sync' = res.sync /\ NewView(res, forged, net)
        /\ chan' = chan
    BY <1>4 DEF PollResume
  <2>2. IsOutcome(res, sync, lastExec)
    BY <1>0, <2>1, ResumeViewChangeOutcome DEF Changing
  <2> HIDE DEF res
  <2>3. Together' /\ (Follows => Ordered(consensus.seqNo))
    BY <2>1, <2>2, NewViewTogether DEF IsOutcome
  <2> QED
    BY <2>1, <2>3 DEF Arriving
<1>5. CASE ReceiveOwn
  <2>1. PICK m \in net : Handle(m, net \ {m}) /\ UNCHANGED chan
    BY <1>5 DEF ReceiveOwn
  <2>2. (m.kind \in Kinds => m.seq \in Nat) /\ net \ {m} \subseteq net
    BY <1>0 DEF HaveInstances
  <2>3. Together' /\ (Follows => Ordered(consensus.seqNo))
    BY <2>1, <2>2, HandleTogether
  <2> QED
    BY <2>1, <2>3 DEF Arriving
<1>6. ASSUME NEW p \in DOMAIN chan, ReceiveFrom(p)
      PROVE  Together' /\ Arriving' /\ (Follows => Ordered(consensus.seqNo))
  <2>1. /\ chan[p] # << >> /\ chan' = [chan EXCEPT ![p] = Tail(@)]
        /\ Handle(Head(chan[p]), net)
    BY <1>6 DEF ReceiveFrom
  <2>2. PICK messages : chan[p] \in Seq(messages) /\ HaveInstances(messages)
    BY <1>6 DEF Arriving
  <2>3. Head(chan[p]) \in messages /\ Tail(chan[p]) \in Seq(messages)
    BY SMTT(120), <2>1, <2>2
  <2>4. Head(chan[p]).kind \in Kinds => Head(chan[p]).seq \in Nat
    BY <2>2, <2>3 DEF HaveInstances
  <2>5. Together' /\ (Follows => Ordered(consensus.seqNo))
    BY <2>1, <2>4, HandleTogether
  <2>6. Arriving'
    <3>1. DOMAIN chan' = DOMAIN chan /\ chan'[p] = Tail(chan[p])
      BY <1>6, <2>1
    <3>2. \A q \in DOMAIN chan : q # p => chan'[q] = chan[q]
      BY <2>1
    <3> QED
      BY <2>2, <2>3, <3>1, <3>2 DEF Arriving
  <2> QED
    BY <2>5, <2>6
<1> QED
  BY <1>1, <1>2, <1>3, <1>4, <1>5, <1>6 DEF RunReplica

LEMMA ReplicaInitTogether ==
  ASSUME ReplicaInit
  PROVE  Together /\ Arriving /\ Follows
<1>1. PICK start \in Start :
        /\ chan = start.chan /\ sync = S!InitSync(ViewOf(start.view))
        /\ consensus = [seqNo     |-> 1,
                        view      |-> View(start.view),
                        decisions |-> [i \in 1..Watermark |->
                                         InitDecision(i, View(start.view), EmptyQueue)],
                        signalled |-> 1..Watermark,
                        tbo       |-> EmptyTbo(1),
                        viewQueue |-> << >>,
                        guard     |-> UnlockConsensus(InitGuard(View(start.view)))]
  BY DEF ReplicaInit
<1> DEFINE view == View(start.view)
           g == UnlockConsensus(InitGuard(view))
           decisions == [i \in 1..Watermark |-> InitDecision(i, view, EmptyQueue)]
<1>2. start.view \in Nat
  BY ReplicaAssumption
<1>3. view.seq = start.view
  BY DEF View
<1> HIDE DEF view
<1>4. IsGuard(g) /\ g.view = view
  BY DEF UnlockConsensus, InitGuard, IsGuard
<1>5. AreDecisions(decisions, 1)
  BY SMTT(120), InitDecisionIs, WatermarkNat DEF AreDecisions
<1>6. IsTbo(EmptyTbo(1)) /\ EmptyTbo(1).curr = 1
  BY DEF EmptyTbo, IsTbo
<1>7. consensus = [seqNo |-> 1, view |-> view, decisions |-> decisions, signalled |-> 1..Watermark,
                   tbo |-> EmptyTbo(1), viewQueue |-> << >>, guard |-> g]
  BY <1>1 DEF view
<1> HIDE DEF g, decisions
<1>8. IsWindow(consensus) /\ consensus.view = view /\ consensus.guard.view = view
      /\ consensus.seqNo = 1
  <2>1. /\ consensus.seqNo = 1 /\ consensus.view = view /\ consensus.decisions = decisions
        /\ consensus.signalled = 1..Watermark /\ consensus.tbo = EmptyTbo(1) /\ consensus.guard = g
        /\ IsConsensusStruct(consensus)
    BY <1>7 DEF IsConsensusStruct
  <2>2. 1..Watermark \subseteq Nat /\ \A i \in 1..Watermark : i < 1 + Watermark
    BY SMTT(120), WatermarkNat
  <2> QED
    BY SMTT(120), <1>4, <1>5, <1>6, <2>1, <2>2 DEF IsWindow
<1>9. IsSynchronizer(sync) /\ sync.view.seq = start.view
  <2>1. ViewOf(start.view).seq = start.view
    BY DEF ViewOf, S!NewViewInfo
  <2>2. IsRecord(sync) /\ sync.view = ViewOf(start.view) /\ sync.phase = "Init"
    BY <1>1 DEF S!InitSync, IsRecord, SyncFields
  <2> QED
    BY <1>2, <2>1, <2>2 DEF IsSynchronizer, Changing
<1>10. lastExec = 0 /\ executed = << >> /\ net = {}
  BY DEF ReplicaInit
<1>11. Together /\ Follows
  <2>1. ViewsTogether
    BY <1>3, <1>8, <1>9 DEF ViewsTogether
  <2>2. HaveInstances(net) /\ executed \in Seq(Nat) /\ lastExec \in Nat
    BY SMTT(120), <1>10 DEF HaveInstances
  <2>3. consensus.view.seq \in Nat
    BY <1>2, <1>3, <1>8
  <2>4. Follows
    BY SMTT(120), <1>8, <1>10 DEF Follows
  <2> QED
    BY <1>8, <1>9, <2>1, <2>2, <2>3, <2>4 DEF Together
<1>12. Arriving
  BY <1>1, ReplicaAssumption DEF Arriving, HaveInstances
<1> QED
  BY <1>11, <1>12

\* Only a state transfer moves the window without executing what it leaves.
LEMMA ReplicaNextTogether ==
  ASSUME Together, Arriving, [ReplicaNext]_allVars
  PROVE  /\ Together' /\ Arriving'
         /\ Follows /\ InstallSeq = {} => Ordered(consensus.seqNo)
<1> DEFINE Goal == /\ Together' /\ Arriving'
                   /\ Follows /\ InstallSeq = {} => Ordered(consensus.seqNo)
<1>0. /\ IsSynchronizer(sync) /\ lastExec \in Nat /\ IsWindow(consensus)
      /\ HaveInstances(net) /\ ViewsTogether
  BY DEF Together
<1>1. ASSUME IsWindow(consensus'), consensus'.seqNo = consensus.seqNo,
             consensus'.view = consensus.view, consensus'.guard.view = consensus.guard.view,
             HaveInstances(net'), UNCHANGED <<lastExec, executed, sync, mode, chan>>
      PROVE  Goal
  <2>1. Ordered(consensus.seqNo)
    BY <1>1 DEF Ordered
  <2>2. Together'
    BY <1>1, <2>1, OrdersTogether
  <2> QED
    BY <1>1, <2>1, <2>2 DEF Arriving
<1>2. CASE RunReplica
  BY <1>2, RunReplicaTogether
<1>3. CASE ProposeNext
  <2>1. PICK s \in consensus.guard.seqs : Propose(s)
    BY <1>3 DEF ProposeNext
  <2> DEFINE g == TakeSeqNo(consensus.guard, s)
  <2>2. s \in Nat /\ IsGuard(g) /\ g.view = consensus.guard.view
    BY <1>0, <2>1 DEF TakeSeqNo, IsGuard, IsWindow
  <2>3. /\ consensus' = [consensus EXCEPT !.guard = g]
        /\ UNCHANGED <<lastExec, executed, sync, mode, chan>>
    BY <1>3, <2>1 DEF Propose, ProposeNext, replicaVars
  <2>4. HaveInstances(net')
    <3>1. PICK b : net' = net \cup {PrePrepare(consensus.guard.view.seq, s, b)}
      BY <2>1 DEF Propose
    <3>2. PrePrepare(consensus.guard.view.seq, s, b).seq = s
      BY DEF PrePrepare
    <3> QED
      BY <1>0, <2>2, <3>1, <3>2 DEF HaveInstances
  <2> HIDE DEF g
  <2>5. /\ IsWindow(consensus') /\ consensus'.seqNo = consensus.seqNo
        /\ consensus'.guard = g /\ consensus'.view = consensus.view
    BY <1>0, <2>2, <2>3, GuardWindow
  <2> QED
    BY <1>1, <2>2, <2>3, <2>4, <2>5
<1>4. CASE Timeout
  <2> DEFINE res == S!BeginViewChange(Self, sync, lastExec)
  <2>1. /\ sync' = res.sync /\ mode' = "Sync" /\ consensus' = Locked(consensus, "Sync")
        /\ net' = net \cup ToSelf(res.sends) /\ UNCHANGED <<lastExec, executed, chan>>
    BY <1>4 DEF Timeout
  <2>2. IsOutcome(res, sync, lastExec) /\ res.status = "Running"
    BY <1>0, BeginViewChangeOutcome
  <2> HIDE DEF res
  <2>3. IsSynchronizer(sync') /\ sync'.view.seq = sync.view.seq
    BY <2>1, <2>2 DEF IsOutcome
  <2>4. HaveInstances(net')
    <3>1. HaveInstances(ToSelf(res.sends))
      BY <2>2, ToSelfInstances DEF IsOutcome
    <3> QED
      BY <1>0, <2>1, <3>1 DEF HaveInstances
  <2>5. Together' /\ Ordered(consensus.seqNo)
    <3>1. "Sync" \in {mode, "Sync"}
      OBVIOUS
    <3> QED
      BY <2>1, <2>3, <2>4, <3>1, LeaveTogether
  <2> QED
    BY <2>1, <2>5 DEF Arriving
<1>5. CASE Suspend
  <2>1. /\ consensus' = [consensus EXCEPT !.guard = LockConsensus(@)]
        /\ UNCHANGED <<lastExec, executed, sync, mode, chan, net>>
    BY <1>5 DEF Suspend
  <2>2. /\ IsWindow(consensus') /\ consensus'.seqNo = consensus.seqNo
        /\ consensus'.view = consensus.view /\ consensus'.guard.view = consensus.guard.view
    BY <1>0, <2>1, LockConsensusPlace
  <2> QED
    BY <1>0, <1>1, <2>1, <2>2
<1>6. CASE Resume
  <2> DEFINE g == UnlockConsensus(consensus.guard)
  <2>1. /\ consensus' = [consensus EXCEPT !.guard = g] \/ consensus' = consensus
        /\ UNCHANGED <<lastExec, executed, sync, mode, chan, net>>
    BY <1>6 DEF Resume
  <2>2. IsGuard(g) /\ g.view = consensus.guard.view
    BY <1>0 DEF UnlockConsensus, IsGuard, IsWindow
  <2> HIDE DEF g
  <2>3. /\ IsWindow(consensus') /\ consensus'.seqNo = consensus.seqNo
        /\ consensus'.view = consensus.view /\ consensus'.guard.view = consensus.guard.view
    <3>1. CASE consensus' = [consensus EXCEPT !.guard = g]
      BY SMTT(120), <1>0, <2>2, <3>1, GuardWindow
    <3>2. CASE consensus' = consensus
      BY <1>0, <3>2
    <3> QED
      BY <2>1, <3>1, <3>2
  <2> QED
    BY <1>0, <1>1, <2>1, <2>3
<1>7. ASSUME NEW seq \in InstallSeq, InstallState(seq)
      PROVE  Goal
  <2>1. /\ consensus' = InstallSequenceNumber(consensus, seq)
        /\ UNCHANGED <<lastExec, executed, sync, mode, chan, net>>
    BY <1>7 DEF InstallState, StateInstalled, replicaVars
  <2>2. seq \in Nat
    BY WindowAssumption
  <2>3. /\ IsWindow(consensus') /\ consensus'.view = consensus.view
        /\ consensus'.guard.view = consensus.guard.view
    BY <1>0, <2>1, <2>2, InstallSequenceNumberWindow, InstallSequenceNumberGuard
  <2>4. ViewsTogether' /\ consensus'.view.seq \in Nat
    BY <2>1, <2>3 DEF Together, ViewsTogether
  <2>5. Together'
    BY <2>1, <2>3, <2>4 DEF Together
  <2>6. InstallSeq # {}
    BY <1>7
  <2> QED
    BY <2>1, <2>5, <2>6 DEF Arriving
<1>8. ASSUME NEW v \in InstallViews, InstallNewView(v)
      PROVE  Goal
  <2> DEFINE runs == S!RunsAfterReceiving(Self, sync, ViewOf(v))
             newMode == IF runs THEN "Sync" ELSE mode
             c == InstallView(consensus, View(v))
  <2>1. /\ sync.phase = "Init" /\ v = sync.view.seq + 1
        /\ sync' = S!ReceiveView(Self, sync, ViewOf(v)) /\ mode' = newMode
        /\ consensus' = Locked(c, newMode)
        /\ UNCHANGED <<lastExec, executed, net, chan>>
    BY <1>8 DEF InstallNewView
  <2>2. ViewOf(v).seq = v /\ View(v).seq = v
    BY DEF ViewOf, S!NewViewInfo, View
  <2>3. /\ IsSynchronizer(sync')
        /\ sync'.view.seq = IF runs THEN sync.view.seq ELSE sync.view.seq + 1
    BY <1>0, <2>1, <2>2, ReceiveViewOutcome
  <2>4. /\ IsWindow(c) /\ c.seqNo = consensus.seqNo /\ c.guard.view = c.view
        /\ c.view.seq = sync.view.seq + 1
    <3>1. /\ consensus.view.seq \in Nat /\ consensus.guard.view = consensus.view
          /\ consensus.view.seq \in {sync.view.seq, sync.view.seq + 1} /\ sync.view.seq \in Nat
      BY DEF Together, ViewsTogether, IsSynchronizer
    <3>2. /\ View(v).seq \in Nat
          /\ (IF View(v).seq > consensus.view.seq THEN View(v).seq ELSE consensus.view.seq)
               = sync.view.seq + 1
      BY SMTT(120), <2>1, <2>2, <3>1
    <3> QED
      BY <1>0, <3>1, <3>2, InstallViewView
  <2> HIDE DEF c, runs
  <2>5. /\ IsWindow(consensus') /\ consensus'.seqNo = c.seqNo
        /\ consensus'.view = c.view /\ consensus'.guard.view = c.guard.view
    BY <2>1, <2>4, LockedPlace
  <2>6. ViewsTogether' /\ consensus'.view.seq \in Nat
    <3>1. sync.view.seq \in Nat
      BY DEF Together, IsSynchronizer
    <3>2. /\ consensus'.guard.view = consensus'.view
          /\ consensus'.view.seq = sync.view.seq + 1
      BY <2>4, <2>5
    <3>3. runs => mode' = "Sync"
      BY <2>1
    <3> HIDE DEF newMode
    <3> QED
      BY SMTT(120), <2>3, <3>1, <3>2, <3>3 DEF ViewsTogether
  <2>7. Together'
    BY <2>1, <2>3, <2>5, <2>6 DEF Together
  <2>8. Ordered(consensus.seqNo)
    BY <2>1, <2>4, <2>5 DEF Ordered
  <2> QED
    BY <2>1, <2>7, <2>8 DEF Arriving
<1>9. CASE UNCHANGED allVars
  BY <1>0, <1>1, <1>9 DEF allVars, vars, replicaVars
<1> QED
  BY <1>2, <1>3, <1>4, <1>5, <1>6, <1>7, <1>8, <1>9 DEF ReplicaNext, Transfer

(***************************************************************************)
(* The views of the consensus, of its guard and of the synchronizer are    *)
(* the same whenever the protocol is in its normal phase, and apart by at  *)
(* most the view being changed to in its sync phase: install_view() in     *)
(* whatever phase it comes, a timeout during a view change, and the end of *)
(* a view change before or after a state transfer, keep them so.           *)
(***************************************************************************)
THEOREM ViewsTogetherHolds == ReplicaSpec => []ViewsTogether
<1> DEFINE Inv == Together /\ Arriving
<1>1. ReplicaInit => Inv
  BY ReplicaInitTogether
<1>2. Inv /\ [ReplicaNext]_allVars => Inv'
  BY ReplicaNextTogether
<1>3. Inv => ViewsTogether
  BY DEF Together
<1> HIDE DEF Inv
<1> QED
  BY <1>1, <1>2, <1>3, PTL DEF ReplicaSpec

(***************************************************************************)
(* The decisions that finalize() hands over, and the one that a view       *)
(* change catches up with, are the instances at the front of the window,   *)
(* in order, and the window moves past exactly them.  Where a state        *)
(* transfer has moved the window, the log no longer says which instance is *)
(* the next one, and the theorem leaves that case out.                     *)
(***************************************************************************)
THEOREM ExecutesInOrderHolds ==
  ASSUME InstallSeq = {}
  PROVE  ReplicaSpec => ExecutesInOrder
<1> DEFINE Inv == Together /\ Arriving /\ Follows
           InOrder == executed' # executed =>
                        /\ Len(executed') - Len(executed) = consensus'.seqNo - consensus.seqNo
                        /\ executed' = executed \o
                             [i \in 1..(Len(executed') - Len(executed)) |-> consensus.seqNo + i - 1]
<1>1. ReplicaInit => Inv
  BY ReplicaInitTogether
<1>2. ASSUME Inv, [ReplicaNext]_allVars
      PROVE  Inv' /\ [InOrder]_vars
  <2>1. Together' /\ Arriving' /\ Ordered(consensus.seqNo)
    BY <1>2, ReplicaNextTogether
  <2>2. consensus.seqNo \in Nat /\ executed \in Seq(Nat) /\ lastExec \in Nat
    BY <1>2 DEF Together, IsWindow
  <2>3. CASE UNCHANGED <<lastExec, executed>> /\ consensus'.seqNo = consensus.seqNo
    <3>1. Follows'
      BY <1>2, <2>3 DEF Follows
    <3> QED
      BY <2>1, <2>3, <3>1
  <2>4. ASSUME NEW n \in Nat \ {0}, consensus'.seqNo = consensus.seqNo + n,
               lastExec' = consensus.seqNo + n - 1,
               executed' = executed \o [i \in 1..n |-> consensus.seqNo + i - 1]
        PROVE  Inv' /\ [InOrder]_vars
    <3>1. Follows'
      BY SMTT(120), <2>2, <2>4 DEF Follows
    <3> DEFINE more == [i \in 1..n |-> consensus.seqNo + i - 1]
    <3>2. more \in Seq(Nat) /\ Len(more) = n
      BY SMTT(120), <2>2, <2>4
    <3>3. Len(executed') = Len(executed) + n
      <4> HIDE DEF more
      <4> QED
        BY SMTT(120), <2>2, <2>4, <3>2 DEF more
    <3>4. Len(executed') - Len(executed) = n
      BY SMTT(120), <2>2, <3>3
    <3>5. InOrder
      <4>1. consensus'.seqNo - consensus.seqNo = n
        BY SMTT(120), <2>2, <2>4
      <4> QED
        BY <2>4, <3>4, <4>1
    <3> QED
      BY <2>1, <3>1, <3>5
  <2> QED
    BY <2>1, <2>3, <2>4 DEF Ordered
<1> HIDE DEF Inv
<1>3. ReplicaSpec => [][InOrder]_vars
  BY <1>1, <1>2, PTL DEF ReplicaSpec
<1> QED
  BY <1>3, PTL DEF ExecutesInOrder

-----------------------------------------------------------------------------
(***************************************************************************)
(* The proposer is given every instance of a view once: the handlers keep  *)
(* Once, as the operations of the consensus do.                            *)
(***************************************************************************)
LEMMA LockedOnce ==
  ASSUME NEW given, NEW c, IsWindow(c), Once(c, given), NEW newMode
  PROVE  Once(Locked(c, newMode), given)
<1> DEFINE g == LockConsensus(c.guard)
           e == [c EXCEPT !.guard = g]
<1>1. Locked(c, newMode) = e \/ Locked(c, newMode) = c
  BY DEF Locked
<1>2. g.seqs \subseteq c.guard.seqs
  BY LockSeqs DEF IsWindow
<1> HIDE DEF g
<1>3. Once(e, given)
  BY <1>2, GuardOnce
<1> HIDE DEF e
<1> QED
  BY <1>1, <1>3

LEMMA NewViewOnce ==
  ASSUME NEW given, Together, Once(consensus, given), NEW s, s.view.seq = sync.view.seq,
         NEW res, IsOutcome(res, s, lastExec), NEW m, NEW rest, NewView(res, m, rest)
  PROVE  Once(consensus', given)
<1> DEFINE view == View(res.sync.view.seq)
           moved == NextInstances(consensus, 1, view)
           c == IF res.last # lastExec THEN moved ELSE consensus
           e == FinalizeViewChange(c, view, m)
<1>1. consensus' = e /\ res.status = "NewView"
  BY DEF NewView
<1>2. view.seq \in Nat
  <2>1. res.sync.view.seq = sync.view.seq + 1 /\ sync.view.seq \in Nat
    BY <1>1 DEF IsOutcome, Together, IsSynchronizer
  <2> QED
    BY <2>1, NextIsNat, ViewSeq
<1> HIDE DEF view
<1>3. 1 \in 0..Watermark /\ IsWindow(consensus) /\ consensus.view.seq \in Nat
  BY OneInWindow DEF Together
<1>4. IsWindow(moved) /\ moved.view = consensus.view /\ Once(moved, given)
  BY <1>3, NextInstancesWindow, NextInstancesOnce
<1> HIDE DEF moved
<1>5. IsWindow(c) /\ c.view.seq \in Nat /\ Once(c, given)
  BY <1>3, <1>4
<1> HIDE DEF c
<1>6. Once(e, given)
  BY <1>2, <1>5, FinalizeViewChangeOnce
<1> HIDE DEF e
<1> QED
  BY <1>1, <1>6

LEMMA AdvSyncOnce ==
  ASSUME NEW given, Together, Once(consensus, given), NEW s, IsSynchronizer(s),
         s.view = sync.view, NEW m, NEW rest, AdvSync(s, m, rest)
  PROVE  Once(consensus', given)
<1> DEFINE res == S!ProcessMessage(Self, s, lastExec, m, TRUE, FALSE)
<1>1. lastExec \in Nat /\ IsWindow(consensus)
  BY DEF Together
<1>2. IsOutcome(res, s, lastExec)
  BY <1>1, ProcessMessageOutcome
<1>3. \/ \E p : NewView(res, p, rest) \/ RunCst(res, p, rest)
      \/ Proceed(res, rest)
  BY DEF AdvSync
<1> HIDE DEF res
<1>4. ASSUME NEW p, NewView(res, p, rest)
      PROVE  Once(consensus', given)
  <2>1. s.view.seq = sync.view.seq
    OBVIOUS
  <2> QED
    BY <1>2, <1>4, <2>1, NewViewOnce
<1>5. ASSUME NEW newMode, consensus' = Locked(consensus, newMode)
      PROVE  Once(consensus', given)
  <2>1. Once(Locked(consensus, newMode), given)
    BY <1>1, LockedOnce
  <2> QED
    BY <1>5, <2>1
<1>6. ASSUME NEW p, RunCst(res, p, rest)
      PROVE  Once(consensus', given)
  <2>1. consensus' = Locked(consensus, "Sync")
    BY <1>6 DEF RunCst
  <2> QED
    BY <1>5, <2>1
<1>7. CASE Proceed(res, rest)
  <2>1. PICK newMode : consensus' = Locked(consensus, newMode)
    BY <1>7 DEF Proceed
  <2> QED
    BY <1>5, <2>1
<1> QED
  BY <1>3, <1>4, <1>6, <1>7

LEMMA HandleOnce ==
  ASSUME Together, Once(consensus, granted), NEW m, m.kind \in Kinds => m.seq \in Nat,
         NEW rest, Handle(m, rest)
  PROVE  Once(consensus', granted')
<1>0. /\ IsSynchronizer(sync) /\ IsWindow(consensus) /\ granted' = granted
      /\ UpdateNormalPhase(m, rest) \/ UpdateSyncPhase(m, rest) \/ HandleOffContext(m, rest)
  BY DEF Together, Handle
<1>1. ASSUME AdvConsensus(consensus, m, rest)
      PROVE  Once(consensus', granted)
  BY <1>0, <1>1, AdvConsensusOnce
<1>2. ASSUME IsConsensus(m), consensus' = Queue(consensus, m)
      PROVE  Once(consensus', granted)
  <2>1. m.seq \in Nat
    BY <1>2 DEF IsConsensus
  <2>2. Once(Queue(consensus, m), granted)
    BY <1>0, <2>1, QueueOnce
  <2> QED
    BY <1>2, <2>2
<1>3. ASSUME AdvSync(sync, m, rest)
      PROVE  Once(consensus', granted)
  <2>1. sync.view = sync.view
    OBVIOUS
  <2> QED
    BY <1>0, <1>3, <2>1, AdvSyncOnce
<1>4. CASE UpdateNormalPhase(m, rest)
  BY <1>0, <1>1, <1>3, <1>4 DEF UpdateNormalPhase
<1>5. CASE UpdateSyncPhase(m, rest)
  BY <1>0, <1>2, <1>3, <1>5 DEF UpdateSyncPhase
<1>6. CASE HandleOffContext(m, rest)
  <2>1. CASE IsConsensus(m)
    BY <1>0, <1>2, <1>6, <2>1 DEF HandleOffContext
  <2>2. CASE ~ IsConsensus(m)
    <3>1. consensus' = consensus
      BY <1>6, <2>2 DEF HandleOffContext
    <3> QED
      BY <1>0, <3>1
  <2> QED
    BY <2>1, <2>2
<1> QED
  BY <1>0, <1>4, <1>5, <1>6

LEMMA RunReplicaOnce ==
  ASSUME Together, Arriving, Once(consensus, granted), RunReplica
  PROVE  Once(consensus', granted')
<1>0. IsSynchronizer(sync) /\ lastExec \in Nat /\ IsWindow(consensus) /\ HaveInstances(net)
  BY DEF Together
<1>1. CASE PollConsensus
  <2>1. ASSUME NEW s, Poll(s)
        PROVE  Once(consensus', granted')
    <3>1. granted' = granted
      BY <2>1
         DEF Poll, PollStale, PollTryPropose, PollNextMessage, PollRecv
    <3>2. Once(consensus', granted)
      BY <1>0, <2>1, PollOnce
    <3> QED
      BY <3>1, <3>2
  <2>2. ASSUME FinalizeAllPossible(consensus), granted' = granted
        PROVE  Once(consensus', granted')
    <3>1. Once(consensus', granted)
      BY <1>0, <2>2, FinalizeAllPossibleOnce
    <3> QED
      BY <2>2, <3>1
  <2> QED
    BY <1>1, <2>1, <2>2 DEF PollConsensus, PollDecided
<1>2. CASE PollSyncMessage
  <2> DEFINE s == S!AfterPoll(sync)
             m == S!PolledMessage(sync)
  <2>1. AdvSync(s, m, net) /\ granted' = granted
    BY <1>2 DEF PollSyncMessage
  <2>2. IsSynchronizer(s) /\ s.view = sync.view
    BY <1>0, AfterPollOutcome
  <2> HIDE DEF s, m
  <2>3. Once(consensus', granted)
    BY <2>1, <2>2, AdvSyncOnce
  <2> QED
    BY <2>1, <2>3
<1>3. CASE PollSyncNothing
  <2>1. UNCHANGED <<consensus, granted>>
    BY <1>3 DEF PollSyncNothing, vars
  <2> QED
    BY <2>1
<1>4. CASE PollResume
  <2> DEFINE res == S!ResumeViewChange(sync, lastExec)
  <2>1. sync.phase = "SyncingState" /\ NewView(res, forged, net) /\ granted' = granted
    BY <1>4 DEF PollResume
  <2>2. IsOutcome(res, sync, lastExec)
    BY <1>0, <2>1, ResumeViewChangeOutcome DEF Changing
  <2> HIDE DEF res
  <2>3. sync.view.seq = sync.view.seq
    OBVIOUS
  <2>4. Once(consensus', granted)
    BY <2>1, <2>2, <2>3, NewViewOnce
  <2> QED
    BY <2>1, <2>4
<1>5. CASE ReceiveOwn
  <2>1. PICK m \in net : Handle(m, net \ {m})
    BY <1>5 DEF ReceiveOwn
  <2>2. m.kind \in Kinds => m.seq \in Nat
    BY <1>0 DEF HaveInstances
  <2> QED
    BY <2>1, <2>2, HandleOnce
<1>6. ASSUME NEW p \in DOMAIN chan, ReceiveFrom(p)
      PROVE  Once(consensus', granted')
  <2>1. chan[p] # << >> /\ Handle(Head(chan[p]), net)
    BY <1>6 DEF ReceiveFrom
  <2>2. PICK messages : chan[p] \in Seq(messages) /\ HaveInstances(messages)
    BY <1>6 DEF Arriving
  <2>3. Head(chan[p]) \in messages
    BY SMTT(120), <2>1, <2>2
  <2>4. Head(chan[p]).kind \in Kinds => Head(chan[p]).seq \in Nat
    BY <2>2, <2>3 DEF HaveInstances
  <2> QED
    BY <2>1, <2>4, HandleOnce
<1> QED
  BY <1>1, <1>2, <1>3, <1>4, <1>5, <1>6 DEF RunReplica

LEMMA ReplicaNextOnce ==
  ASSUME Together, Arriving, Once(consensus, granted), [ReplicaNext]_allVars
  PROVE  Once(consensus', granted')
<1>0. /\ IsWindow(consensus) /\ consensus.view.seq \in Nat /\ consensus.guard.view = consensus.view
      /\ IsGuard(consensus.guard) /\ sync.view.seq \in Nat
  BY DEF Together, ViewsTogether, IsWindow, IsSynchronizer
<1>1. ASSUME NEW e, Once(e, granted), consensus' = e, granted' = granted
      PROVE  Once(consensus', granted')
  BY <1>1
<1>2. CASE RunReplica
  BY <1>2, RunReplicaOnce
<1>3. CASE ProposeNext
  <2>1. PICK s \in consensus.guard.seqs : Propose(s)
    BY <1>3 DEF ProposeNext
  <2> QED
    BY <1>0, <2>1, ProposeOnce
<1>4. CASE Timeout
  <2>1. consensus' = Locked(consensus, "Sync") /\ granted' = granted
    BY <1>4 DEF Timeout
  <2>2. Once(Locked(consensus, "Sync"), granted)
    BY <1>0, LockedOnce
  <2> QED
    BY <1>1, <2>1, <2>2
<1>5. CASE Suspend
  <2> DEFINE g == LockConsensus(consensus.guard)
  <2>1. consensus' = [consensus EXCEPT !.guard = g] /\ granted' = granted
    BY <1>5 DEF Suspend
  <2>2. g.seqs \subseteq consensus.guard.seqs
    BY <1>0, LockSeqs
  <2> HIDE DEF g
  <2>3. Once([consensus EXCEPT !.guard = g], granted)
    BY <1>0, <2>2, GuardOnce
  <2> QED
    BY <1>1, <2>1, <2>3
<1>6. CASE Resume
  <2> DEFINE g == UnlockConsensus(consensus.guard)
  <2>1. /\ consensus' = [consensus EXCEPT !.guard = g] \/ consensus' = consensus
        /\ granted' = granted
    BY <1>6 DEF Resume
  <2>2. g.seqs \subseteq consensus.guard.seqs
    BY <1>0, LockSeqs
  <2> HIDE DEF g
  <2>3. Once([consensus EXCEPT !.guard = g], granted)
    BY <1>0, <2>2, GuardOnce
  <2> QED
    BY <1>1, <2>1, <2>3
<1>7. ASSUME NEW seq \in InstallSeq, InstallState(seq)
      PROVE  Once(consensus', granted')
  <2>1. /\ consensus' = InstallSequenceNumber(consensus, seq) /\ granted' = granted
        /\ seq > consensus.seqNo
    BY <1>7 DEF InstallState, StateInstalled
  <2>2. seq \in Nat
    BY WindowAssumption
  <2>3. Once(InstallSequenceNumber(consensus, seq), granted)
    BY <1>0, <2>1, <2>2, InstallSequenceNumberOnce
  <2> QED
    BY <1>1, <2>1, <2>3
<1>8. ASSUME NEW v \in InstallViews, InstallNewView(v)
      PROVE  Once(consensus', granted')
  <2> DEFINE c == InstallView(consensus, View(v))
  <2>1. /\ v = sync.view.seq + 1 /\ granted' = granted
        /\ \E newMode : consensus' = Locked(c, newMode)
    BY <1>8 DEF InstallNewView
  <2>2. View(v).seq \in Nat
    BY <1>0, <2>1, NextIsNat, ViewSeq
  <2>3. IsWindow(c) /\ Once(c, granted)
    BY <1>0, <2>2, InstallViewWindow, InstallViewOnce
  <2> HIDE DEF c
  <2>4. PICK newMode : consensus' = Locked(c, newMode)
    BY <2>1
  <2>5. Once(Locked(c, newMode), granted)
    BY <2>3, LockedOnce
  <2> QED
    BY <1>1, <2>1, <2>4, <2>5
<1>9. CASE UNCHANGED allVars
  <2>1. UNCHANGED <<consensus, granted>>
    BY <1>9 DEF allVars, vars
  <2> QED
    BY <2>1
<1> QED
  BY <1>2, <1>3, <1>4, <1>5, <1>6, <1>7, <1>8, <1>9 DEF ReplicaNext, Transfer

LEMMA ReplicaInitOnce ==
  ASSUME ReplicaInit
  PROVE  Once(consensus, granted)
<1>1. PICK start \in Start :
        consensus = [seqNo     |-> 1,
                     view      |-> View(start.view),
                     decisions |-> [i \in 1..Watermark |->
                                      InitDecision(i, View(start.view), EmptyQueue)],
                     signalled |-> 1..Watermark,
                     tbo       |-> EmptyTbo(1),
                     viewQueue |-> << >>,
                     guard     |-> UnlockConsensus(InitGuard(View(start.view)))]
  BY DEF ReplicaInit
<1> DEFINE view == View(start.view)
           decisions == [i \in 1..Watermark |-> InitDecision(i, view, EmptyQueue)]
           g == UnlockConsensus(InitGuard(view))
<1>2. consensus.seqNo = 1 /\ consensus.decisions = decisions /\ consensus.guard = g
  <2> HIDE DEF g, decisions
  <2> QED
    BY <1>1 DEF g, decisions
<1>3. g.seqs = {}
  BY DEF UnlockConsensus, InitGuard
<1>4. ASSUME NEW i \in 1..Watermark
      PROVE  consensus.decisions[i].phase \in Phases
  <2>1. consensus.decisions[i] = InitDecision(i, view, EmptyQueue)
    BY <1>2
  <2> QED
    BY <2>1, InitDecisionPhase
<1>5. \A v : Taken(granted, v) = {}
  <2>1. granted = {}
    BY DEF ReplicaInit
  <2> QED
    BY <2>1 DEF Taken
<1> HIDE DEF g, decisions
<1> QED
  BY <1>2, <1>3, <1>4, <1>5 DEF Once

(***************************************************************************)
(* The proposer is given every instance of a view once, however the window *)
(* moves and the views change: poll() makes an instance available as it    *)
(* takes it out of its initial phase, and an instance that is in that      *)
(* phase again (a new one at the end of the window, one that a state       *)
(* transfer has skipped to, or any of them in a new view) is one that was  *)
(* not available to the proposer in this view and not proposed to.  A      *)
(* leader therefore never proposes two batches for an instance.            *)
(***************************************************************************)
THEOREM ProposesOnceHolds == ReplicaSpec => []ProposesOnce
<1> DEFINE Inv == Together /\ Arriving /\ Once(consensus, granted)
<1>1. ReplicaInit => Inv
  BY ReplicaInitTogether, ReplicaInitOnce
<1>2. Inv /\ [ReplicaNext]_allVars => Inv'
  <2>1. Inv /\ [ReplicaNext]_allVars => Together' /\ Arriving'
    BY ReplicaNextTogether
  <2> QED
    BY <2>1, ReplicaNextOnce
<1>3. ASSUME Inv PROVE ProposesOnce
  <2>1. /\ IsWindow(consensus) /\ consensus.guard.view = consensus.view
        /\ consensus.guard.seqs \subseteq Nat /\ consensus.seqNo \in Nat
    BY <1>3 DEF Together, ViewsTogether, IsWindow, IsGuard
  <2>2. DOMAIN consensus.decisions = 1..Watermark
    BY <2>1 DEF IsWindow, AreDecisions
  <2>3. ASSUME NEW i \in 1..Watermark, consensus.decisions[i].phase = "Initialize"
        PROVE  LET d == consensus.decisions[i]
               IN  /\ d.seq \notin consensus.guard.seqs
                   /\ [view |-> consensus.view.seq, seq |-> d.seq] \notin granted
    <3>1. consensus.decisions[i].seq = consensus.seqNo + i - 1
      BY <2>1 DEF IsWindow, AreDecisions
    <3>2. consensus.seqNo + i - 1 \in Nat
      BY SMTT(120), <2>1
    <3> QED
      BY <1>3, <2>3, <3>1, <3>2 DEF Once, Taken
  <2>4. ASSUME NEW s \in consensus.guard.seqs
        PROVE  [view |-> consensus.guard.view.seq, seq |-> s] \notin granted
    BY <1>3, <2>1 DEF Once, Taken
  <2> QED
    BY <2>2, <2>3, <2>4 DEF ProposesOnce
<1> HIDE DEF Inv
<1> QED
  BY <1>1, <1>2, <1>3, PTL DEF ReplicaSpec
=============================================================================
