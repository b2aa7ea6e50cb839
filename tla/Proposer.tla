------------------------------ MODULE Proposer ------------------------------
(***************************************************************************)
(* The proposer thread of one replica and what it shares with the replica  *)
(* thread: the ProposerConsensusGuard (module Guard, and the requests of   *)
(* the last SYNC message) and the view of the synchronizer.  A step is     *)
(* what a thread does between two accesses to that state.                  *)
(*                                                                         *)
(* Requests come from the pre-processor in batches, those of a client in   *)
(* order.  Time is abstracted: due says that global_batch_time_limit has   *)
(* passed since the last proposal, and a receive may time out at any time. *)
(***************************************************************************)
EXTENDS Guard, SequencesExt

CONSTANTS
  Client,
  Arrivals,      \* the batches of requests [client, seq] that arrive, in order
  Target,        \* target_global_batch_size
  MaxBatch,      \* max_batch_size
  SyncBatches,   \* sets of requests a SYNC message may propose
  MaxSeq,        \* last sequence number made available in a view
  MaxView,       \* last view
  MaxLocks       \* bound on the times execution is suspended

VARIABLES
  guard,         \* seqs, view, canPropose of the ProposerConsensusGuard
  seen,          \* its last_view_change: per client the last request, NoList for None
  pending,       \* its has_pending_view_change_reqs
  view,          \* sequence number of the synchronizer's view
  leads,         \* the views this replica leads
  mode, at,      \* ConsensusPhase of the replica thread, and where it is in finalize()
  nextSeq,       \* next instance of the window to be polled
  executing,     \* is the replica executing decisions?
  locks,         \* times execution has been suspended
  pc,            \* where the proposer thread is
  isLeader,      \* its is_leader
  channel,       \* batches not yet received
  collected,     \* its collected_requests
  accumulated,   \* its currently_accumulated
  due,           \* the time limit of the batch has passed
  proposal,      \* the batch being proposed
  sent,          \* [view, seq, rq] of the requests proposed, in order
  synced,        \* the requests of the SYNC message of each view
  sinceStop      \* proposals begun since the replica has left the normal phase

replicaVars == <<view, mode, at, nextSeq, executing, locks, synced>>
threadVars  == <<isLeader, channel, collected, accumulated, due, proposal, sent>>
vars == <<guard, seen, pending, replicaVars, leads, pc, threadVars, sinceStop>>

NoList == [c \in {} |-> 0]
NoRequest == 0
NoProposal == [view |-> 0, seq |-> 0, batch |-> << >>]

ASSUME ProposerAssumption ==
  /\ \A i \in DOMAIN Arrivals : \A k \in DOMAIN Arrivals[i] :
       Arrivals[i][k].client \in Client /\ Arrivals[i][k].seq > NoRequest
  /\ Target \in Nat \ {0} /\ MaxBatch \in Nat \ {0}
  /\ MaxSeq \in Nat /\ MaxView \in Nat /\ MaxLocks \in Nat

\* The guard is locked until execution starts.
Init ==
  /\ guard = InitGuard(0) /\ seen = NoList /\ pending = FALSE
  /\ view = 0 /\ leads \in SUBSET (0..MaxView)
  /\ mode = "Normal" /\ at = "loop" /\ nextSeq = 0
  /\ executing = FALSE /\ locks = 0
  /\ pc = "loop" /\ isLeader = FALSE /\ channel = Arrivals
  /\ collected = << >> /\ accumulated = << >> /\ due = FALSE
  /\ proposal = NoProposal /\ sent = << >>
  /\ synced = [v \in 0..MaxView |-> {}] /\ sinceStop = 0

-----------------------------------------------------------------------------
(***************************************************************************)
(* The replica thread.                                                     *)
(***************************************************************************)
\* unlock_consensus(): whoever is listening by now is woken up.
Unlock ==
  /\ guard' = UnlockConsensus(guard)
  /\ pc' = IF pc = "listening" THEN "check" ELSE pc

\* handle_execution_changed()
ExecutionSuspended ==
  /\ at = "loop" /\ executing /\ locks < MaxLocks
  /\ executing' = FALSE /\ locks' = locks + 1
  /\ guard' = LockConsensus(guard)
  /\ UNCHANGED <<seen, pending, view, leads, mode, at, nextSeq, synced, pc, threadVars, sinceStop>>

ExecutionResumed ==
  /\ at = "loop" /\ ~ executing
  /\ executing' = TRUE
  /\ IF mode = "Normal" THEN Unlock ELSE UNCHANGED <<guard, pc>>
  /\ UNCHANGED <<seen, pending, view, leads, mode, at, nextSeq, locks, synced, threadVars, sinceStop>>

\* poll() reaches an instance for the first time.
MakeAvailable ==
  /\ at = "loop" /\ mode = "Normal" /\ nextSeq <= MaxSeq
  /\ nextSeq' = nextSeq + 1
  /\ guard' = IF guard.view \in leads THEN MakeSeqAvailable(guard, nextSeq) ELSE guard
  /\ UNCHANGED <<seen, pending, view, leads, mode, at, executing, locks, synced, pc, threadVars, sinceStop>>

\* Mutant of SwitchToSync: the proposer is not locked.
SwitchToSyncUnlocked ==
  /\ at = "loop" /\ mode = "Normal" /\ view < MaxView
  /\ mode' = "Sync" /\ sinceStop' = 0
  /\ UNCHANGED <<guard, seen, pending, view, leads, at, nextSeq, executing, locks, synced, pc, threadVars>>

SwitchToSync ==
  /\ at = "loop" /\ mode = "Normal" /\ view < MaxView
  /\ mode' = "Sync" /\ sinceStop' = 0
  /\ guard' = LockConsensus(guard)
  /\ UNCHANGED <<seen, pending, view, leads, at, nextSeq, executing, locks, synced, pc, threadVars>>

\* The synchronizer advances its view.
AdvanceView ==
  /\ at = "loop" /\ mode = "Sync"
  /\ view' = view + 1 /\ at' = "installView"
  /\ UNCHANGED <<guard, seen, pending, leads, mode, nextSeq, executing, locks, synced, pc, threadVars, sinceStop>>

\* The instance that is running is not made available in the new view.
InstallView ==
  /\ at = "installView"
  /\ guard' = InstallViewInGuard(guard, view)
  /\ nextSeq' = 1 /\ at' = "installRequests"
  /\ UNCHANGED <<seen, pending, view, leads, mode, executing, locks, synced, pc, threadVars, sinceStop>>

\* The last request of each client in the SYNC message.
LastRequests(rqs) ==
  [c \in Client |-> LET seqs == {r.seq : r \in {q \in rqs : q.client = c}}
                    IN  IF seqs = {} THEN NoRequest
                          ELSE CHOOSE s \in seqs : \A t \in seqs : t <= s]

InstallSyncMessageRequests(rqs) ==
  /\ at = "installRequests"
  /\ seen' = LastRequests(rqs) /\ pending' = TRUE
  /\ synced' = [synced EXCEPT ![view] = rqs]
  /\ at' = "unlock"
  /\ UNCHANGED <<guard, view, leads, mode, nextSeq, executing, locks, pc, threadVars, sinceStop>>

\* The replica goes back to its normal phase.
FinishViewChange ==
  /\ at = "unlock"
  /\ Unlock
  /\ mode' = "Normal" /\ at' = "loop" /\ sinceStop' = 0
  /\ UNCHANGED <<seen, pending, view, leads, nextSeq, executing, locks, synced, threadVars>>

-----------------------------------------------------------------------------
(***************************************************************************)
(* The proposer thread.                                                    *)
(***************************************************************************)
shared == <<guard, seen, pending, replicaVars, leads>>

Goto(from, to) == pc = from /\ pc' = to

\* It blocks while it may not propose.
Check ==
  /\ pc \in {"loop", "check"}
  /\ pc' = IF guard.canPropose THEN "readView" ELSE "block"
  /\ UNCHANGED <<shared, threadVars, sinceStop>>

BlockUntilReady ==
  /\ Goto("block", "listening")
  /\ UNCHANGED <<shared, threadVars, sinceStop>>

ReadView ==
  /\ Goto("readView", "collect")
  /\ isLeader' = (view \in leads)
  /\ collected' = << >>
  /\ UNCHANGED <<shared, channel, accumulated, due, proposal, sent, sinceStop>>

\* handle_received_message(): only a leader stops collecting.
Receive ==
  /\ pc = "collect" /\ channel # << >>
  /\ channel' = Tail(channel)
  /\ collected' = collected \o Head(channel)
  /\ pc' = IF isLeader /\ (Len(collected') >= Target \/ due) THEN "propose" ELSE pc
  /\ UNCHANGED <<shared, isLeader, accumulated, due, proposal, sent, sinceStop>>

ReceiveTimesOut ==
  /\ isLeader
  /\ Goto("collect", "propose")
  /\ UNCHANGED <<shared, threadVars, sinceStop>>

TimePasses ==
  /\ ~ due /\ due' = TRUE
  /\ UNCHANGED <<shared, pc, isLeader, channel, collected, accumulated, proposal, sent, sinceStop>>

\* process_received_messages() and the size of the batch.
ProcessReceived ==
  /\ pc = "propose"
  /\ accumulated' = accumulated \o collected
  /\ collected' = << >>
  /\ pc' = IF Len(accumulated') >= Target \/ due THEN "canPropose" ELSE "loop"
  /\ UNCHANGED <<shared, isLeader, channel, due, proposal, sent, sinceStop>>

CheckAgain ==
  /\ pc = "canPropose"
  /\ pc' = IF guard.canPropose THEN "nextSeq" ELSE "loop"
  /\ UNCHANGED <<shared, threadVars, sinceStop>>

NoSeqNo ==
  /\ guard.seqs = {}
  /\ Goto("nextSeq", "loop")
  /\ UNCHANGED <<shared, threadVars, sinceStop>>

\* The last MaxBatch requests are the next batch, the ones before them remain.
Excess == IF Len(accumulated) > MaxBatch THEN Len(accumulated) - MaxBatch ELSE 0

\* Mutant of Remaining: what does not fit into the batch is not kept.
RemainingNone == << >>

Remaining == SubSeq(accumulated, 1, Excess)

NextSeqNo(s) ==
  /\ IsNextSeqNo(guard, s)
  /\ Goto("nextSeq", "loadPending")
  /\ guard' = TakeSeqNo(guard, s)
  /\ proposal' = [view |-> guard.view, seq |-> s,
                  batch |-> SubSeq(accumulated, Excess + 1, Len(accumulated))]
  /\ accumulated' = Remaining
  /\ due' = FALSE
  /\ sinceStop' = IF mode = "Sync" THEN sinceStop + 1 ELSE 0
  /\ UNCHANGED <<seen, pending, replicaVars, leads, isLeader, channel, collected, sent>>

LoadPending ==
  /\ Goto("loadPending", IF pending THEN "retain" ELSE "broadcast")
  /\ UNCHANGED <<shared, threadVars, sinceStop>>

\* Mutant of Filtered: the last request of the SYNC message is let through.
FilteredLate(batch) ==
  FoldLeft(LAMBDA acc, r :
             IF r.seq < acc.seen[r.client] THEN acc
               ELSE [seen |-> [acc.seen EXCEPT ![r.client] = NoRequest],
                     kept |-> Append(acc.kept, r)],
           [seen |-> seen, kept |-> << >>], batch)

\* retain(): a request up to the last one its client has in the SYNC message is
\* dropped; a later one ends the filtering of its client.
Filtered(batch) ==
  FoldLeft(LAMBDA acc, r :
             IF r.seq <= acc.seen[r.client] THEN acc
               ELSE [seen |-> [acc.seen EXCEPT ![r.client] = NoRequest],
                     kept |-> Append(acc.kept, r)],
           [seen |-> seen, kept |-> << >>], batch)

\* The emptiness of the list is found out under its lock, which is then released.
\* There is a list: no other thread clears it.
Retain ==
  LET f == Filtered(proposal.batch)
  IN  /\ pc = "retain" /\ seen # NoList
      /\ seen' = f.seen
      /\ proposal' = [proposal EXCEPT !.batch = f.kept]
      /\ pc' = IF \A c \in Client : f.seen[c] = NoRequest THEN "clear" ELSE "broadcast"
      /\ UNCHANGED <<guard, pending, replicaVars, leads, isLeader, channel, collected,
                     accumulated, due, sent, sinceStop>>

SyncMessagesClear ==
  /\ Goto("clear", "broadcast")
  /\ seen' = NoList /\ pending' = FALSE
  /\ UNCHANGED <<guard, replicaVars, leads, threadVars, sinceStop>>

Broadcast ==
  /\ Goto("broadcast", "loop")
  /\ sent' = sent \o [i \in DOMAIN proposal.batch |->
                        [view |-> proposal.view, seq |-> proposal.seq, rq |-> proposal.batch[i]]]
  /\ proposal' = NoProposal
  /\ UNCHANGED <<shared, isLeader, channel, collected, accumulated, due, sinceStop>>

-----------------------------------------------------------------------------
FinalizeViewChange ==
  \/ AdvanceView
  \/ InstallView
  \/ \E rqs \in SyncBatches : InstallSyncMessageRequests(rqs)
  \/ FinishViewChange

ReplicaThread ==
  \/ ExecutionSuspended
  \/ ExecutionResumed
  \/ MakeAvailable
  \/ SwitchToSync
  \/ FinalizeViewChange

ProposerThread ==
  \/ Check
  \/ BlockUntilReady
  \/ ReadView
  \/ Receive
  \/ ReceiveTimesOut
  \/ ProcessReceived
  \/ CheckAgain
  \/ NoSeqNo
  \/ \E s \in guard.seqs : NextSeqNo(s)
  \/ LoadPending
  \/ Retain
  \/ SyncMessagesClear
  \/ Broadcast

Next == ReplicaThread \/ ProposerThread \/ TimePasses

Spec == Init /\ [][Next]_vars

FairSpec ==
  /\ Spec
  /\ WF_vars(ProposerThread) /\ WF_vars(TimePasses)
  /\ WF_vars(ExecutionResumed) /\ WF_vars(MakeAvailable) /\ WF_vars(FinalizeViewChange)

-----------------------------------------------------------------------------
(***************************************************************************)
(* A replica proposes only in the views it leads, though the proposer      *)
(* thread looks at the synchronizer's view, at the lock and at the         *)
(* sequence numbers one after the other while the view changes.            *)
(***************************************************************************)
LeadsWhatItProposes ==
  pc \in {"loadPending", "retain", "clear", "broadcast"} => proposal.view \in leads

(***************************************************************************)
(* The requests of the SYNC message should not be repeated in its view: a  *)
(* batch holds one of them only where a later request of the same client   *)
(* has been proposed before it.                                            *)
(***************************************************************************)
NotRepeated ==
  \A i \in DOMAIN sent : sent[i].rq \in synced[sent[i].view] =>
    \E j \in 1..(i - 1) : /\ sent[j].rq.client = sent[i].rq.client
                          /\ sent[j].rq.seq > sent[i].rq.seq

(***************************************************************************)
(* A replica that changes views does not constantly propose new batches:   *)
(* after the lock at most the one proposal goes out that had passed both   *)
(* of the checks of the lock before.                                       *)
(***************************************************************************)
StopsProposing == sinceStop <= 1

(***************************************************************************)
(* No request is lost or doubled on its way through the thread: each one   *)
(* that has arrived is waiting, proposed once, or one a SYNC message has   *)
(* made superfluous.                                                       *)
(***************************************************************************)
EachRequestOnce ==
  LET waiting == accumulated \o collected \o proposal.batch
                   \o FlattenSeq(channel) \o [i \in DOMAIN sent |-> sent[i].rq]
  IN  /\ \A i, j \in DOMAIN waiting : waiting[i] = waiting[j] => i = j
      /\ \A r \in ToSet(FlattenSeq(Arrivals)) \ ToSet(waiting) :
           \E v \in 1..view : \E q \in synced[v] : q.client = r.client /\ r.seq <= q.seq

(***************************************************************************)
(* What a comment of the code says, and the code does not do.              *)
(* process_request_message_leader(): the requests a leader has taken will  *)
(* always be proposed, since it is a correct replica.                      *)
(***************************************************************************)
WillBeProposed ==
  \A r \in ToSet(FlattenSeq(Arrivals)) :
    r \in ToSet(accumulated) ~> r \notin ToSet(accumulated)
=============================================================================
