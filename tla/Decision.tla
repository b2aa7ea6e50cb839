------------------------------ MODULE Decision ------------------------------
(***************************************************************************)
(* One consensus instance as a single replica runs it: the state machine   *)
(* ConsensusDecision together with its MessageQueue and its                *)
(* WorkingDecisionLog.                                                     *)
(*                                                                         *)
(* The module has no variables.  It defines the operations of the state    *)
(* machine on a decision record d; the modules Instance (all the replicas, *)
(* one instance) and Consensus (one replica, a window of instances) make   *)
(* them into actions.                                                      *)
(*                                                                         *)
(* A view is the record [seq, leaders]; a message is the record            *)
(* [kind, from, view, seq, value].  The value of a PRE-PREPARE is a batch, *)
(* that of a PREPARE or COMMIT the digest of the whole instance.  Hashing  *)
(* is taken to be injective, so the digest of an instance is the function  *)
(* that gives every leader the batch it proposed.                          *)
(***************************************************************************)
EXTENDS Integers, FiniteSets, Sequences

CONSTANTS
  Quorum,       \* votes that complete the prepare and the commit phase
  Batch,        \* the batches a leader may propose
  NoBatch,      \* stands for a PRE-PREPARE that has not been received
  OutOfSlice    \* batches holding a request outside the proposer's hash slice

Kinds == {"PrePrepare", "Prepare", "Commit"}

Phases == {"Initialize", "PrePreparing", "Preparing", "Committing", "Decided"}

WorkingPhases == {"PrePreparing", "Preparing", "Committing"}

\* The queue that poll() serves in a working phase.
AwaitedKind(phase) ==
  CASE phase = "PrePreparing" -> "PrePrepare"
    [] phase = "Preparing"    -> "Prepare"
    [] phase = "Committing"   -> "Commit"

EmptyQueue == [k \in Kinds |-> << >>]

InitDecision(seq, view, queue) ==
  [seq       |-> seq,
   phase     |-> "Initialize",
   received  |-> 0,
   batches   |-> [l \in view.leaders |-> NoBatch],
   prepares  |-> {},
   commits   |-> {},
   queue     |-> queue,
   getQueue  |-> \E k \in Kinds : queue[k] # << >>]

\* The digest of the instance; it exists once every leader's batch is in.
InstanceDigest(d) == d.batches

(***************************************************************************)
(* poll(): what it finds to do, and its effect on the decision.            *)
(***************************************************************************)
PollTriesPropose(d) == d.phase = "Initialize"

PollFindsMessage(d) ==
  /\ d.phase \in WorkingPhases
  /\ d.getQueue
  /\ d.queue[AwaitedKind(d.phase)] # << >>

NextMessage(d) == Head(d.queue[AwaitedKind(d.phase)])

AfterTryPropose(d) == [d EXCEPT !.phase = "PrePreparing"]

AfterNextMessage(d) == [d EXCEPT !.queue[AwaitedKind(d.phase)] = Tail(@)]

\* poll() with nothing to hand out lowers getQueue, except in phase Decided
\* (and Initialize, where poll() does something else).
AfterRecv(d) ==
  [d EXCEPT !.getQueue = IF d.phase \in WorkingPhases THEN FALSE ELSE @]

SkipInitPhase(d) == [d EXCEPT !.phase = "PrePreparing", !.received = 0]

(***************************************************************************)
(* process_message(): the ways it can end.  Queues, Ignores and VotesTwice *)
(* are its early returns; Accepts is what is left.                         *)
(***************************************************************************)
Queues(d, m) ==
  \/ d.phase = "Initialize"
  \/ d.phase = "PrePreparing" /\ m.kind \in {"Prepare", "Commit"}
  \/ d.phase = "Preparing" /\ m.kind = "Commit"

\* Mutant of Enqueue: queue() forgets to raise get_queue.
EnqueueSilently(d, m) == [d EXCEPT !.queue[m.kind] = Append(@, m)]

Enqueue(d, m) ==
  [d EXCEPT !.queue[m.kind] = Append(@, m), !.getQueue = TRUE]

ForThisInstance(d, m, view) == m.view = view.seq /\ m.seq = d.seq

IgnoresPrePrepare(d, m, view) ==
  \/ ~ ForThisInstance(d, m, view)
  \/ m.from \notin view.leaders

\* Mutant of IgnoresVote: the digest of the vote is not compared with ours.
IgnoresVoteAnyDigest(d, m, view) == ~ ForThisInstance(d, m, view)

IgnoresVote(d, m, view) ==
  \/ ~ ForThisInstance(d, m, view)
  \/ m.value # InstanceDigest(d)

Ignores(d, m, view) ==
  \/ d.phase = "PrePreparing" /\ m.kind = "PrePrepare" /\ IgnoresPrePrepare(d, m, view)
  \/ d.phase = "Preparing"  /\ m.kind = "PrePrepare"
  \/ d.phase = "Preparing"  /\ m.kind = "Prepare" /\ IgnoresVote(d, m, view)
  \/ d.phase = "Committing" /\ m.kind # "Commit"
  \/ d.phase = "Committing" /\ m.kind = "Commit" /\ IgnoresVote(d, m, view)
  \/ d.phase = "Decided"

\* The errors of the working log: a batch outside the hash slice of its
\* proposer (our own batches are not inspected), and a second vote.
Rejects(d, m, self) ==
  \/ /\ m.kind = "PrePrepare"
     /\ \/ m.from # self /\ m.value \in OutOfSlice
        \/ d.batches[m.from] # NoBatch
  \/ m.kind = "Prepare" /\ m.from \in d.prepares
  \/ m.kind = "Commit"  /\ m.from \in d.commits

Considers(d, m, view) == ~ Queues(d, m) /\ ~ Ignores(d, m, view)

Errs(d, m, view, self) == Considers(d, m, view) /\ Rejects(d, m, self)

Accepts(d, m, view, self) == Considers(d, m, view) /\ ~ Rejects(d, m, self)

\* Mutant of CompletesPhase: off by one, a vote too few ends a voting phase.
CompletesPhaseEarly(d, m, view) ==
  d.received + 1 = IF d.phase = "PrePreparing"
                     THEN Cardinality(view.leaders) ELSE Quorum - 1

\* Mutant of CompletesPhase: every phase waits for as many messages as there are
\* leaders.
CompletesPhaseOfLeaders(d, m, view) == d.received + 1 = Cardinality(view.leaders)

\* Does the accepted message m complete the current phase?
CompletesPhase(d, m, view) ==
  d.received + 1 = IF d.phase = "PrePreparing"
                     THEN Cardinality(view.leaders) ELSE Quorum

Accept(d, m) ==
  CASE m.kind = "PrePrepare" -> [d EXCEPT !.batches[m.from] = m.value]
    [] m.kind = "Prepare"    -> [d EXCEPT !.prepares = @ \cup {m.from}]
    [] OTHER                 -> [d EXCEPT !.commits = @ \cup {m.from}]

FollowingPhase(phase) ==
  CASE phase = "PrePreparing" -> "Preparing"
    [] phase = "Preparing"    -> "Committing"
    [] phase = "Committing"   -> "Decided"

\* Mutant of AfterAccept: the next phase starts from the count of this one.
AfterAcceptKeepingCount(d, m, view) ==
  IF CompletesPhase(d, m, view)
    THEN [Accept(d, m) EXCEPT !.phase = FollowingPhase(d.phase), !.getQueue = TRUE]
    ELSE [Accept(d, m) EXCEPT !.received = @ + 1]

\* Mutant of AfterAccept: a new phase does not look at what was queued for it.
AfterAcceptWithoutSignal(d, m, view) ==
  IF CompletesPhase(d, m, view)
    THEN [Accept(d, m) EXCEPT !.phase = FollowingPhase(d.phase), !.received = 0]
    ELSE [Accept(d, m) EXCEPT !.received = @ + 1]

AfterAccept(d, m, view) ==
  IF CompletesPhase(d, m, view)
    THEN [Accept(d, m) EXCEPT !.phase = FollowingPhase(d.phase),
                              !.received = 0,
                              !.getQueue = IF d.phase = "Committing" THEN @ ELSE TRUE]
    ELSE [Accept(d, m) EXCEPT !.received = @ + 1]

\* Mutant of VotesSent: the digest is taken before the last batch is stored.
VotesSentBeforeStoring(d, m, view, self) ==
  IF CompletesPhase(d, m, view) /\ d.phase # "Committing"
    THEN {[kind  |-> IF d.phase = "PrePreparing" THEN "Prepare" ELSE "Commit",
           from  |-> self, view |-> view.seq, seq |-> d.seq,
           value |-> InstanceDigest(d)]}
    ELSE {}

\* The votes broadcast when a phase completes: a PREPARE for the digest of the
\* instance, then a COMMIT for it (speculatively serialised or not, the COMMIT
\* has the same contents).
VotesSent(d, m, view, self) ==
  IF CompletesPhase(d, m, view) /\ d.phase # "Committing"
    THEN {[kind  |-> IF d.phase = "PrePreparing" THEN "Prepare" ELSE "Commit",
           from  |-> self, view |-> view.seq, seq |-> d.seq,
           value |-> InstanceDigest(Accept(d, m))]}
    ELSE {}

IsFinalizeable(d) == d.phase = "Decided"
=============================================================================
