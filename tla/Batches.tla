------------------------------ MODULE Batches -------------------------------
(***************************************************************************)
(* The batches of one consensus instance that several leaders propose to:  *)
(* the WorkingDecisionLog that stores them in the order of the leader set  *)
(* whatever the order they arrive in, the Proof it ends up as, and the     *)
(* proof that is rebuilt from its messages, which the persistent log and   *)
(* the network return in an order of their own.                            *)
(*                                                                         *)
(* A request is its digest, and a batch the sequence of its requests.  The *)
(* digest of a PRE-PREPARE covers its contents, so it is its batch; it     *)
(* does not cover who sent it.                                             *)
(***************************************************************************)
EXTENDS HashSpace, FiniteSets, SequencesExt

CONSTANTS
  Replica,      \* the replicas whose logs are modelled
  LeaderSet,    \* the leaders of the view, in order
  MaxDigest,    \* the largest digest
  Batch,        \* the batches a leader may send
  Votes         \* the PREPAREs and COMMITs of the instance

VARIABLES
  log,          \* the working log of each replica: the batches in the order of the
                \* leaders, and the client requests in that of arrival
  proof,        \* what its log has been finished as, Unfinished before that
  received,     \* history: the batch each leader has sent it
  executed,     \* the requests it has handed over for execution
  copy          \* a proof made of the messages of its proof

batchVars == <<log, received, proof, executed, copy>>

NoBatch == <<-1>>

Unfinished == [ordering |-> << >>, requests |-> -1]

Failed == [ordering |-> << >>, requests |-> -2]

Position == 1..Len(LeaderSet)

ASSUME BatchesAssumption ==
  /\ MaxDigest \in Nat
  /\ LeaderSet \in Seq(Nat) /\ Len(LeaderSet) > 0
  /\ \A i, j \in Position : LeaderSet[i] = LeaderSet[j] => i = j
  /\ Batch \subseteq Seq(0..MaxDigest)
  /\ \A m \in Votes : m.kind \in {"Prepare", "Commit"}

Requests(batch) == {batch[i] : i \in DOMAIN batch}

-----------------------------------------------------------------------------
(***************************************************************************)
(* The working log.                                                        *)
(***************************************************************************)
SliceOf(i) == Slice(MaxDigest, Len(LeaderSet), i)

\* Of the batches of others the requests are compared with the slice of the
\* leader; it is the proposer that keeps its own to its slice.
InSlice(i, batch) ==
  \A d \in Requests(batch) : IsRequestInHashSpace(d, SliceOf(i))

HasAll(l) == \A i \in Position : l.batches[i] # NoBatch

BatchInit ==
  /\ log = [r \in Replica |-> [batches |-> [i \in Position |-> NoBatch], clientRqs |-> << >>]]
  /\ received = [r \in Replica |-> [i \in Position |-> NoBatch]]
  /\ proof = [r \in Replica |-> Unfinished]
  /\ executed = [r \in Replica |-> << >>]
  /\ copy = [r \in Replica |-> Unfinished]

\* Mutant of ProcessPrePrepare: the batches are stored in the order they come in.
ProcessPrePrepareAsItComes(r, i, batch) ==
  LET next == Cardinality({j \in Position : log[r].batches[j] # NoBatch}) + 1
  IN  /\ ~ HasAll(log[r])
      /\ InSlice(i, batch)
      /\ received[r][i] = NoBatch
      /\ log' = [log EXCEPT ![r] = [batches   |-> [@.batches EXCEPT ![next] = batch],
                                    clientRqs |-> @.clientRqs \o batch]]
      /\ received' = [received EXCEPT ![r][i] = batch]
      /\ UNCHANGED <<proof, executed, copy>>

\* The PRE-PREPARE of the i-th leader; one outside its slice, and a second one,
\* are errors and change nothing.
ProcessPrePrepare(r, i, batch) ==
  /\ ~ HasAll(log[r])
  /\ InSlice(i, batch)
  /\ received[r][i] = NoBatch
  /\ log' = [log EXCEPT ![r] = [batches   |-> [@.batches EXCEPT ![i] = batch],
                                clientRqs |-> @.clientRqs \o batch]]
  /\ received' = [received EXCEPT ![r][i] = batch]
  /\ UNCHANGED <<proof, executed, copy>>

-----------------------------------------------------------------------------
(***************************************************************************)
(* Proofs: the metadata of the decision, its PRE-PREPAREs in order, and    *)
(* its votes.                                                              *)
(***************************************************************************)
Proof(ordering, count, prePrepares, votes) ==
  [ordering |-> ordering, requests |-> count, prePrepares |-> prePrepares, votes |-> votes]

PrePrepareOf(batch) == [kind |-> "PrePrepare", batch |-> batch]

ArePrePreparesOrdered(p) ==
  /\ Len(p.ordering) = Len(p.prePrepares)
  /\ \A i \in DOMAIN p.ordering : p.ordering[i] = p.prePrepares[i].batch

\* What a proof is executed as.
RequestsInProof(p) ==
  FlattenSeq([i \in DOMAIN p.prePrepares |-> p.prePrepares[i].batch])

\* finish_processing_batch(): the PRE-PREPAREs and the requests in the order of
\* the leaders.
CompletedBatch(l) ==
  [ordering |-> l.batches, clientRequests |-> FlattenSeq(l.batches),
   prePrepares |-> [i \in Position |-> PrePrepareOf(l.batches[i])]]

\* finalize_batch().
Finish(r) ==
  LET batch == CompletedBatch(log[r])
  IN  /\ proof[r] = Unfinished /\ HasAll(log[r])
      /\ executed' = [executed EXCEPT ![r] = batch.clientRequests]
      /\ proof' = [proof EXCEPT ![r] = Proof(batch.ordering, Len(batch.clientRequests),
                                             batch.prePrepares, Votes)]
      /\ UNCHANGED <<log, received, copy>>

\* into_parts() and decompose_proof(): the messages, of which the order is lost.
PrePreparesIn(messages) == SelectSeq(messages, LAMBDA m : m.kind = "PrePrepare")

\* The place of a PRE-PREPARE: the first with its digest.
PlaceIn(ordering, m) ==
  CHOOSE i \in DOMAIN ordering : /\ ordering[i] = m.batch
                                 /\ \A j \in 1..(i - 1) : ordering[j] # m.batch

\* Mutant of InitFromMessages: the messages are taken in the order they come in.
InitFromMessagesAsTheyCome(ordering, count, messages) ==
  Proof(ordering, count, PrePreparesIn(messages), Votes)

\* It fails unless the PRE-PREPAREs fill all the places, each the first with its
\* digest.
InitFromMessages(ordering, count, messages) ==
  LET pre == PrePreparesIn(messages)
      at(i) == {j \in DOMAIN pre : PlaceIn(ordering, pre[j]) = i}
  IN  IF \/ \E j \in DOMAIN pre : \A i \in DOMAIN ordering : ordering[i] # pre[j].batch
         \/ \E i \in DOMAIN ordering : at(i) = {}
        THEN Failed
        ELSE Proof(ordering, count, [i \in DOMAIN ordering |-> pre[Max(at(i))]],
                   {m \in ToSet(messages) : m.kind # "PrePrepare"})

\* The messages of a proof after they have been stored: the PRE-PREPAREs in the
\* given order.
MessagesOf(p, order) ==
  [i \in Position |-> p.prePrepares[order[i]]] \o SetToSeq(p.votes)

Orders == {s \in [Position -> Position] : IsInjective(s)}

Rebuild(r, order) ==
  /\ proof[r] # Unfinished /\ copy[r] = Unfinished
  /\ copy' = [copy EXCEPT ![r] = InitFromMessages(proof[r].ordering, proof[r].requests,
                                                  MessagesOf(proof[r], order))]
  /\ UNCHANGED <<log, received, proof, executed>>

\* Vec::swap_remove(): the last element takes the place of the one removed.
SwapRemove(s, i) == SubSeq([s EXCEPT ![i] = s[Len(s)]], 1, Len(s) - 1)

\* One round of order_pre_prepares(), for the next digest of the ordering.
TakeNext(acc, digest) ==
  LET found == {i \in DOMAIN acc.left : acc.left[i].batch = digest}
  IN  IF acc.failed \/ found = {} THEN [acc EXCEPT !.failed = TRUE]
        ELSE [acc EXCEPT !.left    = SwapRemove(@, Min(found)),
                         !.ordered = Append(@, acc.left[Min(found)])]

OrderPrePrepares(p) ==
  LET res == FoldLeft(TakeNext, [left |-> p.prePrepares, ordered |-> << >>, failed |-> FALSE],
                      p.ordering)
  IN  IF Len(p.ordering) # Len(p.prePrepares) \/ res.failed THEN Failed
        ELSE [p EXCEPT !.prePrepares = res.ordered]

\* A proof whose PRE-PREPAREs are in the given order is put in order.
Reorder(r, order) ==
  /\ proof[r] # Unfinished /\ copy[r] = Unfinished
  /\ copy' = [copy EXCEPT ![r] =
                OrderPrePrepares([proof[r] EXCEPT !.prePrepares =
                                    PrePreparesIn(MessagesOf(proof[r], order))])]
  /\ UNCHANGED <<log, received, proof, executed>>

BatchNext ==
  \E r \in Replica :
    \/ \E i \in Position, batch \in Batch : ProcessPrePrepare(r, i, batch)
    \/ Finish(r)
    \/ \E order \in Orders : Rebuild(r, order) \/ Reorder(r, order)

BatchSpec == BatchInit /\ [][BatchNext]_batchVars

-----------------------------------------------------------------------------
(***************************************************************************)
(* No request is executed twice in an instance, though every leader hears  *)
(* of every request: the batches a log holds share no request.             *)
(***************************************************************************)
NoRequestTwice ==
  \A r \in Replica : \A i, j \in Position :
    /\ i # j
    /\ log[r].batches[i] # NoBatch
    /\ log[r].batches[j] # NoBatch
    => Requests(log[r].batches[i]) \cap Requests(log[r].batches[j]) = {}

(***************************************************************************)
(* Replicas that have been sent the same batches compute the same digest,  *)
(* so that their votes are for one value, and execute the same requests in *)
(* the same order, whatever the order in which the batches of the leaders  *)
(* reached them.                                                           *)
(***************************************************************************)
SameBatchesSameOrder ==
  \A r, s \in Replica :
    proof[r] # Unfinished /\ proof[s] # Unfinished /\ received[r] = received[s] =>
      proof[r].ordering = proof[s].ordering /\ executed[r] = executed[s]

(***************************************************************************)
(* A proof that is rebuilt from its messages, or put in order again, is    *)
(* the proof it was: executing it is executing what was decided.  It can   *)
(* only fail to be rebuilt, and does so only where two leaders have sent   *)
(* the same batch, which none but the empty one can be.                    *)
(***************************************************************************)
RebuiltAsDecided ==
  \A r \in Replica : copy[r] # Unfinished =>
    IF copy[r] = Failed
      THEN \E i, j \in Position : i # j /\ log[r].batches[i] = << >> /\ log[r].batches[j] = << >>
      ELSE /\ ArePrePreparesOrdered(copy[r])
           /\ RequestsInProof(copy[r]) = executed[r]
           /\ copy[r].requests = Len(executed[r])
           /\ copy[r].votes = Votes
=============================================================================
