--------------------------- MODULE StateTransfer ----------------------------
(***************************************************************************)
(* The collaborative state transfer protocol of the replicas in Correct: a *)
(* replica asks the others for the sequence number of their checkpoint     *)
(* and, where a quorum of them is ahead of it, for the checkpoint itself.  *)
(* Each replica also takes checkpoints of its own and answers the others.  *)
(* The members of Faulty ask for state unasked, and answer every request   *)
(* at most once, with anything.                                            *)
(*                                                                         *)
(* A checkpoint is [seq, digest]; the digest is that of the application's  *)
(* state, which several checkpoints in a row may have in common.  The      *)
(* CollabStateTransfer of a replica is a record c with fields              *)
(*   currSeq    sequence number of its requests                            *)
(*   phase, count   its ProtoPhase and the counter in it                   *)
(*   waiting    the requests that wait for a checkpoint                    *)
(*   partial, complete   its CheckpointState: the checkpoint being taken   *)
(*              and the last one taken, if any                             *)
(*   ids        received_state_ids: per digest the latest seq, and a count *)
(*   states     received_states: the same for the states themselves        *)
(* Timeouts do nothing: handle_timeout() has its body commented out.       *)
(***************************************************************************)
EXTENDS Integers, FiniteSets

CONSTANTS
  Node, Faulty,
  F,             \* faults tolerated
  Digest,
  AppDigest,     \* digest of the application's state at each sequence number
  MaxSeq,        \* last checkpoint
  Bounds         \* what each replica, and the faulty ones, may do at most

VARIABLES
  cst,           \* the CollabStateTransfer of each correct replica
  running,       \* is it running state transfer, rather than ordering?
  executed,      \* checkpoints its application has passed, transferred ones included
  taken,         \* checkpoints the correct replicas have taken (history)
  installed,     \* states it has handed to the application
  net,
  bound          \* the one of Bounds that applies

vars == <<cst, running, executed, taken, installed, net, bound>>

Correct == Node \ Faulty
QuorumSize == 2 * F + 1
NoCheckpoint == [seq |-> 0]
NoSeq == 0
Absent == [seq |-> 0, count |-> 0]
NoneReceived == [d \in Digest |-> Absent]
Checkpoint(s) == [seq |-> s, digest |-> AppDigest[s]]

ASSUME StateTransferAssumption ==
  /\ F \in Nat /\ MaxSeq \in Nat /\ IsFiniteSet(Node)
  /\ Faulty \subseteq Node /\ Cardinality(Faulty) <= F
  /\ AppDigest \in [1..MaxSeq -> Digest]
  /\ Bounds \subseteq [asks : [Correct -> Nat], checkpoints : 0..MaxSeq, digests : SUBSET Digest,
                    faultyAsks : SUBSET [from : Faulty, to : Correct, cst : Nat]]

Request(kind, from, to, seq) == [kind |-> kind, from |-> from, to |-> to, cst |-> seq]

\* The faulty replicas may ask for state as well: their requests, which arrive
\* at any time or never, are on their way from the beginning.
Init ==
  /\ cst = [r \in Correct |->
              [currSeq |-> 0, phase |-> "Init", count |-> 0, waiting |-> {},
               partial |-> NoSeq, complete |-> NoCheckpoint,
               ids |-> NoneReceived, states |-> NoneReceived]]
  /\ running = [r \in Correct |-> FALSE]
  /\ executed = [r \in Correct |-> 0]
  /\ taken = {}
  /\ installed = [r \in Correct |-> {}]
  /\ bound \in Bounds
  /\ net = {Request("RequestState", q.from, q.to, q.cst) : q \in bound.faultyAsks}

RequestKinds == {"RequestStateCid", "RequestState"}

Has(c) == c.complete # NoCheckpoint

Reply(kind, from, to, seq, checkpoint) ==
  [kind |-> kind, from |-> from, to |-> to, cst |-> seq, checkpoint |-> checkpoint]

Broadcast(kind, r, seq) == {Request(kind, r, n, seq) : n \in Node \ {r}}

\* request_latest_consensus_seq_no() and request_latest_state().
AskForSeq(c) ==
  [c EXCEPT !.ids = NoneReceived, !.currSeq = @ + 1, !.phase = "ReceivingCid", !.count = 0,
            !.waiting = {}]

\* Mutant of AskForState: the replies counted so far are not forgotten.
AskForStateCounting(c) ==
  [c EXCEPT !.states = NoneReceived, !.currSeq = @ + 1, !.phase = "ReceivingState"]

AskForState(c) ==
  [c EXCEPT !.states = NoneReceived, !.currSeq = @ + 1, !.phase = "ReceivingState", !.count = 0]

-----------------------------------------------------------------------------
(***************************************************************************)
(* Answering requests: a replica without a checkpoint keeps requests for   *)
(* its state until it has one; one that is itself receiving drops them.    *)
(***************************************************************************)
SeqAnswer(r, c, m) == Reply("ReplyStateCid", r, m.from, m.cst, c.complete)

StateAnswers(r, c, requests) ==
  {Reply("ReplyState", r, q.from, q.cst, c.complete) : q \in requests}

Keep(c, requests) == [c EXCEPT !.phase = "WaitingCheckpoint", !.waiting = @ \cup requests]

\* process_pending_state_requests(): of each node only the latest one counts.
Latest(requests) == {q \in requests : ~ \E p \in requests : p.from = q.from /\ p.cst > q.cst}

\* Mutant of PendingDone: the phase is not left.
PendingKept(c) == c

PendingDone(c) ==
  IF Has(c) THEN [c EXCEPT !.phase = "Init", !.waiting = {}]
            ELSE [c EXCEPT !.waiting = Latest(@)]

PendingAnswers(r, c) == IF Has(c) THEN StateAnswers(r, c, Latest(c.waiting)) ELSE {}

-----------------------------------------------------------------------------
(***************************************************************************)
(* Counting replies.                                                       *)
(***************************************************************************)
\* Mutant of IsCurrent: replies to earlier requests count.
IsCurrentOrOlder(c, m) == m.cst <= c.currSeq

IsCurrent(c, m) == m.cst = c.currSeq

CountedId(c, checkpoint) ==
  LET known == c.ids[checkpoint.digest]
      entry == CASE known = Absent \/ checkpoint.seq > known.seq ->
                      [seq |-> checkpoint.seq, count |-> 1]
                 [] known # Absent /\ checkpoint.seq = known.seq ->
                      [known EXCEPT !.count = @ + 1]
                 [] known # Absent /\ checkpoint.seq < known.seq -> known
  IN  [c EXCEPT !.ids[checkpoint.digest] = entry]

CountedState(c, checkpoint) ==
  LET known == c.states[checkpoint.digest]
  IN  [c EXCEPT !.states[checkpoint.digest] =
         [seq   |-> IF checkpoint.seq > known.seq THEN checkpoint.seq ELSE known.seq,
          count |-> known.count + 1]]

\* Digests with the highest count, of which the order of a hash map picks one.
Leading(received) ==
  {d \in Digest : received[d] # Absent /\ \A e \in Digest : received[e].count <= received[d].count}

EnoughStates(count) == count > F

-----------------------------------------------------------------------------
Update(r, c, isRunning, sends, gone) ==
  /\ cst' = [cst EXCEPT ![r] = c]
  /\ running' = [running EXCEPT ![r] = isRunning]
  /\ net' = (net \ gone) \cup {m \in sends : m.to \in Correct \/ m.kind \in RequestKinds}
  /\ UNCHANGED bound

\* The replica is told to transfer state: it starts, or a view change needs it.
RequestLatestState(r) ==
  LET c == AskForSeq(cst[r])
  IN  /\ ~ running[r] /\ cst[r].currSeq < bound.asks[r]
      /\ Update(r, c, TRUE, Broadcast("RequestStateCid", r, c.currSeq), {})
      /\ UNCHANGED <<executed, taken, installed>>

ReceiveRequestSeq(r, m) ==
  /\ m \in net /\ m.to = r /\ m.kind = "RequestStateCid"
  /\ Update(r, cst[r], running[r], {SeqAnswer(r, cst[r], m)}, {m})
  /\ UNCHANGED <<executed, taken, installed>>

ReceiveRequestState(r, m) ==
  LET c == cst[r]
      q == [from |-> m.from, cst |-> m.cst]
  IN  /\ m \in net /\ m.to = r /\ m.kind = "RequestState"
      /\ CASE c.phase = "WaitingCheckpoint" \/ (c.phase = "Init" /\ ~ Has(c)) ->
                Update(r, Keep(c, {q}), running[r], {}, {m})
           [] c.phase = "Init" /\ Has(c) ->
                Update(r, c, running[r], StateAnswers(r, c, {q}), {m})
           [] c.phase \in {"ReceivingCid", "ReceivingState"} -> Update(r, c, running[r], {}, {m})
      /\ UNCHANGED <<executed, taken, installed>>

IsReply(r, m) == m \in net /\ m.to = r /\ m.kind \in {"ReplyStateCid", "ReplyState"}

\* A reply finds the protocol at rest: it is dropped, and what waits for a
\* checkpoint is tried again.
ReceiveIdle(r, m) ==
  LET c == cst[r]
  IN  /\ IsReply(r, m) /\ c.phase \in {"Init", "WaitingCheckpoint"}
      /\ IF c.phase = "Init" THEN Update(r, c, running[r], {}, {m})
           ELSE Update(r, PendingDone(c), running[r], PendingAnswers(r, c), {m})
      /\ UNCHANGED <<executed, taken, installed>>

\* A reply of another request or kind.
ReceiveOther(r, m) ==
  LET c == cst[r]
  IN  /\ IsReply(r, m)
      /\ \/ c.phase = "ReceivingCid" /\ (~ IsCurrent(c, m) \/ m.kind # "ReplyStateCid")
         \/ c.phase = "ReceivingState" /\ (~ IsCurrent(c, m) \/ m.kind # "ReplyState")
      /\ Update(r, c, running[r], {}, {m})
      /\ UNCHANGED <<executed, taken, installed>>

CountedReply(c, m) ==
  [IF m.checkpoint = NoCheckpoint THEN c ELSE CountedId(c, m.checkpoint) EXCEPT !.count = @ + 1]

\* Mutant of SeqNoFound: the phase is not left when nothing is to be received.
SeqNoFoundWaiting(r, c, seq, m) ==
  IF c.complete.seq < seq
    THEN Update(r, AskForState(c), TRUE, Broadcast("RequestState", r, c.currSeq + 1), {m})
    ELSE Update(r, c, FALSE, {}, {m})

\* The status SeqNo: the state is asked for if it is newer than ours.
SeqNoFound(r, c, seq, m) ==
  IF c.complete.seq < seq
    THEN Update(r, AskForState(c), TRUE, Broadcast("RequestState", r, c.currSeq + 1), {m})
    ELSE Update(r, [c EXCEPT !.phase = "Init", !.count = 0], FALSE, {}, {m})

\* With a quorum of replies either nobody has a checkpoint, or a quorum has the
\* same; otherwise the replica goes on waiting.
ReceiveStateCid(r, m) ==
  LET c == CountedReply(cst[r], m)
  IN  /\ IsReply(r, m) /\ cst[r].phase = "ReceivingCid"
      /\ IsCurrent(cst[r], m) /\ m.kind = "ReplyStateCid"
      /\ CASE c.count < QuorumSize -> Update(r, c, TRUE, {}, {m})
           [] c.count >= QuorumSize /\ Leading(c.ids) = {} -> SeqNoFound(r, c, 0, m)
           [] c.count >= QuorumSize /\ Leading(c.ids) # {} ->
                \E d \in Leading(c.ids) :
                  IF c.ids[d].count >= QuorumSize THEN SeqNoFound(r, c, c.ids[d].seq, m)
                                                  ELSE Update(r, c, TRUE, {}, {m})
      /\ UNCHANGED <<executed, taken, installed>>

\* After f + 1 states the one received most often is installed, or all are
\* asked for again.
ReceiveState(r, m) ==
  LET c == [CountedState(cst[r], m.checkpoint) EXCEPT !.count = @ + 1]
  IN  /\ IsReply(r, m) /\ cst[r].phase = "ReceivingState"
      /\ IsCurrent(cst[r], m) /\ m.kind = "ReplyState"
      /\ IF c.count <= F
           THEN Update(r, c, TRUE, {}, {m}) /\ UNCHANGED <<executed, taken, installed>>
           ELSE \E d \in Leading(c.states) :
                  IF EnoughStates(c.states[d].count)
                    THEN /\ Update(r, [c EXCEPT !.phase = "Init", !.count = 0, !.states = NoneReceived],
                                   FALSE, {}, {m})
                         /\ installed' = [installed EXCEPT ![r] =
                              @ \cup {[seq |-> c.states[d].seq, digest |-> d]}]
                         /\ executed' = [executed EXCEPT ![r] = c.states[d].seq]
                         /\ UNCHANGED taken
                    ELSE /\ c.currSeq < bound.asks[r]
                         /\ Update(r, AskForState(c), TRUE,
                                   Broadcast("RequestState", r, c.currSeq + 1), {m})
                         /\ UNCHANGED <<executed, taken, installed>>

-----------------------------------------------------------------------------
\* The application reaches a checkpoint: handle_app_state_requested().  While
\* one is being taken another one is not begun.
AppStateRequested(r) ==
  LET c == cst[r]
  IN  /\ ~ running[r] /\ executed[r] < bound.checkpoints
      /\ executed' = [executed EXCEPT ![r] = @ + 1]
      /\ cst' = [cst EXCEPT ![r].partial = IF c.partial = NoSeq THEN executed'[r] ELSE @]
      /\ UNCHANGED <<running, taken, installed, net, bound>>

\* The application delivers its state: handle_state_received_from_app().
StateReceivedFromApp(r) ==
  LET c == [cst[r] EXCEPT !.partial = NoSeq, !.complete = Checkpoint(cst[r].partial)]
  IN  /\ cst[r].partial # NoSeq
      /\ IF c.phase = "WaitingCheckpoint"
           THEN Update(r, PendingDone(c), running[r], PendingAnswers(r, c), {})
           ELSE Update(r, c, running[r], {}, {})
      /\ taken' = taken \cup {c.complete}
      /\ UNCHANGED <<executed, installed>>

\* A faulty replica answers a request, or drops it.
FaultyAnswers(m) ==
  /\ m \in net /\ m.to \in Faulty
  /\ \/ net' = net \ {m}
     \/ \E s \in 1..bound.checkpoints, d \in bound.digests :
          net' = (net \ {m}) \cup
            {Reply(IF m.kind = "RequestState" THEN "ReplyState" ELSE "ReplyStateCid",
                   m.to, m.from, m.cst, [seq |-> s, digest |-> d])}
  /\ UNCHANGED <<cst, running, executed, taken, installed, bound>>

Receive(r, m) ==
  \/ ReceiveRequestSeq(r, m)
  \/ ReceiveRequestState(r, m)
  \/ ReceiveIdle(r, m)
  \/ ReceiveOther(r, m)
  \/ ReceiveStateCid(r, m)
  \/ ReceiveState(r, m)

Next ==
  \/ \E r \in Correct : \/ RequestLatestState(r)
                        \/ \E m \in net : Receive(r, m)
                        \/ AppStateRequested(r)
                        \/ StateReceivedFromApp(r)
  \/ \E m \in net : FaultyAnswers(m)

Spec == Init /\ [][Next]_vars

-----------------------------------------------------------------------------
(***************************************************************************)
(* A state handed to the application has the digest of a checkpoint that   *)
(* some correct replica has taken, whatever the faulty ones answer and     *)
(* however the replies to successive requests arrive.                      *)
(***************************************************************************)
InstalledIsCorrect ==
  \A r \in Correct : \A s \in installed[r] : \E t \in taken : s.digest = t.digest

(***************************************************************************)
(* Replies are counted once per member and only for the current request,   *)
(* so the counters never exceed the number of members asked.               *)
(***************************************************************************)
CountsReplies ==
  \A r \in Correct : cst[r].count < Cardinality(Node)

(***************************************************************************)
(* handle_off_ctx_message(): while the replica is not running the protocol *)
(* no message changes its outcome, which "should not happen", and a        *)
(* replica that runs it is in a phase that waits for replies.              *)
(***************************************************************************)
IdleOffContext ==
  \A r \in Correct : running[r] <=> cst[r].phase \in {"ReceivingCid", "ReceivingState"}

(***************************************************************************)
(* Requests wait only while there is nothing to answer them with: the      *)
(* arrival of the application's state answers them all.                    *)
(***************************************************************************)
WaitsForCheckpointOnly ==
  \A r \in Correct : /\ cst[r].phase = "WaitingCheckpoint" => ~ Has(cst[r])
                     /\ cst[r].waiting # {} <=> cst[r].phase = "WaitingCheckpoint"
=============================================================================
