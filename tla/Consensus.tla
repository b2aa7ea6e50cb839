----------------------------- MODULE Consensus ------------------------------
(***************************************************************************)
(* The Consensus struct of one replica: a window of Watermark consensus    *)
(* instances run in parallel, the queue of messages for instances beyond   *)
(* the window (the TboQueue), the messages of later views, the signals     *)
(* that say which instances to poll, and the guard through which the       *)
(* proposer learns which instances it may propose to.                      *)
(*                                                                         *)
(* The struct is the record c with fields                                  *)
(*   seqNo      the first instance of the window                           *)
(*   view       curr_view                                                  *)
(*   decisions  the instances of the window, in order                      *)
(*   signalled  sequence numbers to be polled                              *)
(*   tbo        [curr, queue]: per message kind, the message queues of the *)
(*              instances curr + Watermark, curr + Watermark + 1, ...      *)
(*   viewQueue  messages of the views view + 1, view + 2, ...              *)
(*   guard      the ProposerConsensusGuard                                 *)
(***************************************************************************)
EXTENDS Decision, Guard, TboQueues

CONSTANTS
  Self,          \* this replica
  Members,       \* the quorum members, as the sequence the view keeps
  Watermark,     \* instances in the window
  MaxSeq,        \* last instance messages are about
  MaxView,       \* last view
  PeerSends,     \* [kind, view, seq] of the messages the other members send
  ProofSeq,      \* instances whose proof a SYNC message may carry
  InstallSeq,    \* sequence numbers a state transfer may install
  MaxInstalls,   \* bound on installed sequence numbers and views
  MaxOffContext  \* bound on messages queued out of context

VARIABLES
  consensus,     \* the Consensus struct
  lastExec,      \* last decision of the log, NoDecision if there is none
  executed,      \* instances handed over for execution, in that order
  granted,       \* [view, seq] pairs the proposer has proposed to
  net,           \* messages in flight to this replica
  installs,      \* sequence numbers and views installed so far
  offContext     \* messages queued out of context so far

vars == <<consensus, lastExec, executed, granted, net, installs, offContext>>

NoDecision == -1

LeaderOf(v) == Members[(v % Len(Members)) + 1]

View(v) == [seq |-> v, leaders |-> {LeaderOf(v)}]

ASSUME WindowAssumption ==
  /\ Watermark \in Nat \ {0} /\ MaxSeq \in Nat /\ MaxView \in Nat
  /\ PeerSends \subseteq [kind : Kinds, view : Nat, seq : Nat]
  /\ \A p \in PeerSends : p.kind = "PrePrepare" => LeaderOf(p.view) # Self
  /\ ProofSeq \subseteq Nat /\ InstallSeq \subseteq Nat
  /\ MaxInstalls \in Nat /\ MaxOffContext \in Nat

-----------------------------------------------------------------------------
(***************************************************************************)
(* The TboQueue.                                                           *)
(***************************************************************************)
\* The largest of a finite set of positive numbers, 0 if it is empty.
Highest(S) == IF S = {} THEN 0 ELSE CHOOSE x \in S : \A y \in S : y <= x

EmptyTbo(seq) == [curr |-> seq, queue |-> EmptyQueue]

\* Mutant of BaseSeq: the queue is taken to start with the window.
BaseSeqOfWindow(tbo) == tbo.curr

BaseSeq(tbo) == tbo.curr + Watermark

\* A message of an instance before the base is dropped.
TboQueue(tbo, m) ==
  IF m.seq < BaseSeq(tbo) THEN tbo
    ELSE [tbo EXCEPT !.queue[m.kind] = Put(@, m.seq - BaseSeq(tbo) + 1, m)]

\* The queue that the i-th call of advance_queue() from now returns, and the
\* TboQueue after n such calls.
Front(tbo, i) ==
  [k \in Kinds |-> IF i <= Len(tbo.queue[k]) THEN tbo.queue[k][i] ELSE << >>]

AdvanceQueue(tbo, n) ==
  [curr  |-> tbo.curr + n,
   queue |-> [k \in Kinds |-> DropQueues(tbo.queue[k], n)]]

-----------------------------------------------------------------------------
(***************************************************************************)
(* Where a message goes: queue() and the first half of process_message().  *)
(***************************************************************************)
FromLaterView(c, m) == m.view > c.view.seq

BeyondWindow(c, m) == m.view = c.view.seq /\ m.seq - c.seqNo >= Len(c.decisions)

InWindow(c, m) == m.view = c.view.seq /\ m.seq - c.seqNo \in 0..(Len(c.decisions) - 1)

Position(c, seq) == seq - c.seqNo + 1

\* A message of an earlier view or instance is dropped.
StoreForLater(c, m) ==
  CASE FromLaterView(c, m) -> [c EXCEPT !.viewQueue = Put(@, m.view - c.view.seq, m)]
    [] BeyondWindow(c, m)  -> [c EXCEPT !.tbo = TboQueue(@, m)]
    [] OTHER               -> c

Signal(c, seq) == [c EXCEPT !.signalled = @ \cup {seq}]

Queue(c, m) ==
  IF InWindow(c, m)
    THEN Signal([c EXCEPT !.decisions[Position(c, m.seq)] = Enqueue(@, m)], m.seq)
    ELSE StoreForLater(c, m)

(***************************************************************************)
(* process_message(): the instance the message is for handles it; a queued *)
(* message and a completed phase signal the instance.                      *)
(***************************************************************************)
AddresseeOf(c, m) == c.decisions[Position(c, m.seq)]

Processed(c, m) ==
  LET d == AddresseeOf(c, m)
      i == Position(c, m.seq)
  IN  IF ~ InWindow(c, m) THEN StoreForLater(c, m)
        ELSE CASE Queues(d, m) -> Signal([c EXCEPT !.decisions[i] = Enqueue(d, m)], d.seq)
               [] Ignores(d, m, c.view) \/ Errs(d, m, c.view, Self) -> c
               [] Accepts(d, m, c.view, Self) ->
                    [c EXCEPT !.decisions[i] = AfterAccept(d, m, c.view),
                              !.signalled = @ \cup
                                (IF VotesSent(d, m, c.view, Self) # {} THEN {d.seq} ELSE {})]

Votes(c, m) ==
  IF InWindow(c, m) /\ Accepts(AddresseeOf(c, m), m, c.view, Self)
    THEN VotesSent(AddresseeOf(c, m), m, c.view, Self) ELSE {}

\* The statuses Decided and DecidedIgnored, next being what c has become.
ReportsDecided(c, m, next) == InWindow(c, m) /\ IsFinalizeable(AddresseeOf(next, m))

-----------------------------------------------------------------------------
(***************************************************************************)
(* Moving the window.                                                      *)
(***************************************************************************)
\* Mutant of NextInstances: the instance that enters the window is not signalled.
NextInstancesUnsignalled(c, n, view) ==
  LET last == IF Watermark = 1 THEN c.seqNo ELSE c.decisions[Watermark].seq
  IN  [c EXCEPT
         !.seqNo     = @ + n,
         !.decisions = SubSeq(@, n + 1, Watermark) \o
                         [i \in 1..n |-> InitDecision(last + i, view, Front(c.tbo, i))],
         !.tbo       = AdvanceQueue(@, n)]

\* n times next_instance(): the first n instances leave the window and n new
\* ones, with the messages queued for them, enter at its end.
NextInstances(c, n, view) ==
  LET last == IF Watermark = 1 THEN c.seqNo ELSE c.decisions[Watermark].seq
  IN  [c EXCEPT
         !.seqNo     = @ + n,
         !.decisions = SubSeq(@, n + 1, Watermark) \o
                         [i \in 1..n |-> InitDecision(last + i, view, Front(c.tbo, i))],
         !.signalled = @ \cup {last + i : i \in 1..n},
         !.tbo       = AdvanceQueue(@, n)]

CanFinalize(c) == IsFinalizeable(c.decisions[1])

\* n instances at the front are decided, and not one more.
IsFinalizeableCount(c, n) ==
  /\ \A i \in 1..n : IsFinalizeable(c.decisions[i])
  /\ n < Watermark => ~ IsFinalizeable(c.decisions[n + 1])

\* How many instances of a window from seq on get their messages from tbo: those
\* it still has to give before it reaches seq.
FromTbo(tbo, seq) ==
  IF tbo.curr + Watermark <= seq THEN Watermark
    ELSE IF tbo.curr < seq THEN seq - tbo.curr ELSE 0

\* A window of new instances from seq on.
Refill(c, seq, tbo) ==
  LET n == FromTbo(tbo, seq)
  IN  [c EXCEPT
         !.seqNo     = seq,
         !.decisions = [i \in 1..Watermark |->
                          InitDecision(seq + i - 1, c.view,
                                       IF i <= n THEN Front(tbo, i) ELSE EmptyQueue)],
         !.signalled = seq..(seq + Watermark - 1),
         !.tbo       = AdvanceQueue(tbo, n),
         !.guard     = ClearGuard(@)]

\* Mutant of SkipWindow: the emptied TboQueue keeps its sequence number.
SkipWindowKeepingSeq(c, seq) ==
  LET overflow == seq - c.seqNo - Watermark
  IN  Refill(c, seq, IF overflow >= Len(c.tbo.queue["PrePrepare"])
                       THEN EmptyTbo(c.tbo.curr) ELSE AdvanceQueue(c.tbo, overflow))

\* Every instance of the window is skipped.  The TboQueue is emptied unless it
\* holds PRE-PREPAREs beyond the instances skipped.
SkipWindow(c, seq) ==
  LET overflow == seq - c.seqNo - Watermark
  IN  Refill(c, seq, IF overflow >= Len(c.tbo.queue["PrePrepare"])
                       THEN EmptyTbo(seq) ELSE AdvanceQueue(c.tbo, overflow))

InstallSequenceNumber(c, seq) ==
  LET moved == CASE seq < c.seqNo -> Refill(c, seq, EmptyTbo(seq))
                 [] seq = c.seqNo -> c
                 [] seq >= c.seqNo + Watermark -> SkipWindow(c, seq)
                 [] OTHER -> NextInstances(c, seq - c.seqNo, c.view)
  IN  [moved EXCEPT !.guard = InstallSeqNo(@, seq)]

\* The messages of kind k for instance seq among those of a sequence.
Sorted(messages, k, seq) ==
  LET sorted[n \in 0..Len(messages)] ==
        IF n = 0 THEN << >>
          ELSE IF messages[n].kind = k /\ messages[n].seq = seq
                 THEN Append(sorted[n - 1], messages[n])
                 ELSE sorted[n - 1]
  IN  sorted[Len(messages)]

\* install_view(): every instance starts again in the new view, with the
\* messages that came early for it; those of earlier views are forgotten.
InstallView(c, view) ==
  LET index == view.seq - c.view.seq
      early == IF index <= Len(c.viewQueue) THEN c.viewQueue[index] ELSE << >>
      base  == BaseSeq(c.tbo)
      ahead(k) == {early[j].seq - base + 1 :
                     j \in {i \in DOMAIN early : early[i].kind = k /\ early[i].seq >= base}}
  IN  IF view.seq <= c.view.seq THEN c
        ELSE [c EXCEPT
                !.view      = view,
                !.guard     = InstallViewInGuard(@, view),
                !.decisions = [i \in 1..Watermark |->
                                 InitDecision(c.seqNo + i - 1, view,
                                   [k \in Kinds |-> Sorted(early, k, c.seqNo + i - 1)])],
                !.signalled = c.seqNo..(c.seqNo + Watermark - 1),
                !.tbo.queue = [k \in Kinds |->
                                 [j \in 1..Highest(ahead(k)) |-> Sorted(early, k, base + j - 1)]],
                !.viewQueue = DropQueues(@, index)]

\* finalize_view_change(): the first instance skips its initial phase, so that
\* the proposer is not asked for a batch, and gets the one of the SYNC message.
FinalizeViewChange(c, view, m) ==
  LET installed == InstallView(c, view)
      skipped   == [installed EXCEPT !.decisions[1] = SkipInitPhase(@)]
  IN  [Processed(skipped, m) EXCEPT !.guard = UnlockConsensus(@)]

FinalizeViewChangeVotes(c, view, m) ==
  LET installed == InstallView(c, view)
  IN  Votes([installed EXCEPT !.decisions[1] = SkipInitPhase(@)], m)

-----------------------------------------------------------------------------
Digest(v) == [{LeaderOf(v)} -> Batch]

Peers == {Members[i] : i \in DOMAIN Members} \ {Self}

PrePrepare(v, seq, b) ==
  [kind |-> "PrePrepare", from |-> LeaderOf(v), view |-> v, seq |-> seq, value |-> b]

Vote(kind, from, v, seq, digest) ==
  [kind |-> kind, from |-> from, view |-> v, seq |-> seq, value |-> digest]

\* What the other members send: every one of them the votes of PeerSends, and
\* the leader of a view the proposals of PeerSends.
PeerMessage ==
  UNION {IF p.kind = "PrePrepare"
           THEN {PrePrepare(p.view, p.seq, b) : b \in Batch}
           ELSE {Vote(p.kind, r, p.view, p.seq, digest) : r \in Peers, digest \in Digest(p.view)}
         : p \in PeerSends}

Init ==
  /\ consensus = [seqNo     |-> 0,
                  view      |-> View(0),
                  decisions |-> [i \in 1..Watermark |-> InitDecision(i - 1, View(0), EmptyQueue)],
                  signalled |-> 0..(Watermark - 1),
                  tbo       |-> EmptyTbo(0),
                  viewQueue |-> << >>,
                  guard     |-> InitGuard(View(0))]
  /\ lastExec = NoDecision
  /\ executed = << >>
  /\ granted = {}
  /\ net = PeerMessage
  /\ installs = 0
  /\ offContext = 0

\* The replica's Consensus becomes c, of which every instance that can be is
\* finalized: handed over for execution, in order, and appended to the log.
FinalizeAllPossible(c) ==
  \E n \in 0..Watermark :
    /\ IsFinalizeableCount(c, n)
    /\ consensus' = NextInstances(c, n, c.view)
    /\ executed' = executed \o [i \in 1..n |-> c.decisions[i].seq]
    /\ lastExec' = IF n = 0 THEN lastExec ELSE c.decisions[n].seq

AdvConsensus(c, m, rest) ==
  LET next == Processed(c, m)
  IN  /\ net' = rest \cup Votes(c, m)
      /\ \/ /\ ReportsDecided(c, m, next)
            /\ FinalizeAllPossible(next)
         \/ /\ ~ ReportsDecided(c, m, next)
            /\ consensus' = next
            /\ UNCHANGED <<lastExec, executed>>

(***************************************************************************)
(* poll(), one iteration of its loop per step: the smallest signalled      *)
(* sequence number s is popped.  The model lets other handlers run between *)
(* two iterations, which only the proposer thread does in the code.        *)
(***************************************************************************)
IsNextSignal(c, s) == s \in c.signalled /\ \A t \in c.signalled : s <= t

Unsignal(c, s) == [c EXCEPT !.signalled = @ \ {s}]

Polled(c, s) == c.decisions[Position(c, s)]

PollStale(s) ==
  /\ IsNextSignal(consensus, s) /\ s < consensus.seqNo
  /\ consensus' = Unsignal(consensus, s)
  /\ UNCHANGED <<lastExec, executed, granted, net, installs, offContext>>

PollTryPropose(s) ==
  /\ IsNextSignal(consensus, s) /\ s >= consensus.seqNo
  /\ PollTriesPropose(Polled(consensus, s))
  /\ consensus' = [consensus EXCEPT
       !.decisions[Position(consensus, s)] = AfterTryPropose(@),
       !.guard = IF Self \in consensus.view.leaders THEN MakeSeqAvailable(@, s) ELSE @]
  /\ UNCHANGED <<lastExec, executed, granted, net, installs, offContext>>

PollNextMessage(s) ==
  /\ IsNextSignal(consensus, s) /\ s >= consensus.seqNo
  /\ PollFindsMessage(Polled(consensus, s))
  /\ AdvConsensus([consensus EXCEPT !.decisions[Position(consensus, s)] = AfterNextMessage(@)],
                  NextMessage(Polled(consensus, s)), net)
  /\ UNCHANGED <<granted, installs, offContext>>

PollRecv(s) ==
  /\ IsNextSignal(consensus, s) /\ s >= consensus.seqNo
  /\ ~ PollTriesPropose(Polled(consensus, s))
  /\ ~ PollFindsMessage(Polled(consensus, s))
  /\ consensus' = [Unsignal(consensus, s) EXCEPT
       !.decisions[Position(consensus, s)] = AfterRecv(@)]
  /\ UNCHANGED <<lastExec, executed, granted, net, installs, offContext>>

PollDecided ==
  /\ consensus.signalled = {} /\ CanFinalize(consensus)
  /\ FinalizeAllPossible(consensus)
  /\ UNCHANGED <<granted, net, installs, offContext>>

\* A message is received once poll() has nothing left to do.
Receive(m) ==
  /\ consensus.signalled = {} /\ ~ CanFinalize(consensus)
  /\ m \in net
  /\ AdvConsensus(consensus, m, net \ {m})
  /\ UNCHANGED <<granted, installs, offContext>>

\* Messages that arrive while the ordering protocol does not run, or while the
\* view is being changed, are only queued.
QueueOffContext(m) ==
  /\ offContext < MaxOffContext
  /\ m \in net
  /\ consensus' = Queue(consensus, m)
  /\ net' = net \ {m}
  /\ offContext' = offContext + 1
  /\ UNCHANGED <<lastExec, executed, granted, installs>>

\* The proposer thread takes the smallest available number and proposes to it.
Propose(s) ==
  /\ IsNextSeqNo(consensus.guard, s)
  /\ s <= MaxSeq
  /\ consensus' = [consensus EXCEPT !.guard = TakeSeqNo(@, s)]
  /\ granted' = granted \cup {[view |-> consensus.guard.view.seq, seq |-> s]}
  /\ \E b \in Batch : net' = net \cup {PrePrepare(consensus.guard.view.seq, s, b)}
  /\ UNCHANGED <<lastExec, executed, installs, offContext>>

\* A state transfer installs the sequence number that follows its state.
StateInstalled(seq) ==
  /\ installs < MaxInstalls
  /\ installs' = installs + 1
  /\ consensus' = InstallSequenceNumber(consensus, seq)
  /\ UNCHANGED <<lastExec, executed, granted, net, offContext>>

\* A state transfer installs a later view.
ViewInstalled(v) ==
  /\ installs < MaxInstalls
  /\ installs' = installs + 1
  /\ v > consensus.view.seq
  /\ consensus' = InstallView(consensus, View(v))
  /\ UNCHANGED <<lastExec, executed, granted, net, offContext>>

OrZero(seq) == IF seq = NoDecision THEN 0 ELSE seq

\* The last proof of the SYNC message is the decision after our last one.
CatchesUp(proof) == OrZero(lastExec) + 1 = OrZero(proof)

\* The synchronizer finalizes the change to view v: proof is the last decision
\* of the SYNC message (a replica that lacks more than that one transfers the
\* state first), m the PRE-PREPARE its leader forged in it.
ViewChanged(v, proof, m) ==
  LET c == IF CatchesUp(proof) THEN NextInstances(consensus, 1, View(v)) ELSE consensus
  IN  /\ installs < MaxInstalls
      /\ installs' = installs + 1
      /\ v > consensus.view.seq
      /\ OrZero(lastExec) + 1 >= OrZero(proof)
      /\ executed' = IF CatchesUp(proof) THEN Append(executed, proof) ELSE executed
      /\ lastExec' = IF CatchesUp(proof) /\ lastExec # NoDecision THEN proof ELSE lastExec
      /\ consensus' = FinalizeViewChange(c, View(v), m)
      /\ net' = net \cup FinalizeViewChangeVotes(c, View(v), m)
      /\ UNCHANGED <<granted, offContext>>

Poll(s) == PollStale(s) \/ PollTryPropose(s) \/ PollNextMessage(s) \/ PollRecv(s)

\* The steps that are taken whenever they can be.
Run ==
  \/ \E s \in consensus.signalled : Poll(s)
  \/ PollDecided
  \/ \E m \in net : Receive(m)

Next ==
  \/ Run
  \/ \E m \in net : QueueOffContext(m)
  \/ \E s \in consensus.guard.seqs : Propose(s)
  \/ \E seq \in InstallSeq : StateInstalled(seq)
  \/ \E v \in 1..MaxView : ViewInstalled(v)
  \/ \E v \in 1..MaxView, proof \in ProofSeq \cup {NoDecision}, f \in 0..MaxSeq, b \in Batch :
       ViewChanged(v, proof, PrePrepare(v, f, b))

Spec == Init /\ [][Next]_vars

-----------------------------------------------------------------------------
(***************************************************************************)
(* The window is aligned: it holds Watermark instances, numbered from      *)
(* seqNo on, the TboQueue stands at seqNo too (so it gives each new        *)
(* instance its own messages), and no signal points past the window, where *)
(* poll() would index decisions out of bounds.  The first two are the      *)
(* assertions that end install_sequence_number().                          *)
(***************************************************************************)
WindowAligned ==
  /\ Len(consensus.decisions) = Watermark
  /\ \A i \in 1..Watermark : consensus.decisions[i].seq = consensus.seqNo + i - 1
  /\ consensus.tbo.curr = consensus.seqNo
  /\ \A s \in consensus.signalled : s < consensus.seqNo + Watermark

\* The messages of a sequence are of kind k, view v and instance s.
AllFor(messages, k, v, s) ==
  \A j \in DOMAIN messages :
    messages[j].kind = k /\ messages[j].view = v /\ messages[j].seq = s

(***************************************************************************)
(* Nothing is misfiled: a message waits in the queue of its own instance,  *)
(* kind and view, wherever the window and the TboQueue have moved since it *)
(* arrived.  process_message() drops one it finds in the wrong place.      *)
(***************************************************************************)
NothingMisfiled ==
  /\ \A i \in DOMAIN consensus.decisions, k \in Kinds :
       AllFor(consensus.decisions[i].queue[k], k, consensus.view.seq, consensus.seqNo + i - 1)
  /\ \A k \in Kinds : \A i \in DOMAIN consensus.tbo.queue[k] :
       AllFor(consensus.tbo.queue[k][i], k, consensus.view.seq,
              consensus.seqNo + Watermark + i - 1)
  /\ \A i \in DOMAIN consensus.viewQueue : \A j \in DOMAIN consensus.viewQueue[i] :
       consensus.viewQueue[i][j].view = consensus.view.seq + i

(***************************************************************************)
(* No lost wakeup: an instance that is not signalled has been polled once, *)
(* and has nothing queued for the phase it is in, however it came by its   *)
(* messages (from the network, the TboQueue or the queue of later views).  *)
(***************************************************************************)
NoLostWakeup ==
  \A i \in DOMAIN consensus.decisions :
    LET d == consensus.decisions[i]
    IN  d.seq \notin consensus.signalled =>
          /\ d.phase # "Initialize"
          /\ d.phase \in WorkingPhases => d.queue[AwaitedKind(d.phase)] = << >>

(***************************************************************************)
(* The proposer is given every instance of a view once: an instance that   *)
(* has not been polled yet is neither available to it nor one it has       *)
(* proposed to in this view, and what is available has not been proposed   *)
(* to, so that no leader proposes two batches for one instance.            *)
(***************************************************************************)
ProposesOnce ==
  /\ \A i \in DOMAIN consensus.decisions :
       LET d == consensus.decisions[i]
       IN  d.phase = "Initialize" =>
             /\ d.seq \notin consensus.guard.seqs
             /\ [view |-> consensus.view.seq, seq |-> d.seq] \notin granted
  /\ \A s \in consensus.guard.seqs :
       [view |-> consensus.guard.view.seq, seq |-> s] \notin granted

(***************************************************************************)
(* What is available to the proposer lies in the window: no instance that  *)
(* is over, or that a state transfer has skipped, waits for its batch.     *)
(***************************************************************************)
OffersWindow ==
  consensus.guard.seqs \subseteq consensus.seqNo..(consensus.seqNo + Watermark - 1)

(***************************************************************************)
(* Total order: whatever is handed over for execution is the first         *)
(* instance of the window, then the second, and so on, and the window      *)
(* moves by exactly those.                                                 *)
(***************************************************************************)
ExecutesInOrder ==
  [][ executed' # executed =>
        /\ Len(executed') - Len(executed) = consensus'.seqNo - consensus.seqNo
        /\ executed' = executed \o
             [i \in 1..(Len(executed') - Len(executed)) |-> consensus.seqNo + i - 1] ]_vars
=============================================================================
