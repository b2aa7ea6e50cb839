-------------------------- MODULE ConsensusProofs ---------------------------
(***************************************************************************)
(* The window of instances stays aligned with its sequence number, with    *)
(* the TboQueue and with the signals, and no instance of it is left with a *)
(* message it could handle and no signal; for any size of the window, any  *)
(* messages and any sequence of decisions, view changes and state          *)
(* transfers.                                                              *)
(*                                                                         *)
(* IsWindow(c) says the first of a Consensus struct c, with the shape of   *)
(* its parts.  Each operation of the struct has a lemma that it keeps      *)
(* IsWindow, and what it does to the guard; the actions are made of those. *)
(*                                                                         *)
(* poll() asks getQueue before it looks at a queue, so NoLostWakeup is not *)
(* enough by itself: IsAwake adds that getQueue is up whenever there is    *)
(* something to find (Awake).  It goes through the same operations.        *)
(*                                                                         *)
(* The last two parts say what the operations do to the lock of the guard  *)
(* (SameLock), and that what is available to the proposer and was taken by *)
(* it stays apart from the instances to come (Once).                       *)
(***************************************************************************)
EXTENDS Consensus, TLAPS

USE SMTT(120)

IsDecision(d) ==
  d = [field \in {"seq", "phase", "received", "batches", "prepares", "commits", "queue", "getQueue"}
         |-> d[field]]

IsGuard(g) ==
  /\ g = [field \in {"seqs", "view", "canPropose"} |-> g[field]]
  /\ g.seqs \subseteq Nat

IsTbo(tbo) == tbo = [field \in {"curr", "queue"} |-> tbo[field]]

IsConsensusStruct(c) ==
  c = [field \in {"seqNo", "view", "decisions", "signalled", "tbo", "viewQueue", "guard"}
         |-> c[field]]

\* The instances from seqNo on.
AreDecisions(decisions, seqNo) ==
  /\ decisions = [i \in 1..Watermark |-> decisions[i]]
  /\ \A i \in 1..Watermark : IsDecision(decisions[i]) /\ decisions[i].seq = seqNo + i - 1

IsWindow(c) ==
  /\ IsConsensusStruct(c)
  /\ c.seqNo \in Nat
  /\ AreDecisions(c.decisions, c.seqNo)
  /\ IsTbo(c.tbo) /\ c.tbo.curr = c.seqNo
  /\ c.signalled \subseteq Nat /\ \A s \in c.signalled : s < c.seqNo + Watermark
  /\ IsGuard(c.guard)

WindowInv == IsWindow(consensus) /\ \A m \in net : m.seq \in Nat

-----------------------------------------------------------------------------
LEMMA WatermarkNat == Watermark \in Nat /\ Watermark >= 1
BY WindowAssumption

\* Two sequences, one after the other.
LEMMA Joined ==
  ASSUME NEW S, NEW s \in Seq(S), NEW t \in Seq(S), NEW k \in Nat, NEW w \in Nat,
         Len(s) = k, Len(t) = w - k
  PROVE  /\ s \o t = [i \in 1..w |-> (s \o t)[i]]
         /\ \A i \in 1..k : (s \o t)[i] = s[i]
         /\ \A i \in (k + 1)..w : (s \o t)[i] = t[i - k]
<1> DEFINE u == s \o t
<1>1. Len(s) + Len(t) = w
  OBVIOUS
<1>2. /\ u \in Seq(S) /\ Len(u) = w
      /\ \A i \in 1..w : u[i] = IF i <= k THEN s[i] ELSE t[i - k]
  <2>1. /\ u \in Seq(S) /\ Len(u) = Len(s) + Len(t)
        /\ \A i \in 1..(Len(s) + Len(t)) : u[i] = IF i <= Len(s) THEN s[i] ELSE t[i - Len(s)]
    OBVIOUS
  <2> QED
    BY <1>1, <2>1
<1>3. k <= w
  OBVIOUS
<1> HIDE DEF u
<1>4. u = [i \in 1..w |-> u[i]]
  <2>1. u \in [1..w -> S]
    BY <1>2
  <2> QED
    BY <2>1
<1>5. \A i \in 1..k : u[i] = s[i]
  BY <1>2, <1>3
<1>6. \A i \in (k + 1)..w : u[i] = t[i - k]
  BY <1>2
<1> QED
  BY <1>4, <1>5, <1>6 DEF u

(***************************************************************************)
(* The operations of an instance keep its sequence number.                 *)
(***************************************************************************)
LEMMA InitDecisionIs ==
  ASSUME NEW s, NEW view, NEW queue
  PROVE  IsDecision(InitDecision(s, view, queue)) /\ InitDecision(s, view, queue).seq = s
BY ZenonT(60) DEF InitDecision, IsDecision

LEMMA EnqueueIs ==
  ASSUME NEW d, IsDecision(d), NEW m
  PROVE  IsDecision(Enqueue(d, m)) /\ Enqueue(d, m).seq = d.seq
BY ZenonT(60) DEF Enqueue, IsDecision

LEMMA PollIs ==
  ASSUME NEW d, IsDecision(d)
  PROVE  /\ IsDecision(AfterTryPropose(d)) /\ AfterTryPropose(d).seq = d.seq
         /\ IsDecision(AfterNextMessage(d)) /\ AfterNextMessage(d).seq = d.seq
         /\ IsDecision(AfterRecv(d)) /\ AfterRecv(d).seq = d.seq
         /\ IsDecision(SkipInitPhase(d)) /\ SkipInitPhase(d).seq = d.seq
<1>1. IsDecision(AfterTryPropose(d)) /\ AfterTryPropose(d).seq = d.seq
  BY DEF AfterTryPropose, IsDecision
<1>2. IsDecision(AfterNextMessage(d)) /\ AfterNextMessage(d).seq = d.seq
  BY ZenonT(60) DEF AfterNextMessage, IsDecision
<1>3. IsDecision(AfterRecv(d)) /\ AfterRecv(d).seq = d.seq
  BY ZenonT(60) DEF AfterRecv, IsDecision
<1>4. IsDecision(SkipInitPhase(d)) /\ SkipInitPhase(d).seq = d.seq
  BY ZenonT(60) DEF SkipInitPhase, IsDecision
<1> QED
  BY <1>1, <1>2, <1>3, <1>4

LEMMA AfterAcceptIs ==
  ASSUME NEW d, IsDecision(d), NEW m, NEW view
  PROVE  IsDecision(AfterAccept(d, m, view)) /\ AfterAccept(d, m, view).seq = d.seq
<1> DEFINE e == Accept(d, m)
<1>1. IsDecision(e) /\ e.seq = d.seq
  <2>1. CASE m.kind = "PrePrepare"
    BY <2>1 DEF Accept, IsDecision
  <2>2. CASE m.kind = "Prepare"
    BY <2>2 DEF Accept, IsDecision
  <2>3. CASE m.kind \notin {"PrePrepare", "Prepare"}
    BY <2>3 DEF Accept, IsDecision
  <2> QED
    BY <2>1, <2>2, <2>3
<1> HIDE DEF e
<1> DEFINE f == [e EXCEPT !.phase = FollowingPhase(d.phase),
                          !.received = 0,
                          !.getQueue = IF d.phase = "Committing" THEN @ ELSE TRUE]
           g == [e EXCEPT !.received = @ + 1]
<1>2. IsDecision(f) /\ f.seq = d.seq
  BY ZenonT(60), <1>1 DEF IsDecision
<1>3. IsDecision(g) /\ g.seq = d.seq
  BY <1>1 DEF IsDecision
<1>4. AfterAccept(d, m, view) \in {f, g}
  BY DEF AfterAccept, e
<1> QED
  BY ZenonT(60), <1>2, <1>3, <1>4
-----------------------------------------------------------------------------
(***************************************************************************)
(* The operations of the struct.                                           *)
(***************************************************************************)
\* One instance is replaced by another state of it.
LEMMA PutDecision ==
  ASSUME NEW c, IsWindow(c), NEW i \in 1..Watermark,
         NEW d, IsDecision(d), d.seq = c.seqNo + i - 1
  PROVE  LET e == [c EXCEPT !.decisions[i] = d]
         IN  IsWindow(e) /\ e.seqNo = c.seqNo /\ e.guard = c.guard /\ e.view = c.view
<1> DEFINE decisions == [c.decisions EXCEPT ![i] = d]
           e == [c EXCEPT !.decisions = decisions]
<1>1. AreDecisions(decisions, c.seqNo)
  BY ZenonT(60) DEF IsWindow, AreDecisions
<1> HIDE DEF decisions
<1>2. IsWindow(e) /\ e.seqNo = c.seqNo /\ e.guard = c.guard /\ e.view = c.view
  BY <1>1 DEF IsWindow, IsConsensusStruct
<1> QED
  BY <1>2 DEF decisions

LEMMA SignalWindow ==
  ASSUME NEW c, IsWindow(c), NEW more \in SUBSET Nat, \A s \in more : s < c.seqNo + Watermark
  PROVE  LET e == [c EXCEPT !.signalled = @ \cup more]
         IN  IsWindow(e) /\ e.seqNo = c.seqNo /\ e.guard = c.guard /\ e.view = c.view
BY DEF IsWindow, IsConsensusStruct

LEMMA StoreForLaterWindow ==
  ASSUME NEW c, IsWindow(c), NEW m
  PROVE  /\ IsWindow(StoreForLater(c, m)) /\ StoreForLater(c, m).seqNo = c.seqNo
         /\ StoreForLater(c, m).guard = c.guard /\ StoreForLater(c, m).view = c.view
<1> DEFINE t == TboQueue(c.tbo, m)
           q == Put(c.viewQueue, m.view - c.view.seq, m)
<1>1. IsTbo(t) /\ t.curr = c.tbo.curr
  BY DEF TboQueue, IsTbo, IsWindow
<1>2. StoreForLater(c, m) \in {[c EXCEPT !.viewQueue = q], [c EXCEPT !.tbo = t], c}
  BY DEF StoreForLater
<1> HIDE DEF t, q
<1>3. CASE StoreForLater(c, m) = [c EXCEPT !.viewQueue = q]
  BY <1>3 DEF IsWindow, IsConsensusStruct
<1>4. CASE StoreForLater(c, m) = [c EXCEPT !.tbo = t]
  BY <1>1, <1>4 DEF IsWindow, IsConsensusStruct
<1> QED
  BY <1>2, <1>3, <1>4

\* A message in the window is for one of its instances.
LEMMA AddresseeIs ==
  ASSUME NEW c, IsWindow(c), NEW m, InWindow(c, m)
  PROVE  /\ Position(c, m.seq) \in 1..Watermark
         /\ IsDecision(AddresseeOf(c, m))
         /\ AddresseeOf(c, m).seq = c.seqNo + Position(c, m.seq) - 1
         /\ AddresseeOf(c, m).seq \in Nat /\ AddresseeOf(c, m).seq < c.seqNo + Watermark
<1>1. Len(c.decisions) = Watermark
  BY WatermarkNat DEF IsWindow, AreDecisions
<1>2. Position(c, m.seq) \in 1..Watermark
  BY <1>1, WatermarkNat DEF InWindow, Position
<1> QED
  BY <1>2, WatermarkNat DEF AddresseeOf, IsWindow, AreDecisions

LEMMA QueueWindow ==
  ASSUME NEW c, IsWindow(c), NEW m, m.seq \in Nat
  PROVE  /\ IsWindow(Queue(c, m)) /\ Queue(c, m).seqNo = c.seqNo
         /\ Queue(c, m).guard = c.guard /\ Queue(c, m).view = c.view
<1>1. CASE InWindow(c, m)
  <2> DEFINE i == Position(c, m.seq)
             d == Enqueue(c.decisions[i], m)
             e == [c EXCEPT !.decisions[i] = d]
  <2>1. i \in 1..Watermark /\ m.seq = c.seqNo + i - 1 /\ m.seq < c.seqNo + Watermark
    BY <1>1, AddresseeIs, WatermarkNat DEF Position, IsWindow
  <2>2. IsDecision(d) /\ d.seq = c.seqNo + i - 1
    BY <1>1, AddresseeIs, EnqueueIs DEF AddresseeOf
  <2>3. Queue(c, m) = [e EXCEPT !.signalled = @ \cup {m.seq}]
    BY <1>1 DEF Queue, Signal
  <2> HIDE DEF d, i
  <2>4. IsWindow(e) /\ e.seqNo = c.seqNo /\ e.guard = c.guard /\ e.view = c.view
    BY <2>1, <2>2, PutDecision
  <2> HIDE DEF e
  <2>5. {m.seq} \in SUBSET Nat
    OBVIOUS
  <2> QED
    BY ZenonT(60), <2>1, <2>3, <2>4, <2>5, SignalWindow
<1>2. CASE ~ InWindow(c, m)
  BY <1>2, StoreForLaterWindow DEF Queue
<1> QED
  BY <1>1, <1>2

LEMMA ProcessedWindow ==
  ASSUME NEW c, IsWindow(c), NEW m
  PROVE  /\ IsWindow(Processed(c, m)) /\ Processed(c, m).seqNo = c.seqNo
         /\ Processed(c, m).guard = c.guard /\ Processed(c, m).view = c.view
         /\ \A v \in Votes(c, m) : v.seq \in Nat
<1> DEFINE d == AddresseeOf(c, m)
           i == Position(c, m.seq)
           queued == [c EXCEPT !.decisions[i] = Enqueue(d, m)]
           accepted == [c EXCEPT !.decisions[i] = AfterAccept(d, m, c.view)]
           woken == IF VotesSent(d, m, c.view, Self) # {} THEN {d.seq} ELSE {}
<1>1. CASE ~ InWindow(c, m)
  BY <1>1, StoreForLaterWindow DEF Processed, Votes
<1>2. CASE InWindow(c, m)
  <2>1. /\ i \in 1..Watermark /\ IsDecision(d) /\ d.seq = c.seqNo + i - 1
        /\ d.seq \in Nat /\ d.seq < c.seqNo + Watermark
    BY <1>2, AddresseeIs
  <2>2. \A v \in Votes(c, m) : v.seq \in Nat
    BY <1>2, <2>1 DEF Votes, VotesSent
  <2>3. Processed(c, m) \in {[queued EXCEPT !.signalled = @ \cup {d.seq}], c,
                             [accepted EXCEPT !.signalled = @ \cup woken]}
    <3>1. CASE Queues(d, m)
      BY <1>2, <3>1 DEF Processed, Signal
    <3>2. CASE ~ Queues(d, m) /\ (Ignores(d, m, c.view) \/ Errs(d, m, c.view, Self))
      BY <1>2, <3>2 DEF Processed, Accepts, Errs, Considers
    <3>3. CASE Accepts(d, m, c.view, Self)
      BY <1>2, <3>3 DEF Processed, Accepts, Errs, Considers
    <3> QED
      BY <3>1, <3>2, <3>3 DEF Accepts, Errs, Considers
  <2>4. /\ IsDecision(Enqueue(d, m)) /\ Enqueue(d, m).seq = c.seqNo + i - 1
        /\ IsDecision(AfterAccept(d, m, c.view))
        /\ AfterAccept(d, m, c.view).seq = c.seqNo + i - 1
    BY <2>1, EnqueueIs, AfterAcceptIs
  <2>5. {d.seq} \in SUBSET Nat /\ woken \in SUBSET Nat /\ \A s \in woken : s < c.seqNo + Watermark
    BY <2>1
  <2> HIDE DEF d, i, woken
  <2>6. IsWindow(queued) /\ queued.seqNo = c.seqNo /\ queued.guard = c.guard /\ queued.view = c.view
    BY <2>1, <2>4, PutDecision
  <2>7. /\ IsWindow(accepted) /\ accepted.seqNo = c.seqNo /\ accepted.guard = c.guard
        /\ accepted.view = c.view
    BY <2>1, <2>4, PutDecision
  <2> HIDE DEF queued, accepted
  <2>8. LET e == [queued EXCEPT !.signalled = @ \cup {d.seq}]
        IN  IsWindow(e) /\ e.seqNo = c.seqNo /\ e.guard = c.guard /\ e.view = c.view
    BY ZenonT(60), <2>1, <2>5, <2>6, SignalWindow
  <2>9. LET e == [accepted EXCEPT !.signalled = @ \cup woken]
        IN  IsWindow(e) /\ e.seqNo = c.seqNo /\ e.guard = c.guard /\ e.view = c.view
    BY <2>5, <2>7, SignalWindow
  <2> QED
    BY ZenonT(60), <2>2, <2>3, <2>8, <2>9
<1> QED
  BY <1>1, <1>2
-----------------------------------------------------------------------------
(***************************************************************************)
(* Moving the window.                                                      *)
(***************************************************************************)
\* The instances of the window of c after n of them left it, and its other parts.
IsNextWindow(e, c, n, view) ==
  LET last == c.seqNo + Watermark - 1
  IN  /\ IsConsensusStruct(e) /\ e.seqNo = c.seqNo + n /\ e.view = c.view
      /\ e.guard = c.guard /\ e.viewQueue = c.viewQueue
      /\ e.tbo = AdvanceQueue(c.tbo, n)
      /\ e.signalled = c.signalled \cup {last + i : i \in 1..n}
      /\ e.decisions = [i \in 1..Watermark |-> e.decisions[i]]
      /\ \A i \in 1..(Watermark - n) : e.decisions[i] = c.decisions[n + i]
      /\ \A j \in 1..n : e.decisions[Watermark - n + j] =
                           InitDecision(last + j, view, Front(c.tbo, j))

LEMMA NextInstancesShape ==
  ASSUME NEW c, IsWindow(c), NEW n \in 0..Watermark, NEW view
  PROVE  IsNextWindow(NextInstances(c, n, view), c, n, view)
<1> DEFINE last == IF Watermark = 1 THEN c.seqNo ELSE c.decisions[Watermark].seq
           new == [i \in 1..n |-> InitDecision(last + i, view, Front(c.tbo, i))]
           old == SubSeq(c.decisions, n + 1, Watermark)
           more == {last + i : i \in 1..n}
           tbo == AdvanceQueue(c.tbo, n)
           Both == {c.decisions[i] : i \in 1..Watermark} \cup {new[i] : i \in 1..n}
<1>1. last = c.seqNo + Watermark - 1
  BY WatermarkNat DEF IsWindow, AreDecisions
<1>2. /\ old \in Seq(Both) /\ Len(old) = Watermark - n
      /\ \A i \in 1..(Watermark - n) : old[i] = c.decisions[n + i]
  <2>1. \A i \in (n + 1)..Watermark : c.decisions[i] \in Both
    BY WatermarkNat
  <2> HIDE DEF Both, new
  <2> QED
    BY <2>1, WatermarkNat
<1>3. new \in Seq(Both) /\ Len(new) = n
  BY WatermarkNat
<1>4. /\ old \o new = [i \in 1..Watermark |-> (old \o new)[i]]
      /\ \A i \in 1..(Watermark - n) : (old \o new)[i] = old[i]
      /\ \A i \in (Watermark - n + 1)..Watermark : (old \o new)[i] = new[i - (Watermark - n)]
  <2> HIDE DEF Both, new, old
  <2>1. PICK k \in Nat : k = Watermark - n
    BY WatermarkNat
  <2>2. Len(old) = k /\ Len(new) = Watermark - k
    BY <1>2, <1>3, <2>1, WatermarkNat
  <2>3. /\ old \o new = [i \in 1..Watermark |-> (old \o new)[i]]
        /\ \A i \in 1..k : (old \o new)[i] = old[i]
        /\ \A i \in (k + 1)..Watermark : (old \o new)[i] = new[i - k]
    BY <1>2, <1>3, <2>2, WatermarkNat, Joined
  <2> QED
    BY ZenonT(60), <2>1, <2>3
<1> DEFINE decisions == old \o new
           e == [c EXCEPT !.seqNo = @ + n, !.decisions = decisions,
                          !.signalled = @ \cup more, !.tbo = tbo]
<1>5. NextInstances(c, n, view) = e
  BY DEF NextInstances
<1>6. \A i \in 1..(Watermark - n) : decisions[i] = c.decisions[n + i]
  <2> HIDE DEF old, new
  <2> QED
    BY ZenonT(60), <1>2, <1>4
<1>7. ASSUME NEW j \in 1..n
      PROVE  decisions[Watermark - n + j] = InitDecision(last + j, view, Front(c.tbo, j))
  <2> HIDE DEF old, last
  <2>1. Watermark - n + j \in (Watermark - n + 1)..Watermark
    BY WatermarkNat
  <2>2. (Watermark - n + j) - (Watermark - n) = j
    BY WatermarkNat
  <2>3. decisions[Watermark - n + j] = new[j]
    <3> HIDE DEF new
    <3>1. decisions[Watermark - n + j] = new[(Watermark - n + j) - (Watermark - n)]
      BY ZenonT(60), <1>4, <2>1
    <3> HIDE DEF decisions
    <3> QED
      BY <2>2, <3>1
  <2> HIDE DEF decisions
  <2> QED
    BY <2>3
<1>8. decisions = [i \in 1..Watermark |-> decisions[i]]
  BY ZenonT(60), <1>4
<1> HIDE DEF decisions, tbo, more, last
<1>9. /\ IsConsensusStruct(e) /\ e.seqNo = c.seqNo + n /\ e.decisions = decisions
      /\ e.signalled = c.signalled \cup more /\ e.tbo = tbo /\ e.guard = c.guard
      /\ e.view = c.view /\ e.viewQueue = c.viewQueue
  BY ZenonT(60) DEF IsWindow, IsConsensusStruct
<1> HIDE DEF e
<1> QED
  BY ZenonT(60), <1>1, <1>5, <1>6, <1>7, <1>8, <1>9 DEF more, tbo, IsNextWindow

LEMMA NextInstancesWindow ==
  ASSUME NEW c, IsWindow(c), NEW n \in 0..Watermark, NEW view
  PROVE  /\ IsWindow(NextInstances(c, n, view)) /\ NextInstances(c, n, view).seqNo = c.seqNo + n
         /\ NextInstances(c, n, view).guard = c.guard /\ NextInstances(c, n, view).view = c.view
<1> DEFINE e == NextInstances(c, n, view)
           last == c.seqNo + Watermark - 1
           more == {last + i : i \in 1..n}
<1>0. IsNextWindow(e, c, n, view)
  BY ZenonT(60), NextInstancesShape
<1> HIDE DEF e
<1>1. /\ IsConsensusStruct(e) /\ e.seqNo = c.seqNo + n /\ e.view = c.view /\ e.guard = c.guard
      /\ e.tbo = AdvanceQueue(c.tbo, n) /\ e.signalled = c.signalled \cup more
      /\ e.decisions = [i \in 1..Watermark |-> e.decisions[i]]
      /\ \A i \in 1..(Watermark - n) : e.decisions[i] = c.decisions[n + i]
      /\ \A j \in 1..n : e.decisions[Watermark - n + j] =
                           InitDecision(last + j, view, Front(c.tbo, j))
  BY ZenonT(60), <1>0 DEF IsNextWindow
<1>2. c.seqNo \in Nat /\ e.seqNo \in Nat
  BY <1>1 DEF IsWindow
<1>3. ASSUME NEW i \in 1..Watermark
      PROVE  IsDecision(e.decisions[i]) /\ e.decisions[i].seq = e.seqNo + i - 1
  <2>1. CASE i <= Watermark - n
    <3>1. n + i \in 1..Watermark /\ i \in 1..(Watermark - n)
      BY <2>1, WatermarkNat
    <3>2. e.decisions[i] = c.decisions[n + i]
      BY <1>1, <3>1
    <3> QED
      BY <1>1, <3>1, <3>2 DEF IsWindow, AreDecisions
  <2>2. CASE i > Watermark - n
    <3> DEFINE j == i - (Watermark - n)
    <3>1. e.seqNo = c.seqNo + n
      BY <1>1
    <3>2. j \in 1..n /\ i = Watermark - n + j /\ last + j = e.seqNo + i - 1
      BY <1>2, <2>2, <3>1, WatermarkNat
    <3> HIDE DEF j, last
    <3>3. e.decisions[Watermark - n + j] = InitDecision(last + j, view, Front(c.tbo, j))
      BY ZenonT(60), <1>1, <3>2
    <3>4. e.decisions[i] = InitDecision(last + j, view, Front(c.tbo, j))
      BY <3>2, <3>3
    <3> QED
      BY <3>2, <3>4, InitDecisionIs
  <2>3. i <= Watermark - n \/ i > Watermark - n
    BY WatermarkNat
  <2> QED
    BY ZenonT(60), <2>1, <2>2, <2>3
<1>4. more \subseteq Nat /\ \A s \in more : s < e.seqNo + Watermark
  BY <1>1, <1>2, WatermarkNat
<1>5. IsTbo(e.tbo) /\ e.tbo.curr = e.seqNo
  BY <1>1 DEF AdvanceQueue, IsTbo, IsWindow
<1>6. ASSUME NEW s \in c.signalled
      PROVE  s \in Nat /\ s < e.seqNo + Watermark
  BY <1>1, <1>2, WatermarkNat DEF IsWindow
<1> HIDE DEF more
<1>7. AreDecisions(e.decisions, e.seqNo)
  BY ZenonT(60), <1>1, <1>3 DEF AreDecisions
<1>8. e.signalled \subseteq Nat /\ \A s \in e.signalled : s < e.seqNo + Watermark
  BY ZenonT(60), <1>1, <1>4, <1>6
<1>9. IsWindow(e)
  BY ZenonT(60), <1>1, <1>2, <1>5, <1>7, <1>8 DEF IsWindow
<1> QED
  BY <1>1, <1>9 DEF e

\* Refill() asks the TboQueue for all the instances of the window or for none.
LEMMA FromTboIs ==
  ASSUME NEW seq \in Nat, NEW tbo, tbo.curr = seq \/ tbo.curr = seq - Watermark
  PROVE  tbo.curr + FromTbo(tbo, seq) = seq /\ FromTbo(tbo, seq) \in {0, Watermark}
BY WatermarkNat DEF FromTbo

LEMMA RefillWindow ==
  ASSUME NEW c, IsWindow(c), NEW seq \in Nat, NEW tbo,
         tbo.curr = seq \/ tbo.curr = seq - Watermark
  PROVE  /\ IsWindow(Refill(c, seq, tbo)) /\ Refill(c, seq, tbo).seqNo = seq
         /\ Refill(c, seq, tbo).guard = ClearGuard(c.guard) /\ Refill(c, seq, tbo).view = c.view
<1> DEFINE n == FromTbo(tbo, seq)
           decisions == [i \in 1..Watermark |->
                           InitDecision(seq + i - 1, c.view,
                                        IF i <= n THEN Front(tbo, i) ELSE EmptyQueue)]
           advanced == AdvanceQueue(tbo, n)
           signalled == seq..(seq + Watermark - 1)
           guard == ClearGuard(c.guard)
           e == [c EXCEPT !.seqNo = seq, !.decisions = decisions, !.signalled = signalled,
                          !.tbo = advanced, !.guard = guard]
<1>1. tbo.curr + n = seq
  BY FromTboIs
<1>2. Refill(c, seq, tbo) = e
  BY DEF Refill
<1> HIDE DEF n
<1>3. AreDecisions(decisions, seq)
  BY InitDecisionIs, WatermarkNat DEF AreDecisions
<1>4. IsTbo(advanced) /\ advanced.curr = seq
  BY <1>1 DEF AdvanceQueue, IsTbo
<1>5. IsGuard(guard)
  BY ZenonT(60) DEF ClearGuard, IsGuard, IsWindow
<1>6. signalled \subseteq Nat /\ \A s \in signalled : s < seq + Watermark
  BY WatermarkNat
<1> HIDE DEF decisions, advanced, signalled, guard
<1>7. /\ IsConsensusStruct(e) /\ e.seqNo = seq /\ e.decisions = decisions
      /\ e.signalled = signalled /\ e.tbo = advanced /\ e.guard = guard /\ e.view = c.view
  BY ZenonT(60) DEF IsWindow, IsConsensusStruct
<1> QED
  BY <1>2, <1>3, <1>4, <1>5, <1>6, <1>7 DEF IsWindow, guard

LEMMA GuardWindow ==
  ASSUME NEW c, IsWindow(c), NEW g, IsGuard(g)
  PROVE  LET e == [c EXCEPT !.guard = g]
         IN  IsWindow(e) /\ e.seqNo = c.seqNo /\ e.guard = g /\ e.view = c.view
BY DEF IsWindow, IsConsensusStruct

\* moved is the window of c after it was set to seq, the guard aside.
IsMovedTo(moved, c, seq) ==
  \/ \E tbo : /\ tbo.curr = seq \/ tbo.curr = seq - Watermark
             /\ \/ tbo = EmptyTbo(seq)
                \/ /\ seq >= c.seqNo + Watermark
                   /\ tbo = AdvanceQueue(c.tbo, seq - c.seqNo - Watermark)
             /\ moved = Refill(c, seq, tbo)
  \/ moved = c
  \/ \E n \in 0..Watermark : moved = NextInstances(c, n, c.view)

LEMMA InstallSequenceNumberShape ==
  ASSUME NEW c, IsWindow(c), NEW seq \in Nat
  PROVE  \E moved : /\ IsMovedTo(moved, c, seq)
                    /\ InstallSequenceNumber(c, seq) = [moved EXCEPT !.guard = InstallSeqNo(@, seq)]
<1> DEFINE moved == CASE seq < c.seqNo -> Refill(c, seq, EmptyTbo(seq))
                      [] seq = c.seqNo -> c
                      [] seq >= c.seqNo + Watermark -> SkipWindow(c, seq)
                      [] OTHER -> NextInstances(c, seq - c.seqNo, c.view)
<1>1. c.seqNo \in Nat
  BY DEF IsWindow
<1>2. IsMovedTo(moved, c, seq)
  <2>1. CASE seq < c.seqNo
    <3>1. EmptyTbo(seq).curr = seq
      BY DEF EmptyTbo
    <3>2. moved = Refill(c, seq, EmptyTbo(seq))
      BY <1>1, <2>1, WatermarkNat
    <3> HIDE DEF moved
    <3> QED
      BY ZenonT(60), <3>1, <3>2 DEF IsMovedTo
  <2>2. CASE seq = c.seqNo
    <3>1. moved = c
      BY <1>1, <2>2, WatermarkNat
    <3> QED
      BY <3>1 DEF IsMovedTo
  <2>3. CASE seq >= c.seqNo + Watermark
    <3> DEFINE overflow == seq - c.seqNo - Watermark
               tbo == IF overflow >= Len(c.tbo.queue["PrePrepare"])
                        THEN EmptyTbo(seq) ELSE AdvanceQueue(c.tbo, overflow)
    <3>1. tbo.curr = seq \/ tbo.curr = seq - Watermark
      <4>1. EmptyTbo(seq).curr = seq
        BY DEF EmptyTbo
      <4>2. AdvanceQueue(c.tbo, overflow).curr = seq - Watermark
        BY <1>1, WatermarkNat DEF AdvanceQueue, IsWindow
      <4> QED
        BY <4>1, <4>2
    <3>2. moved = Refill(c, seq, tbo)
      BY <1>1, <2>3, WatermarkNat DEF SkipWindow
    <3>3. tbo = EmptyTbo(seq) \/ tbo = AdvanceQueue(c.tbo, seq - c.seqNo - Watermark)
      OBVIOUS
    <3> HIDE DEF moved, tbo
    <3> QED
      BY ZenonT(60), <2>3, <3>1, <3>2, <3>3 DEF IsMovedTo
  <2>4. CASE seq \in (c.seqNo + 1)..(c.seqNo + Watermark - 1)
    <3>1. PICK n \in 0..Watermark : n = seq - c.seqNo
      BY <1>1, <2>4, WatermarkNat
    <3>2. moved = NextInstances(c, n, c.view)
      BY <1>1, <2>4, <3>1, WatermarkNat
    <3> HIDE DEF moved
    <3> QED
      BY ZenonT(60), <3>2 DEF IsMovedTo
  <2>5. seq < c.seqNo \/ seq = c.seqNo \/ seq >= c.seqNo + Watermark
          \/ seq \in (c.seqNo + 1)..(c.seqNo + Watermark - 1)
    BY <1>1, WatermarkNat
  <2> QED
    BY ZenonT(60), <2>1, <2>2, <2>3, <2>4, <2>5
<1>3. InstallSequenceNumber(c, seq) = [moved EXCEPT !.guard = InstallSeqNo(@, seq)]
  BY DEF InstallSequenceNumber
<1> HIDE DEF moved
<1> QED
  BY ZenonT(60), <1>2, <1>3

LEMMA InstallSequenceNumberWindow ==
  ASSUME NEW c, IsWindow(c), NEW seq \in Nat
  PROVE  /\ IsWindow(InstallSequenceNumber(c, seq))
         /\ InstallSequenceNumber(c, seq).guard.canPropose = c.guard.canPropose
         /\ InstallSequenceNumber(c, seq).view = c.view
<1>1. PICK moved :
        /\ IsMovedTo(moved, c, seq)
        /\ InstallSequenceNumber(c, seq) = [moved EXCEPT !.guard = InstallSeqNo(@, seq)]
  BY ZenonT(60), InstallSequenceNumberShape
<1>2. IsWindow(moved) /\ moved.guard \in {c.guard, ClearGuard(c.guard)} /\ moved.view = c.view
  BY <1>1, RefillWindow, NextInstancesWindow DEF IsMovedTo
<1> DEFINE g == InstallSeqNo(moved.guard, seq)
<1>3. IsGuard(g) /\ g.canPropose = c.guard.canPropose
  BY <1>2 DEF InstallSeqNo, ClearGuard, IsGuard, IsWindow
<1>4. InstallSequenceNumber(c, seq) = [moved EXCEPT !.guard = g]
  BY <1>1
<1> HIDE DEF g
<1> QED
  BY <1>2, <1>3, <1>4, GuardWindow DEF g

LEMMA InstallSequenceNumberGuard ==
  ASSUME NEW c, IsWindow(c), NEW seq \in Nat
  PROVE  InstallSequenceNumber(c, seq).guard.view = c.guard.view
<1>1. PICK moved :
        /\ IsMovedTo(moved, c, seq)
        /\ InstallSequenceNumber(c, seq) = [moved EXCEPT !.guard = InstallSeqNo(@, seq)]
  BY ZenonT(60), InstallSequenceNumberShape
<1>2. IsWindow(moved) /\ (moved.guard = c.guard \/ moved.guard = ClearGuard(c.guard))
  BY <1>1, RefillWindow, NextInstancesWindow DEF IsMovedTo
<1>3. moved.guard.view = c.guard.view
  <2>1. ClearGuard(c.guard).view = c.guard.view
    BY ZenonT(60) DEF ClearGuard, IsGuard, IsWindow
  <2> QED
    BY <1>2, <2>1
<1>4. InstallSeqNo(moved.guard, seq).view = moved.guard.view
  BY ZenonT(60), <1>2 DEF InstallSeqNo, IsGuard, IsWindow
<1> DEFINE g == InstallSeqNo(moved.guard, seq)
           e == [moved EXCEPT !.guard = g]
<1>5. InstallSequenceNumber(c, seq) = e
  BY <1>1
<1> HIDE DEF g
<1>6. e.guard = g
  BY <1>2 DEF IsWindow, IsConsensusStruct
<1> HIDE DEF e
<1> QED
  BY <1>3, <1>4, <1>5, <1>6 DEF g

LEMMA InstallViewWindow ==
  ASSUME NEW c, IsWindow(c), NEW view
  PROVE  /\ IsWindow(InstallView(c, view)) /\ InstallView(c, view).seqNo = c.seqNo
         /\ InstallView(c, view).guard.canPropose = c.guard.canPropose
<1> DEFINE index == view.seq - c.view.seq
           early == IF index <= Len(c.viewQueue) THEN c.viewQueue[index] ELSE << >>
           base  == BaseSeq(c.tbo)
           ahead(k) == {early[j].seq - base + 1 :
                          j \in {i \in DOMAIN early : early[i].kind = k /\ early[i].seq >= base}}
           guard == InstallViewInGuard(c.guard, view)
           decisions == [i \in 1..Watermark |->
                           InitDecision(c.seqNo + i - 1, view,
                             [k \in Kinds |-> Sorted(early, k, c.seqNo + i - 1)])]
           signalled == c.seqNo..(c.seqNo + Watermark - 1)
           tbo == [c.tbo EXCEPT !.queue =
                     [k \in Kinds |->
                        [j \in 1..Highest(ahead(k)) |-> Sorted(early, k, base + j - 1)]]]
           viewQueue == DropQueues(c.viewQueue, index)
           e == [c EXCEPT !.view = view, !.guard = guard, !.decisions = decisions,
                          !.signalled = signalled, !.tbo = tbo, !.viewQueue = viewQueue]
<1>1. InstallView(c, view) = c \/ InstallView(c, view) = e
  BY ZenonT(60) DEF InstallView
<1>2. AreDecisions(decisions, c.seqNo)
  <2> HIDE DEF early
  <2> QED
    BY InitDecisionIs, WatermarkNat DEF AreDecisions
<1>3. IsGuard(guard) /\ guard.canPropose = c.guard.canPropose
  BY ZenonT(60) DEF InstallViewInGuard, IsGuard, IsWindow
<1>4. IsTbo(tbo) /\ tbo.curr = c.seqNo
  <2> HIDE DEF early, base, ahead
  <2> QED
    BY ZenonT(60) DEF IsTbo, IsWindow
<1>5. signalled \subseteq Nat /\ \A s \in signalled : s < c.seqNo + Watermark
  BY WatermarkNat DEF IsWindow
<1> HIDE DEF decisions, guard, tbo, signalled, viewQueue, early, base, ahead, index
<1>6. /\ IsConsensusStruct(e) /\ e.seqNo = c.seqNo /\ e.decisions = decisions
      /\ e.signalled = signalled /\ e.tbo = tbo /\ e.guard = guard
  BY ZenonT(60) DEF IsWindow, IsConsensusStruct
<1> HIDE DEF e
<1>7. IsWindow(e)
  BY ZenonT(60), <1>2, <1>3, <1>4, <1>5, <1>6 DEF IsWindow
<1> QED
  BY <1>1, <1>3, <1>6, <1>7

LEMMA FinalizeViewChangeWindow ==
  ASSUME NEW c, IsWindow(c), NEW view, NEW m
  PROVE  LET e == FinalizeViewChange(c, view, m)
         IN  /\ IsWindow(e) /\ e.guard.canPropose = TRUE
             /\ e.seqNo = c.seqNo /\ e.view = InstallView(c, view).view
             /\ e.guard.view = InstallView(c, view).guard.view
             /\ \A v \in FinalizeViewChangeVotes(c, view, m) : v.seq \in Nat
<1> DEFINE installed == InstallView(c, view)
           d == SkipInitPhase(installed.decisions[1])
           skipped == [installed EXCEPT !.decisions[1] = d]
           processed == Processed(skipped, m)
<1>1. IsWindow(installed) /\ installed.seqNo = c.seqNo
  BY InstallViewWindow
<1>2. /\ FinalizeViewChange(c, view, m) = [processed EXCEPT !.guard = UnlockConsensus(@)]
      /\ FinalizeViewChangeVotes(c, view, m) = Votes(skipped, m)
  BY DEF FinalizeViewChange, FinalizeViewChangeVotes
<1> HIDE DEF installed
<1>3. IsDecision(d) /\ d.seq = installed.seqNo + 1 - 1
  <2>1. 1 \in 1..Watermark
    BY WatermarkNat
  <2>2. IsDecision(installed.decisions[1]) /\ installed.decisions[1].seq = installed.seqNo + 1 - 1
    BY <1>1, <2>1 DEF IsWindow, AreDecisions
  <2> QED
    BY <2>2, PollIs
<1> HIDE DEF d
<1>4. /\ IsWindow(skipped) /\ skipped.seqNo = installed.seqNo
      /\ skipped.guard = installed.guard /\ skipped.view = installed.view
  BY <1>1, <1>3, PutDecision, WatermarkNat
<1> HIDE DEF skipped
<1>5. /\ IsWindow(processed) /\ processed.seqNo = c.seqNo
      /\ processed.guard = installed.guard /\ processed.view = installed.view
      /\ \A v \in Votes(skipped, m) : v.seq \in Nat
  BY <1>1, <1>4, ProcessedWindow
<1> HIDE DEF processed
<1> DEFINE g == UnlockConsensus(processed.guard)
           e == [processed EXCEPT !.guard = g]
<1>6. IsGuard(g) /\ g.canPropose = TRUE /\ g.view = processed.guard.view
  BY ZenonT(60), <1>5 DEF UnlockConsensus, IsGuard, IsWindow
<1>7. FinalizeViewChange(c, view, m) = e
  BY <1>2
<1> HIDE DEF g
<1>8. IsWindow(e) /\ e.seqNo = processed.seqNo /\ e.guard = g /\ e.view = processed.view
  BY <1>5, <1>6, GuardWindow
<1> HIDE DEF e
<1> QED
  BY ZenonT(60), <1>2, <1>5, <1>6, <1>7, <1>8 DEF installed
-----------------------------------------------------------------------------
(***************************************************************************)
(* The actions.  But for the end of a view change none of them locks or    *)
(* unlocks the guard.                                                      *)
(***************************************************************************)
KeepsLock == consensus'.guard.canPropose = consensus.guard.canPropose

LEMMA FinalizeAllPossibleWindow ==
  ASSUME NEW c, IsWindow(c), FinalizeAllPossible(c)
  PROVE  IsWindow(consensus') /\ consensus'.guard = c.guard /\ consensus'.view = c.view
<1>1. PICK n \in 0..Watermark : consensus' = NextInstances(c, n, c.view)
  BY DEF FinalizeAllPossible
<1> QED
  BY <1>1, NextInstancesWindow

LEMMA AdvConsensusShape ==
  ASSUME NEW c, IsWindow(c), NEW m, NEW rest, AdvConsensus(c, m, rest)
  PROVE  /\ IsWindow(consensus') /\ consensus'.guard = c.guard /\ consensus'.view = c.view
         /\ net' = rest \cup Votes(c, m) /\ \A v \in Votes(c, m) : v.seq \in Nat
<1> DEFINE next == Processed(c, m)
<1>1. /\ IsWindow(next) /\ next.guard = c.guard /\ next.view = c.view
      /\ \A v \in Votes(c, m) : v.seq \in Nat
  BY ProcessedWindow
<1>2. /\ net' = rest \cup Votes(c, m)
      /\ FinalizeAllPossible(next) \/ consensus' = next
  BY DEF AdvConsensus
<1> HIDE DEF next
<1> QED
  BY <1>1, <1>2, FinalizeAllPossibleWindow

LEMMA AdvConsensusWindow ==
  ASSUME NEW c, IsWindow(c), NEW m, NEW rest, \A p \in rest : p.seq \in Nat,
         AdvConsensus(c, m, rest)
  PROVE  WindowInv' /\ consensus'.guard = c.guard /\ consensus'.view = c.view
BY AdvConsensusShape DEF WindowInv

\* A signal that is not stale is for an instance of the window.
LEMMA PolledIs ==
  ASSUME IsWindow(consensus), NEW s, IsNextSignal(consensus, s)
  PROVE  /\ s \in Nat
         /\ s >= consensus.seqNo =>
              /\ Position(consensus, s) \in 1..Watermark
              /\ IsDecision(Polled(consensus, s))
              /\ Polled(consensus, s).seq = consensus.seqNo + Position(consensus, s) - 1
<1>1. s \in Nat /\ s < consensus.seqNo + Watermark /\ consensus.seqNo \in Nat
  BY DEF IsWindow, IsNextSignal
<1>2. s >= consensus.seqNo => Position(consensus, s) \in 1..Watermark
  BY <1>1, WatermarkNat DEF Position
<1> QED
  BY <1>1, <1>2 DEF IsWindow, AreDecisions, Polled

LEMMA UnsignalWindow ==
  ASSUME NEW c, IsWindow(c), NEW s
  PROVE  /\ IsWindow(Unsignal(c, s)) /\ Unsignal(c, s).seqNo = c.seqNo
         /\ Unsignal(c, s).guard = c.guard /\ Unsignal(c, s).decisions = c.decisions
         /\ Unsignal(c, s).view = c.view /\ Unsignal(c, s).signalled = c.signalled \ {s}
BY DEF Unsignal, IsWindow, IsConsensusStruct

\* e has the window, the view and the lock of c.
SamePlace(e, c) ==
  /\ IsWindow(e) /\ e.seqNo = c.seqNo /\ e.view = c.view
  /\ e.guard.view = c.guard.view /\ e.guard.canPropose = c.guard.canPropose

LEMMA PollShape ==
  ASSUME IsWindow(consensus), NEW s, Poll(s)
  PROVE  \/ SamePlace(consensus', consensus) /\ UNCHANGED <<net, lastExec, executed>>
         \/ \E e, m : SamePlace(e, consensus) /\ AdvConsensus(e, m, net)
<1> DEFINE i == Position(consensus, s)
           d == Polled(consensus, s)
<1>1. CASE PollStale(s)
  <2>1. consensus' = Unsignal(consensus, s) /\ UNCHANGED <<net, lastExec, executed>>
    BY <1>1 DEF PollStale
  <2> QED
    BY <2>1, UnsignalWindow DEF SamePlace
<1>2. CASE PollTryPropose(s)
  <2> DEFINE e == [consensus EXCEPT !.decisions[i] = AfterTryPropose(d)]
             g == IF Self \in consensus.view.leaders THEN MakeSeqAvailable(consensus.guard, s)
                                                     ELSE consensus.guard
  <2>1. s \in Nat /\ i \in 1..Watermark /\ IsDecision(d) /\ d.seq = consensus.seqNo + i - 1
    BY <1>2, PolledIs DEF PollTryPropose
  <2>2. /\ IsGuard(g) /\ g.view = consensus.guard.view
        /\ g.canPropose = consensus.guard.canPropose
    BY ZenonT(60), <2>1 DEF MakeSeqAvailable, IsGuard, IsWindow
  <2>3. consensus' = [e EXCEPT !.guard = g] /\ UNCHANGED <<net, lastExec, executed>>
    <3>1. DOMAIN consensus = DOMAIN e /\ e.guard = consensus.guard
      BY DEF IsWindow, IsConsensusStruct
    <3> QED
      BY <1>2, <3>1 DEF PollTryPropose, Polled
  <2>4. IsWindow(e) /\ e.seqNo = consensus.seqNo /\ e.view = consensus.view
    <3>1. IsDecision(AfterTryPropose(d)) /\ AfterTryPropose(d).seq = consensus.seqNo + i - 1
      BY <2>1, PollIs
    <3> HIDE DEF i, d
    <3> QED
      BY <2>1, <3>1, PutDecision
  <2> HIDE DEF e, g
  <2> QED
    BY <2>2, <2>3, <2>4, GuardWindow DEF SamePlace
<1>3. CASE PollNextMessage(s)
  <2> DEFINE e == [consensus EXCEPT !.decisions[i] = AfterNextMessage(d)]
  <2>1. i \in 1..Watermark /\ IsDecision(d) /\ d.seq = consensus.seqNo + i - 1
    BY <1>3, PolledIs DEF PollNextMessage
  <2>2. SamePlace(e, consensus)
    <3>1. IsDecision(AfterNextMessage(d)) /\ AfterNextMessage(d).seq = consensus.seqNo + i - 1
      BY <2>1, PollIs
    <3> HIDE DEF i, d
    <3> QED
      BY <2>1, <3>1, PutDecision DEF SamePlace
  <2>3. AdvConsensus(e, NextMessage(d), net)
    BY <1>3 DEF PollNextMessage, Polled
  <2> HIDE DEF e
  <2> QED
    BY ZenonT(60), <2>2, <2>3
<1>4. CASE PollRecv(s)
  <2> DEFINE u == Unsignal(consensus, s)
             e == [u EXCEPT !.decisions[i] = AfterRecv(d)]
  <2>1. i \in 1..Watermark /\ IsDecision(d) /\ d.seq = consensus.seqNo + i - 1
    BY <1>4, PolledIs DEF PollRecv
  <2>2. /\ IsWindow(u) /\ u.seqNo = consensus.seqNo /\ u.guard = consensus.guard
        /\ u.decisions = consensus.decisions /\ u.view = consensus.view
    BY UnsignalWindow
  <2>3. consensus' = e /\ UNCHANGED <<net, lastExec, executed>>
    BY <1>4, <2>2 DEF PollRecv, Polled
  <2>4. SamePlace(e, consensus)
    <3>1. IsDecision(AfterRecv(d)) /\ AfterRecv(d).seq = u.seqNo + i - 1
      BY <2>1, <2>2, PollIs
    <3> HIDE DEF i, d, u
    <3> QED
      BY <2>1, <2>2, <3>1, PutDecision DEF SamePlace
  <2> QED
    BY <2>3, <2>4
<1> QED
  BY <1>1, <1>2, <1>3, <1>4 DEF Poll

LEMMA PollWindow ==
  ASSUME WindowInv, NEW s, Poll(s)
  PROVE  WindowInv' /\ KeepsLock
<1>1. ASSUME NEW e, NEW m, SamePlace(e, consensus), AdvConsensus(e, m, net)
      PROVE  WindowInv' /\ KeepsLock
  BY <1>1, AdvConsensusWindow DEF WindowInv, KeepsLock, SamePlace
<1>2. CASE SamePlace(consensus', consensus) /\ UNCHANGED <<net, lastExec, executed>>
  BY <1>2 DEF WindowInv, KeepsLock, SamePlace
<1>3. \/ SamePlace(consensus', consensus) /\ UNCHANGED <<net, lastExec, executed>>
      \/ \E e, m : SamePlace(e, consensus) /\ AdvConsensus(e, m, net)
  BY ZenonT(60), PollShape DEF WindowInv
<1> QED
  BY ZenonT(60), <1>1, <1>2, <1>3

LEMMA PollDecidedWindow ==
  ASSUME WindowInv, PollDecided
  PROVE  WindowInv' /\ KeepsLock
<1>1. FinalizeAllPossible(consensus) /\ net' = net
  BY DEF PollDecided
<1> QED
  BY <1>1, FinalizeAllPossibleWindow DEF WindowInv, KeepsLock

LEMMA ReceiveWindow ==
  ASSUME WindowInv, NEW m \in net, Receive(m)
  PROVE  WindowInv' /\ KeepsLock
<1>1. AdvConsensus(consensus, m, net \ {m}) /\ \A p \in net \ {m} : p.seq \in Nat
  BY DEF Receive, WindowInv
<1> QED
  BY <1>1, AdvConsensusWindow DEF WindowInv, KeepsLock

LEMMA ProposeWindow ==
  ASSUME WindowInv, NEW s \in consensus.guard.seqs, Propose(s)
  PROVE  WindowInv' /\ KeepsLock
<1> DEFINE g == TakeSeqNo(consensus.guard, s)
<1>1. s \in Nat /\ IsGuard(g) /\ g.canPropose = consensus.guard.canPropose
  BY ZenonT(60) DEF TakeSeqNo, IsGuard, WindowInv, IsWindow
<1>2. consensus' = [consensus EXCEPT !.guard = g]
  BY DEF Propose
<1>3. \A m \in net' : m.seq \in Nat
  BY <1>1 DEF Propose, PrePrepare, WindowInv
<1> HIDE DEF g
<1> QED
  BY <1>1, <1>2, <1>3, GuardWindow DEF WindowInv, KeepsLock

LEMMA StateInstalledWindow ==
  ASSUME WindowInv, NEW seq \in InstallSeq, StateInstalled(seq)
  PROVE  WindowInv' /\ KeepsLock
<1>1. seq \in Nat
  BY WindowAssumption
<1>2. consensus' = InstallSequenceNumber(consensus, seq) /\ net' = net
  BY DEF StateInstalled
<1> QED
  BY <1>1, <1>2, InstallSequenceNumberWindow DEF WindowInv, KeepsLock

LEMMA ViewChangedWindow ==
  ASSUME WindowInv, NEW v, NEW proof, NEW m, ViewChanged(v, proof, m)
  PROVE  WindowInv'
<1> DEFINE c == IF CatchesUp(proof) THEN NextInstances(consensus, 1, View(v)) ELSE consensus
<1>1. IsWindow(c)
  <2>1. 1 \in 0..Watermark
    BY WatermarkNat
  <2> QED
    BY <2>1, NextInstancesWindow DEF WindowInv
<1>2. /\ consensus' = FinalizeViewChange(c, View(v), m)
      /\ net' = net \cup FinalizeViewChangeVotes(c, View(v), m)
  BY DEF ViewChanged
<1> HIDE DEF c
<1> QED
  BY ZenonT(60), <1>1, <1>2, FinalizeViewChangeWindow DEF WindowInv

LEMMA InitWindow ==
  ASSUME Init
  PROVE  WindowInv
<1> DEFINE decisions == [i \in 1..Watermark |-> InitDecision(i - 1, View(0), EmptyQueue)]
<1>1. AreDecisions(decisions, 0)
  BY InitDecisionIs, WatermarkNat DEF AreDecisions
<1>2. IsTbo(EmptyTbo(0)) /\ EmptyTbo(0).curr = 0
  BY DEF EmptyTbo, IsTbo
<1>3. IsGuard(InitGuard(View(0)))
  BY ZenonT(60) DEF InitGuard, IsGuard
<1>4. consensus = [seqNo |-> 0, view |-> View(0), decisions |-> decisions,
                   signalled |-> 0..(Watermark - 1), tbo |-> EmptyTbo(0),
                   viewQueue |-> << >>, guard |-> InitGuard(View(0))]
  BY DEF Init
<1> HIDE DEF decisions
<1>5. IsWindow(consensus)
  BY <1>1, <1>2, <1>3, <1>4, WatermarkNat DEF IsWindow, IsConsensusStruct
<1>6. \A m \in net : m.seq \in Nat
  <2> DEFINE Proposals(p) == {PrePrepare(p.view, p.seq, b) : b \in Batch}
             VotesFor(p) == {Vote(p.kind, r, p.view, p.seq, digest) :
                               r \in Peers, digest \in Digest(p.view)}
             Sent(p) == IF p.kind = "PrePrepare" THEN Proposals(p) ELSE VotesFor(p)
  <2>1. net = UNION {Sent(p) : p \in PeerSends}
    BY DEF Init, PeerMessage
  <2>2. ASSUME NEW p \in PeerSends, NEW m \in Sent(p)
        PROVE  m.seq \in Nat
    <3>1. p.seq \in Nat
      BY WindowAssumption
    <3>2. \A o \in Proposals(p) : o.seq \in Nat
      BY <3>1 DEF PrePrepare
    <3>3. \A o \in VotesFor(p) : o.seq \in Nat
      BY <3>1 DEF Vote
    <3> QED
      BY <2>2, <3>2, <3>3
  <2> HIDE DEF Sent
  <2> QED
    BY <2>1, <2>2
<1> QED
  BY <1>5, <1>6 DEF WindowInv

LEMMA NextWindow ==
  ASSUME WindowInv, [Next]_vars
  PROVE  WindowInv'
<1>1. CASE Run
  BY <1>1, PollWindow, PollDecidedWindow, ReceiveWindow DEF Run
<1>2. ASSUME NEW m \in net, QueueOffContext(m)
      PROVE  WindowInv'
  <2>1. consensus' = Queue(consensus, m) /\ net' = net \ {m} /\ m.seq \in Nat
    BY <1>2 DEF QueueOffContext, WindowInv
  <2> QED
    BY <2>1, QueueWindow DEF WindowInv
<1>3. ASSUME NEW s \in consensus.guard.seqs, Propose(s)
      PROVE  WindowInv'
  BY <1>3, ProposeWindow
<1>4. ASSUME NEW seq \in InstallSeq, StateInstalled(seq)
      PROVE  WindowInv'
  BY <1>4, StateInstalledWindow
<1>5. ASSUME NEW v \in 1..MaxView, ViewInstalled(v)
      PROVE  WindowInv'
  <2>1. consensus' = InstallView(consensus, View(v)) /\ net' = net
    BY <1>5 DEF ViewInstalled
  <2> QED
    BY <2>1, InstallViewWindow DEF WindowInv
<1>6. ASSUME NEW v \in 1..MaxView, NEW proof \in ProofSeq \cup {NoDecision},
             NEW f \in 0..MaxSeq, NEW b \in Batch, ViewChanged(v, proof, PrePrepare(v, f, b))
      PROVE  WindowInv'
  BY <1>6, ViewChangedWindow
<1>7. CASE UNCHANGED vars
  BY <1>7 DEF vars, WindowInv
<1> QED
  BY <1>1, <1>2, <1>3, <1>4, <1>5, <1>6, <1>7 DEF Next

(***************************************************************************)
(* The window, the TboQueue and the signals of a Consensus struct stay     *)
(* aligned: install_sequence_number() never fails its assertions, whatever *)
(* messages wait in the TboQueue, and poll() never leaves the window.      *)
(***************************************************************************)
THEOREM WindowAlignedHolds == Spec => []WindowAligned
<1>1. Init => WindowInv
  BY InitWindow
<1>2. WindowInv /\ [Next]_vars => WindowInv'
  BY NextWindow
<1>3. WindowInv => WindowAligned
  <2>1. WindowInv => Len(consensus.decisions) = Watermark
    BY WatermarkNat DEF WindowInv, IsWindow, AreDecisions
  <2> QED
    BY ZenonT(60), <2>1 DEF WindowInv, IsWindow, AreDecisions, WindowAligned
<1> QED
  BY <1>1, <1>2, <1>3, PTL DEF Spec
-----------------------------------------------------------------------------
(***************************************************************************)
(* No wakeup is lost.                                                      *)
(***************************************************************************)
\* getQueue is up if poll() would find a message, now or in its first phase.
Awake(d) ==
  /\ d.phase \in Phases
  /\ d.queue = [k \in Kinds |-> d.queue[k]]
  /\ d.getQueue \in BOOLEAN
  /\ d.phase = "Initialize" => \A k \in Kinds : d.queue[k] # << >> => d.getQueue
  /\ d.phase \in WorkingPhases => (d.queue[AwaitedKind(d.phase)] # << >> => d.getQueue)

\* The instance has been polled and found nothing.
Quiet(d) ==
  /\ d.phase # "Initialize"
  /\ d.phase \in WorkingPhases => d.queue[AwaitedKind(d.phase)] = << >>

IsAwake(c) ==
  \A i \in 1..Watermark : /\ Awake(c.decisions[i])
                          /\ c.seqNo + i - 1 \in c.signalled \/ Quiet(c.decisions[i])

WakeInv == WindowInv /\ IsAwake(consensus) /\ consensus.view.seq \in Nat

-----------------------------------------------------------------------------
(***************************************************************************)
(* The operations of an instance.                                          *)
(***************************************************************************)
LEMMA AwaitedIs ==
  ASSUME NEW p \in WorkingPhases
  PROVE  AwaitedKind(p) \in Kinds /\ p \in Phases /\ FollowingPhase(p) \in Phases
BY DEF WorkingPhases, AwaitedKind, Kinds, Phases, FollowingPhase

\* An updated function has the domain it had.
LEMMA UpdatedShape ==
  ASSUME NEW S, NEW f, f = [x \in S |-> f[x]], NEW a, NEW v
  PROVE  LET g == [f EXCEPT ![a] = v] IN g = [x \in S |-> g[x]]
OBVIOUS

LEMMA InitDecisionAwake ==
  ASSUME NEW s, NEW view, NEW queue, queue = [k \in Kinds |-> queue[k]]
  PROVE  Awake(InitDecision(s, view, queue)) /\ InitDecision(s, view, queue).phase = "Initialize"
<1> DEFINE d == InitDecision(s, view, queue)
<1>1. /\ d.phase = "Initialize" /\ d.queue = queue
      /\ d.getQueue = \E k \in Kinds : queue[k] # << >>
  BY ZenonT(60) DEF InitDecision
<1> HIDE DEF d
<1>2. d.phase \in Phases /\ d.phase \notin WorkingPhases
  BY <1>1 DEF Phases, WorkingPhases
<1>3. d.getQueue \in BOOLEAN /\ \A k \in Kinds : d.queue[k] # << >> => d.getQueue
  BY ZenonT(60), <1>1
<1>4. d.queue = [k \in Kinds |-> d.queue[k]]
  BY ZenonT(60), <1>1
<1> QED
  BY ZenonT(60), <1>1, <1>2, <1>3, <1>4 DEF Awake, d

\* With getQueue up nothing more is asked of the queues.
LEMMA AwakeUp ==
  ASSUME NEW d, d.phase \in Phases, d.queue = [k \in Kinds |-> d.queue[k]], d.getQueue = TRUE
  PROVE  Awake(d)
BY ZenonT(60) DEF Awake

LEMMA EnqueueAwake ==
  ASSUME NEW d, IsDecision(d), Awake(d), NEW m
  PROVE  Awake(Enqueue(d, m))
<1> DEFINE q == [d.queue EXCEPT ![m.kind] = Append(d.queue[m.kind], m)]
           e == [d EXCEPT !.queue = q, !.getQueue = TRUE]
<1>0. d.queue = [k \in Kinds |-> d.queue[k]]
  BY ZenonT(60) DEF Awake
<1>1. Enqueue(d, m) = e
  BY DEF Enqueue
<1>2. q = [k \in Kinds |-> q[k]]
  BY ZenonT(60), <1>0, UpdatedShape
<1> HIDE DEF q
<1>3. e.phase = d.phase /\ e.queue = q /\ e.getQueue = TRUE
  BY DEF IsDecision
<1> HIDE DEF e
<1>4. Awake(e)
  BY ZenonT(60), <1>2, <1>3, AwakeUp DEF Awake
<1> QED
  BY <1>1, <1>4

LEMMA PollAwake ==
  ASSUME NEW d, IsDecision(d), Awake(d)
  PROVE  /\ d.phase = "Initialize" => Awake(AfterTryPropose(d)) /\ Awake(SkipInitPhase(d))
         /\ PollFindsMessage(d) => Awake(AfterNextMessage(d))
         /\ ~ PollTriesPropose(d) /\ ~ PollFindsMessage(d) =>
              Awake(AfterRecv(d)) /\ Quiet(AfterRecv(d))
<1>1. ASSUME d.phase = "Initialize", NEW e, e.phase = "PrePreparing", e.queue = d.queue,
             e.getQueue = d.getQueue
      PROVE  Awake(e)
  <2>1. AwaitedKind(e.phase) = "PrePrepare" /\ "PrePrepare" \in Kinds
    BY <1>1 DEF AwaitedKind, Kinds
  <2>2. e.phase \in Phases /\ e.phase # "Initialize"
    BY <1>1 DEF Phases
  <2> QED
    BY ZenonT(60), <1>1, <2>1, <2>2 DEF Awake
<1>2. d.phase = "Initialize" => Awake(AfterTryPropose(d)) /\ Awake(SkipInitPhase(d))
  <2>1. /\ AfterTryPropose(d).phase = "PrePreparing" /\ AfterTryPropose(d).queue = d.queue
        /\ AfterTryPropose(d).getQueue = d.getQueue
    BY DEF AfterTryPropose, IsDecision
  <2>2. /\ SkipInitPhase(d).phase = "PrePreparing" /\ SkipInitPhase(d).queue = d.queue
        /\ SkipInitPhase(d).getQueue = d.getQueue
    BY ZenonT(60) DEF SkipInitPhase, IsDecision
  <2> QED
    BY ZenonT(60), <1>1, <2>1, <2>2
<1>3. PollFindsMessage(d) => Awake(AfterNextMessage(d))
  <2> SUFFICES ASSUME PollFindsMessage(d)
               PROVE  Awake(AfterNextMessage(d))
    OBVIOUS
  <2> DEFINE q == [d.queue EXCEPT ![AwaitedKind(d.phase)] = Tail(d.queue[AwaitedKind(d.phase)])]
             e == [d EXCEPT !.queue = q]
  <2>0. d.queue = [k \in Kinds |-> d.queue[k]]
    BY ZenonT(60) DEF Awake
  <2>1. AfterNextMessage(d) = e
    BY DEF AfterNextMessage
  <2>2. q = [k \in Kinds |-> q[k]]
    BY ZenonT(60), <2>0, UpdatedShape
  <2> HIDE DEF q
  <2>3. e.phase = d.phase /\ e.queue = q /\ e.getQueue = d.getQueue
    BY DEF IsDecision
  <2>4. d.getQueue = TRUE
    BY ZenonT(60) DEF Awake, PollFindsMessage
  <2> HIDE DEF e
  <2> QED
    BY ZenonT(60), <2>1, <2>2, <2>3, <2>4, AwakeUp DEF Awake
<1>4. ~ PollTriesPropose(d) /\ ~ PollFindsMessage(d) =>
        Awake(AfterRecv(d)) /\ Quiet(AfterRecv(d))
  <2> SUFFICES ASSUME ~ PollTriesPropose(d), ~ PollFindsMessage(d)
               PROVE  Awake(AfterRecv(d)) /\ Quiet(AfterRecv(d))
    OBVIOUS
  <2> DEFINE e == AfterRecv(d)
  <2>1. e.phase = d.phase /\ e.queue = d.queue /\ e.getQueue \in {d.getQueue, FALSE}
    BY ZenonT(60) DEF AfterRecv, IsDecision
  <2>2. d.phase # "Initialize"
    BY DEF PollTriesPropose
  <2>3. d.phase \in WorkingPhases => d.queue[AwaitedKind(d.phase)] = << >>
    BY ZenonT(60) DEF PollFindsMessage, Awake
  <2> HIDE DEF e
  <2>4. e.getQueue \in BOOLEAN
    BY ZenonT(60), <2>1 DEF Awake
  <2>5. Awake(e) /\ Quiet(e)
    BY ZenonT(60), <2>1, <2>2, <2>3, <2>4 DEF Awake, Quiet
  <2> QED
    BY <2>5 DEF e
<1> QED
  BY <1>2, <1>3, <1>4

\* A message is handled in a working phase.  One that completes the phase
\* raises getQueue, and votes are sent unless the instance is decided.
LEMMA AfterAcceptAwake ==
  ASSUME NEW d, IsDecision(d), Awake(d), NEW m, NEW view, Accepts(d, m, view, Self)
  PROVE  /\ Awake(AfterAccept(d, m, view))
         /\ VotesSent(d, m, view, Self) # {} \/ (Quiet(d) => Quiet(AfterAccept(d, m, view)))
<1> DEFINE e == Accept(d, m)
           f == [e EXCEPT !.phase = FollowingPhase(d.phase),
                          !.received = 0,
                          !.getQueue = IF d.phase = "Committing" THEN @ ELSE TRUE]
           g == [e EXCEPT !.received = @ + 1]
<1>1. d.phase \in WorkingPhases
  <2>1. d.phase # "Initialize" /\ d.phase # "Decided"
    BY ZenonT(60) DEF Accepts, Considers, Queues, Ignores
  <2> QED
    BY <2>1 DEF Awake, Phases, WorkingPhases
<1>2. IsDecision(e) /\ e.phase = d.phase /\ e.queue = d.queue /\ e.getQueue = d.getQueue
  <2>1. CASE m.kind = "PrePrepare"
    BY <2>1 DEF Accept, IsDecision
  <2>2. CASE m.kind = "Prepare"
    BY <2>2 DEF Accept, IsDecision
  <2>3. CASE m.kind \notin {"PrePrepare", "Prepare"}
    BY <2>3 DEF Accept, IsDecision
  <2> QED
    BY <2>1, <2>2, <2>3
<1>3. AfterAccept(d, m, view) = IF CompletesPhase(d, m, view) THEN f ELSE g
  BY DEF AfterAccept
<1> HIDE DEF e
<1>4. CASE ~ CompletesPhase(d, m, view)
  <2>1. g.phase = d.phase /\ g.queue = d.queue /\ g.getQueue = d.getQueue
    BY <1>2 DEF IsDecision
  <2> HIDE DEF g
  <2>2. Awake(g) /\ (Quiet(d) => Quiet(g))
    BY ZenonT(60), <2>1 DEF Awake, Quiet
  <2> QED
    BY <1>3, <1>4, <2>2
<1>5. CASE CompletesPhase(d, m, view)
  <2>1. /\ f.phase = FollowingPhase(d.phase) /\ f.queue = d.queue
        /\ f.getQueue = IF d.phase = "Committing" THEN d.getQueue ELSE TRUE
    BY ZenonT(60), <1>2 DEF IsDecision
  <2>2. AfterAccept(d, m, view) = f
    BY <1>3, <1>5
  <2> HIDE DEF f
  <2>3. CASE d.phase = "Committing"
    <3>1. f.phase = "Decided" /\ f.getQueue = d.getQueue
      BY <2>1, <2>3 DEF FollowingPhase
    <3>2. f.phase \in Phases /\ f.phase \notin WorkingPhases /\ f.phase # "Initialize"
      BY <3>1 DEF Phases, WorkingPhases
    <3>3. Awake(f) /\ Quiet(f)
      BY ZenonT(60), <2>1, <3>1, <3>2 DEF Awake, Quiet
    <3> QED
      BY <2>2, <3>3
  <2>4. CASE d.phase # "Committing"
    <3>1. f.phase \in Phases /\ f.getQueue = TRUE
      BY <1>1, <2>1, <2>4, AwaitedIs
    <3>2. Awake(f)
      BY ZenonT(60), <2>1, <3>1, AwakeUp DEF Awake
    <3>3. VotesSent(d, m, view, Self) # {}
      BY ZenonT(60), <1>5, <2>4 DEF VotesSent
    <3> QED
      BY <2>2, <3>2, <3>3
  <2> QED
    BY <2>3, <2>4
<1> QED
  BY <1>4, <1>5
-----------------------------------------------------------------------------
(***************************************************************************)
(* What the operations of the struct do to its parts.                      *)
(***************************************************************************)
LEMMA PutShape ==
  ASSUME NEW c, IsWindow(c), NEW i, NEW d, NEW signals
  PROVE  LET e == [c EXCEPT !.decisions[i] = d, !.signalled = signals]
         IN  /\ e.decisions = [c.decisions EXCEPT ![i] = d] /\ e.signalled = signals
             /\ e.seqNo = c.seqNo /\ e.view = c.view /\ e.tbo = c.tbo
             /\ e.viewQueue = c.viewQueue
<1> DEFINE decisions == [c.decisions EXCEPT ![i] = d]
           e == [c EXCEPT !.decisions = decisions, !.signalled = signals]
<1> HIDE DEF decisions
<1>1. /\ e.decisions = decisions /\ e.signalled = signals
      /\ e.seqNo = c.seqNo /\ e.view = c.view /\ e.tbo = c.tbo
      /\ e.viewQueue = c.viewQueue
  BY ZenonT(60) DEF IsWindow, IsConsensusStruct
<1> QED
  BY <1>1 DEF decisions

LEMMA StoreForLaterShape ==
  ASSUME NEW c, IsWindow(c), NEW m
  PROVE  LET e == StoreForLater(c, m)
         IN  /\ e.decisions = c.decisions /\ e.signalled = c.signalled
             /\ e.seqNo = c.seqNo /\ e.view = c.view
             /\ \/ e.tbo = c.tbo /\ e.viewQueue = c.viewQueue
                \/ /\ FromLaterView(c, m) /\ e.tbo = c.tbo
                   /\ e.viewQueue = Put(c.viewQueue, m.view - c.view.seq, m)
                \/ /\ BeyondWindow(c, m) /\ e.tbo = TboQueue(c.tbo, m)
                   /\ e.viewQueue = c.viewQueue
<1> DEFINE t == TboQueue(c.tbo, m)
           q == Put(c.viewQueue, m.view - c.view.seq, m)
           e == StoreForLater(c, m)
<1>1. \/ FromLaterView(c, m) /\ e = [c EXCEPT !.viewQueue = q]
      \/ BeyondWindow(c, m) /\ e = [c EXCEPT !.tbo = t]
      \/ e = c
  BY DEF StoreForLater
<1> HIDE DEF t, q, e
<1>2. CASE FromLaterView(c, m) /\ e = [c EXCEPT !.viewQueue = q]
  <2>1. /\ e.decisions = c.decisions /\ e.signalled = c.signalled /\ e.seqNo = c.seqNo
        /\ e.view = c.view /\ e.tbo = c.tbo /\ e.viewQueue = q
    BY ZenonT(60), <1>2 DEF IsWindow, IsConsensusStruct
  <2> QED
    BY ZenonT(60), <1>2, <2>1 DEF e, q
<1>3. CASE BeyondWindow(c, m) /\ e = [c EXCEPT !.tbo = t]
  <2>1. /\ e.decisions = c.decisions /\ e.signalled = c.signalled /\ e.seqNo = c.seqNo
        /\ e.view = c.view /\ e.viewQueue = c.viewQueue /\ e.tbo = t
    BY ZenonT(60), <1>3 DEF IsWindow, IsConsensusStruct
  <2> QED
    BY ZenonT(60), <1>3, <2>1 DEF e, t
<1>4. CASE e = c
  BY ZenonT(60), <1>4 DEF e
<1> QED
  BY <1>1, <1>2, <1>3, <1>4

\* A message is stored for later, or its addressee takes it or drops it.
LEMMA ProcessedShape ==
  ASSUME NEW c, IsWindow(c), NEW m
  PROVE  LET e == Processed(c, m)
             d == AddresseeOf(c, m)
             i == Position(c, m.seq)
         IN  \/ e = StoreForLater(c, m)
             \/ e = c
             \/ /\ InWindow(c, m)
                /\ e = [c EXCEPT !.decisions[i] = Enqueue(d, m), !.signalled = @ \cup {d.seq}]
             \/ /\ InWindow(c, m) /\ Accepts(d, m, c.view, Self)
                /\ e = [c EXCEPT !.decisions[i] = AfterAccept(d, m, c.view),
                                 !.signalled = @ \cup
                                   (IF VotesSent(d, m, c.view, Self) # {} THEN {d.seq} ELSE {})]
<1> DEFINE d == AddresseeOf(c, m)
<1>1. CASE ~ InWindow(c, m)
  BY <1>1 DEF Processed
<1>2. CASE InWindow(c, m) /\ Queues(d, m)
  <2> DEFINE f == Enqueue(d, m)
             i == Position(c, m.seq)
             queued == [c EXCEPT !.decisions[i] = f]
  <2>0. ~ Ignores(d, m, c.view) /\ ~ Errs(d, m, c.view, Self) /\ ~ Accepts(d, m, c.view, Self)
    <3>1. ~ Ignores(d, m, c.view)
      BY <1>2 DEF Queues, Ignores
    <3> QED
      BY <1>2, <3>1 DEF Errs, Accepts, Considers
  <2>1. Processed(c, m) = [queued EXCEPT !.signalled = @ \cup {d.seq}]
    BY ZenonT(60), <1>2, <2>0 DEF Processed, Signal
  <2> HIDE DEF f, d, i
  <2>2. [queued EXCEPT !.signalled = @ \cup {d.seq}] =
          [c EXCEPT !.decisions[i] = f, !.signalled = @ \cup {d.seq}]
    BY DEF IsWindow, IsConsensusStruct
  <2> QED
    BY ZenonT(60), <1>2, <2>1, <2>2 DEF f, d, i
<1>3. CASE InWindow(c, m) /\ ~ Queues(d, m) /\ (Ignores(d, m, c.view) \/ Errs(d, m, c.view, Self))
  BY ZenonT(60), <1>3 DEF Processed, Accepts, Errs, Considers
<1>4. CASE InWindow(c, m) /\ Accepts(d, m, c.view, Self)
  BY ZenonT(60), <1>4 DEF Processed, Accepts, Errs, Considers
<1> QED
  BY ZenonT(60), <1>1, <1>2, <1>3, <1>4 DEF Accepts, Errs, Considers
-----------------------------------------------------------------------------
(***************************************************************************)
(* The operations of the struct leave no instance asleep.                  *)
(***************************************************************************)
LEMMA AwakeKept ==
  ASSUME NEW c, IsAwake(c), NEW e, e.decisions = c.decisions, e.seqNo = c.seqNo,
         c.signalled \subseteq e.signalled
  PROVE  IsAwake(e)
BY ZenonT(60) DEF IsAwake

\* One instance is replaced by another state of it.
LEMMA AwakePut ==
  ASSUME NEW c, IsWindow(c), IsAwake(c), NEW i \in 1..Watermark, NEW d, Awake(d),
         NEW e, e.decisions = [c.decisions EXCEPT ![i] = d], e.seqNo = c.seqNo,
         \A s \in c.signalled : s # c.seqNo + i - 1 => s \in e.signalled,
         c.seqNo + i - 1 \in e.signalled \/ Quiet(d)
  PROVE  IsAwake(e)
<1> SUFFICES ASSUME NEW j \in 1..Watermark
             PROVE  /\ Awake(e.decisions[j])
                    /\ e.seqNo + j - 1 \in e.signalled \/ Quiet(e.decisions[j])
  BY DEF IsAwake
<1>1. CASE j = i
  <2>1. e.decisions[j] = d
    BY <1>1 DEF IsWindow, AreDecisions
  <2> QED
    BY <1>1, <2>1
<1>2. CASE j # i
  <2>1. e.decisions[j] = c.decisions[j]
    BY <1>2 DEF IsWindow, AreDecisions
  <2>2. c.seqNo + j - 1 # c.seqNo + i - 1
    BY <1>2, WatermarkNat DEF IsWindow
  <2>3. Awake(c.decisions[j]) /\ (c.seqNo + j - 1 \in c.signalled \/ Quiet(c.decisions[j]))
    BY ZenonT(60) DEF IsAwake
  <2> QED
    BY ZenonT(60), <2>1, <2>2, <2>3
<1> QED
  BY <1>1, <1>2

LEMMA InstanceAwake ==
  ASSUME NEW c, IsWindow(c), IsAwake(c), NEW i \in 1..Watermark
  PROVE  /\ IsDecision(c.decisions[i]) /\ Awake(c.decisions[i])
         /\ c.seqNo + i - 1 \in c.signalled \/ Quiet(c.decisions[i])
BY ZenonT(60) DEF IsAwake, IsWindow, AreDecisions

LEMMA StoreForLaterAwake ==
  ASSUME NEW c, IsWindow(c), IsAwake(c), NEW m
  PROVE  IsAwake(StoreForLater(c, m))
<1> DEFINE e == StoreForLater(c, m)
<1>1. e.decisions = c.decisions /\ e.signalled = c.signalled /\ e.seqNo = c.seqNo
  BY StoreForLaterShape
<1> HIDE DEF e
<1>2. c.signalled \subseteq e.signalled
  BY <1>1
<1>3. IsAwake(e)
  BY <1>1, <1>2, AwakeKept
<1> QED
  BY <1>3 DEF e

LEMMA QueueAwake ==
  ASSUME NEW c, IsWindow(c), IsAwake(c), NEW m, m.seq \in Nat
  PROVE  IsAwake(Queue(c, m))
<1>1. CASE InWindow(c, m)
  <2> DEFINE i == Position(c, m.seq)
             d == Enqueue(c.decisions[i], m)
             signals == c.signalled \cup {m.seq}
             e == [c EXCEPT !.decisions[i] = d, !.signalled = signals]
  <2>1. i \in 1..Watermark /\ m.seq = c.seqNo + i - 1
    BY <1>1, AddresseeIs, WatermarkNat DEF Position, IsWindow
  <2>2. Awake(d)
    BY ZenonT(60), <2>1, InstanceAwake, EnqueueAwake
  <2>3. Queue(c, m) = e
    <3> HIDE DEF i
    <3>1. Queue(c, m) = Signal([c EXCEPT !.decisions[i] = d], m.seq)
      BY <1>1 DEF Queue, i
    <3> HIDE DEF d
    <3> QED
      BY <3>1 DEF Signal, IsWindow, IsConsensusStruct
  <2> HIDE DEF i, d
  <2>4. e.decisions = [c.decisions EXCEPT ![i] = d] /\ e.signalled = signals /\ e.seqNo = c.seqNo
    BY PutShape
  <2> HIDE DEF e
  <2>5. IsAwake(e)
    BY ZenonT(60), <2>1, <2>2, <2>4, AwakePut
  <2> QED
    BY <2>3, <2>5
<1>2. CASE ~ InWindow(c, m)
  <2>1. Queue(c, m) = StoreForLater(c, m)
    BY <1>2 DEF Queue
  <2> QED
    BY <2>1, StoreForLaterAwake
<1> QED
  BY <1>1, <1>2

LEMMA ProcessedAwake ==
  ASSUME NEW c, IsWindow(c), IsAwake(c), NEW m
  PROVE  IsAwake(Processed(c, m))
<1> DEFINE d == AddresseeOf(c, m)
           i == Position(c, m.seq)
           woken == IF VotesSent(d, m, c.view, Self) # {} THEN {d.seq} ELSE {}
           queued == [c EXCEPT !.decisions[i] = Enqueue(d, m), !.signalled = c.signalled \cup {d.seq}]
           accepted == [c EXCEPT !.decisions[i] = AfterAccept(d, m, c.view),
                                 !.signalled = c.signalled \cup woken]
<1>1. \/ Processed(c, m) = StoreForLater(c, m)
      \/ Processed(c, m) = c
      \/ InWindow(c, m) /\ Processed(c, m) = queued
      \/ InWindow(c, m) /\ Accepts(d, m, c.view, Self) /\ Processed(c, m) = accepted
  BY ZenonT(60), ProcessedShape
<1>2. CASE Processed(c, m) = StoreForLater(c, m)
  BY <1>2, StoreForLaterAwake
<1>3. ASSUME InWindow(c, m)
      PROVE  /\ i \in 1..Watermark /\ d.seq = c.seqNo + i - 1 /\ d = c.decisions[i]
             /\ IsDecision(d) /\ Awake(d) /\ (d.seq \in c.signalled \/ Quiet(d))
  <2>1. i \in 1..Watermark /\ d.seq = c.seqNo + i - 1
    BY ZenonT(60), <1>3, AddresseeIs
  <2>2. d = c.decisions[i]
    BY DEF AddresseeOf
  <2> QED
    BY ZenonT(60), <2>1, <2>2, InstanceAwake
<1>4. CASE InWindow(c, m) /\ Processed(c, m) = queued
  <2> DEFINE f == Enqueue(d, m)
  <2>1. Awake(f)
    BY ZenonT(60), <1>3, <1>4, EnqueueAwake
  <2> HIDE DEF f, d, i
  <2>2. /\ queued.decisions = [c.decisions EXCEPT ![i] = f]
        /\ queued.signalled = c.signalled \cup {d.seq} /\ queued.seqNo = c.seqNo
    BY PutShape DEF f
  <2> HIDE DEF queued
  <2>3. IsAwake(queued)
    BY ZenonT(60), <1>3, <1>4, <2>1, <2>2, AwakePut
  <2> QED
    BY <1>4, <2>3
<1>5. CASE InWindow(c, m) /\ Accepts(d, m, c.view, Self) /\ Processed(c, m) = accepted
  <2> DEFINE f == AfterAccept(d, m, c.view)
  <2>1. Awake(f) /\ (d.seq \in woken \/ (Quiet(d) => Quiet(f)))
    <3> HIDE DEF d
    <3> QED
      BY ZenonT(60), <1>3, <1>5, AfterAcceptAwake
  <2> HIDE DEF f, d, i, woken
  <2>2. /\ accepted.decisions = [c.decisions EXCEPT ![i] = f]
        /\ accepted.signalled = c.signalled \cup woken /\ accepted.seqNo = c.seqNo
    BY PutShape DEF f
  <2> HIDE DEF accepted
  <2>3. c.seqNo + i - 1 \in accepted.signalled \/ Quiet(f)
    BY ZenonT(60), <1>3, <1>5, <2>1, <2>2
  <2>4. IsAwake(accepted)
    BY ZenonT(60), <1>3, <1>5, <2>1, <2>2, <2>3, AwakePut
  <2> QED
    BY <1>5, <2>4
<1> QED
  BY ZenonT(60), <1>1, <1>2, <1>4, <1>5

LEMMA FrontIs ==
  ASSUME NEW tbo, NEW i
  PROVE  Front(tbo, i) = [k \in Kinds |-> Front(tbo, i)[k]]
BY DEF Front

LEMMA NextInstancesAwake ==
  ASSUME NEW c, IsWindow(c), IsAwake(c), NEW n \in 0..Watermark, NEW view
  PROVE  IsAwake(NextInstances(c, n, view))
<1> DEFINE e == NextInstances(c, n, view)
           last == c.seqNo + Watermark - 1
           more == {last + i : i \in 1..n}
<1>0. IsNextWindow(e, c, n, view)
  BY ZenonT(60), NextInstancesShape
<1> HIDE DEF e
<1>1. /\ e.seqNo = c.seqNo + n /\ e.signalled = c.signalled \cup more
      /\ \A i \in 1..(Watermark - n) : e.decisions[i] = c.decisions[n + i]
      /\ \A j \in 1..n : e.decisions[Watermark - n + j] =
                           InitDecision(last + j, view, Front(c.tbo, j))
  BY ZenonT(60), <1>0 DEF IsNextWindow
<1>2. e.seqNo = c.seqNo + n /\ c.seqNo \in Nat
  BY <1>1 DEF IsWindow
<1> SUFFICES ASSUME NEW i \in 1..Watermark
             PROVE  /\ Awake(e.decisions[i])
                    /\ e.seqNo + i - 1 \in e.signalled \/ Quiet(e.decisions[i])
  BY DEF IsAwake, e
<1>3. CASE i <= Watermark - n
  <2>1. n + i \in 1..Watermark /\ i \in 1..(Watermark - n) /\ e.seqNo + i - 1 = c.seqNo + (n + i) - 1
    BY <1>2, <1>3, WatermarkNat
  <2>2. e.decisions[i] = c.decisions[n + i]
    BY ZenonT(60), <1>1, <2>1
  <2>3. /\ Awake(c.decisions[n + i])
        /\ c.seqNo + (n + i) - 1 \in c.signalled \/ Quiet(c.decisions[n + i])
    BY ZenonT(60), <2>1 DEF IsAwake
  <2> QED
    BY ZenonT(60), <1>1, <2>1, <2>2, <2>3
<1>4. CASE i > Watermark - n
  <2> DEFINE j == i - (Watermark - n)
  <2>1. j \in 1..n /\ i = Watermark - n + j /\ last + j = e.seqNo + i - 1
    BY <1>2, <1>4, WatermarkNat
  <2> HIDE DEF j
  <2>2. last + j \in more
    BY <2>1
  <2> HIDE DEF last
  <2>3. e.decisions[Watermark - n + j] = InitDecision(last + j, view, Front(c.tbo, j))
    BY ZenonT(60), <1>1, <2>1
  <2>4. e.decisions[i] = InitDecision(last + j, view, Front(c.tbo, j))
    BY <2>1, <2>3
  <2>5. Awake(e.decisions[i])
    BY ZenonT(60), <2>4, InitDecisionAwake, FrontIs
  <2> HIDE DEF more
  <2>6. e.seqNo + i - 1 \in e.signalled
    BY <1>1, <2>1, <2>2
  <2> QED
    BY <2>5, <2>6
<1>5. i <= Watermark - n \/ i > Watermark - n
  BY WatermarkNat
<1> QED
  BY ZenonT(60), <1>3, <1>4, <1>5

\* A window in which every instance is new and signalled.
LEMMA NewAwake ==
  ASSUME NEW e, e.seqNo \in Nat,
         \A i \in 1..Watermark : Awake(e.decisions[i]),
         e.signalled = e.seqNo..(e.seqNo + Watermark - 1)
  PROVE  IsAwake(e)
<1> SUFFICES ASSUME NEW i \in 1..Watermark
             PROVE  Awake(e.decisions[i]) /\ e.seqNo + i - 1 \in e.signalled
  BY ZenonT(60) DEF IsAwake
<1>1. e.seqNo + i - 1 \in e.seqNo..(e.seqNo + Watermark - 1)
  BY WatermarkNat
<1> QED
  BY <1>1

IsRefilled(e, c, seq, tbo) ==
  LET n == FromTbo(tbo, seq)
  IN  /\ e.seqNo = seq /\ e.signalled = seq..(seq + Watermark - 1)
      /\ e.decisions = [i \in 1..Watermark |->
                          InitDecision(seq + i - 1, c.view,
                                       IF i <= n THEN Front(tbo, i) ELSE EmptyQueue)]
      /\ e.tbo = AdvanceQueue(tbo, n) /\ e.viewQueue = c.viewQueue /\ e.view = c.view

LEMMA RefillShape ==
  ASSUME NEW c, IsWindow(c), NEW seq \in Nat, NEW tbo
  PROVE  IsRefilled(Refill(c, seq, tbo), c, seq, tbo)
<1> DEFINE n == FromTbo(tbo, seq)
           decisions == [i \in 1..Watermark |->
                           InitDecision(seq + i - 1, c.view,
                                        IF i <= n THEN Front(tbo, i) ELSE EmptyQueue)]
           advanced == AdvanceQueue(tbo, n)
           signalled == seq..(seq + Watermark - 1)
           guard == ClearGuard(c.guard)
           e == [c EXCEPT !.seqNo = seq, !.decisions = decisions, !.signalled = signalled,
                          !.tbo = advanced, !.guard = guard]
<1>1. Refill(c, seq, tbo) = e
  BY DEF Refill
<1> HIDE DEF decisions, advanced, signalled, guard
<1>2. /\ e.seqNo = seq /\ e.signalled = signalled /\ e.decisions = decisions
      /\ e.tbo = advanced /\ e.viewQueue = c.viewQueue /\ e.view = c.view
  BY ZenonT(60) DEF IsWindow, IsConsensusStruct
<1> HIDE DEF e
<1> QED
  BY ZenonT(60), <1>1, <1>2 DEF decisions, advanced, signalled, IsRefilled

LEMMA RefillAwake ==
  ASSUME NEW c, IsWindow(c), NEW seq \in Nat, NEW tbo
  PROVE  IsAwake(Refill(c, seq, tbo))
<1> DEFINE n == FromTbo(tbo, seq)
           q(i) == IF i <= n THEN Front(tbo, i) ELSE EmptyQueue
           e == Refill(c, seq, tbo)
<1>0. IsRefilled(e, c, seq, tbo)
  BY ZenonT(60), RefillShape
<1> HIDE DEF e
<1>1. /\ e.seqNo = seq /\ e.signalled = seq..(seq + Watermark - 1)
      /\ e.decisions = [i \in 1..Watermark |-> InitDecision(seq + i - 1, c.view, q(i))]
  BY ZenonT(60), <1>0 DEF IsRefilled
<1>2. ASSUME NEW i \in 1..Watermark
      PROVE  Awake(e.decisions[i])
  <2>1. q(i) = [k \in Kinds |-> q(i)[k]]
    <3>1. EmptyQueue = [k \in Kinds |-> EmptyQueue[k]]
      BY DEF EmptyQueue
    <3> QED
      BY ZenonT(60), <3>1, FrontIs
  <2> HIDE DEF q
  <2>2. e.decisions[i] = InitDecision(seq + i - 1, c.view, q(i))
    BY ZenonT(60), <1>1
  <2> QED
    BY ZenonT(60), <2>1, <2>2, InitDecisionAwake
<1>3. e.seqNo \in Nat /\ e.signalled = e.seqNo..(e.seqNo + Watermark - 1)
  BY <1>1
<1>4. IsAwake(e)
  BY ZenonT(60), <1>2, <1>3, NewAwake
<1> QED
  BY <1>4 DEF e

LEMMA InstallSequenceNumberAwake ==
  ASSUME NEW c, IsWindow(c), IsAwake(c), NEW seq \in Nat
  PROVE  IsAwake(InstallSequenceNumber(c, seq))
<1>1. PICK moved :
        /\ IsMovedTo(moved, c, seq)
        /\ InstallSequenceNumber(c, seq) = [moved EXCEPT !.guard = InstallSeqNo(@, seq)]
  BY ZenonT(60), InstallSequenceNumberShape
<1>2. IsWindow(moved) /\ IsAwake(moved)
  BY <1>1, RefillWindow, RefillAwake, NextInstancesWindow, NextInstancesAwake DEF IsMovedTo
<1> DEFINE g == InstallSeqNo(moved.guard, seq)
           e == [moved EXCEPT !.guard = g]
<1> HIDE DEF g
<1>3. e.decisions = moved.decisions /\ e.seqNo = moved.seqNo /\ e.signalled = moved.signalled
  BY <1>2 DEF IsWindow, IsConsensusStruct
<1>4. InstallSequenceNumber(c, seq) = e
  BY <1>1 DEF g
<1> HIDE DEF e
<1> QED
  BY <1>2, <1>3, <1>4, AwakeKept

\* The struct after a later view was installed.
IsInstalled(e, c, view) ==
  LET index == view.seq - c.view.seq
      early == IF index <= Len(c.viewQueue) THEN c.viewQueue[index] ELSE << >>
      base  == BaseSeq(c.tbo)
      ahead(k) == {early[j].seq - base + 1 :
                     j \in {i \in DOMAIN early : early[i].kind = k /\ early[i].seq >= base}}
  IN  /\ e.seqNo = c.seqNo /\ e.view = view /\ e.guard = InstallViewInGuard(c.guard, view)
      /\ e.signalled = c.seqNo..(c.seqNo + Watermark - 1)
      /\ e.decisions = [i \in 1..Watermark |->
                          InitDecision(c.seqNo + i - 1, view,
                            [k \in Kinds |-> Sorted(early, k, c.seqNo + i - 1)])]
      /\ e.tbo = [c.tbo EXCEPT !.queue =
                    [k \in Kinds |->
                       [j \in 1..Highest(ahead(k)) |-> Sorted(early, k, base + j - 1)]]]
      /\ e.viewQueue = DropQueues(c.viewQueue, index)

LEMMA InstallViewShape ==
  ASSUME NEW c, IsWindow(c), NEW view, view.seq \in Nat, c.view.seq \in Nat, view.seq > c.view.seq
  PROVE  IsInstalled(InstallView(c, view), c, view)
<1> DEFINE index == view.seq - c.view.seq
           early == IF index <= Len(c.viewQueue) THEN c.viewQueue[index] ELSE << >>
           base  == BaseSeq(c.tbo)
           ahead(k) == {early[j].seq - base + 1 :
                          j \in {i \in DOMAIN early : early[i].kind = k /\ early[i].seq >= base}}
           guard == InstallViewInGuard(c.guard, view)
           decisions == [i \in 1..Watermark |->
                           InitDecision(c.seqNo + i - 1, view,
                             [k \in Kinds |-> Sorted(early, k, c.seqNo + i - 1)])]
           signalled == c.seqNo..(c.seqNo + Watermark - 1)
           tbo == [c.tbo EXCEPT !.queue =
                     [k \in Kinds |->
                        [j \in 1..Highest(ahead(k)) |-> Sorted(early, k, base + j - 1)]]]
           viewQueue == DropQueues(c.viewQueue, index)
           e == [c EXCEPT !.view = view, !.guard = guard, !.decisions = decisions,
                          !.signalled = signalled, !.tbo = tbo, !.viewQueue = viewQueue]
<1>1. ~ (view.seq <= c.view.seq)
  OBVIOUS
<1>2. InstallView(c, view) = e
  BY ZenonT(60), <1>1 DEF InstallView
<1> HIDE DEF decisions, guard, tbo, signalled, viewQueue, early, base, ahead, index
<1>3. /\ e.seqNo = c.seqNo /\ e.view = view /\ e.decisions = decisions
      /\ e.signalled = signalled /\ e.tbo = tbo /\ e.viewQueue = viewQueue /\ e.guard = guard
  BY ZenonT(60) DEF IsWindow, IsConsensusStruct
<1> HIDE DEF e
<1> QED
  BY ZenonT(60), <1>2, <1>3
     DEF IsInstalled, decisions, guard, tbo, signalled, viewQueue, early, base, ahead, index

LEMMA InstallViewAwake ==
  ASSUME NEW c, IsWindow(c), NEW view, view.seq \in Nat, c.view.seq \in Nat, view.seq > c.view.seq
  PROVE  LET e == InstallView(c, view)
         IN  /\ IsAwake(e) /\ e.view = view
             /\ e.seqNo \in e.signalled /\ e.decisions[1].phase = "Initialize"
<1> DEFINE e == InstallView(c, view)
           early == IF view.seq - c.view.seq <= Len(c.viewQueue)
                      THEN c.viewQueue[view.seq - c.view.seq] ELSE << >>
           q(i) == [k \in Kinds |-> Sorted(early, k, c.seqNo + i - 1)]
<1>1. IsInstalled(e, c, view)
  BY ZenonT(60), InstallViewShape
<1> HIDE DEF e
<1>2. /\ e.seqNo = c.seqNo /\ e.view = view /\ e.signalled = c.seqNo..(c.seqNo + Watermark - 1)
      /\ e.decisions = [i \in 1..Watermark |-> InitDecision(c.seqNo + i - 1, view, q(i))]
  BY ZenonT(60), <1>1 DEF IsInstalled
<1>3. ASSUME NEW i \in 1..Watermark
      PROVE  Awake(e.decisions[i]) /\ e.decisions[i].phase = "Initialize"
  <2>1. q(i) = [k \in Kinds |-> q(i)[k]]
    <3> HIDE DEF early
    <3> QED
      BY ZenonT(60)
  <2> HIDE DEF q
  <2>2. e.decisions[i] = InitDecision(c.seqNo + i - 1, view, q(i))
    BY ZenonT(60), <1>2
  <2>3. /\ Awake(InitDecision(c.seqNo + i - 1, view, q(i)))
        /\ InitDecision(c.seqNo + i - 1, view, q(i)).phase = "Initialize"
    BY ZenonT(60), <2>1, InitDecisionAwake
  <2> QED
    BY <2>2, <2>3
<1> HIDE DEF q, early
<1>4. e.seqNo \in Nat /\ e.signalled = e.seqNo..(e.seqNo + Watermark - 1)
  BY ZenonT(60), <1>2 DEF IsWindow
<1>5. IsAwake(e)
  BY ZenonT(60), <1>3, <1>4, NewAwake
<1>6. 1 \in 1..Watermark /\ e.seqNo \in e.signalled
  BY <1>4, WatermarkNat
<1> QED
  BY ZenonT(60), <1>2, <1>3, <1>5, <1>6 DEF e

\* The struct that handles the forged PRE-PREPARE: installed, with the first
\* instance past its initial phase.
Skipped(c, view) ==
  LET installed == InstallView(c, view)
  IN  [installed EXCEPT !.decisions[1] = SkipInitPhase(@)]

IsSkipped(skipped, installed, view) ==
  /\ IsWindow(skipped) /\ IsAwake(skipped) /\ IsWindow(installed)
  /\ skipped.decisions = [installed.decisions EXCEPT ![1] = SkipInitPhase(installed.decisions[1])]
  /\ skipped.seqNo = installed.seqNo /\ skipped.view = view /\ installed.view = view
  /\ skipped.tbo = installed.tbo /\ skipped.viewQueue = installed.viewQueue
  /\ skipped.guard = installed.guard

LEMMA SkippedAwake ==
  ASSUME NEW c, IsWindow(c), NEW view, view.seq \in Nat, c.view.seq \in Nat, view.seq > c.view.seq
  PROVE  IsSkipped(Skipped(c, view), InstallView(c, view), view)
<1> DEFINE installed == InstallView(c, view)
           d == SkipInitPhase(installed.decisions[1])
           skipped == [installed EXCEPT !.decisions[1] = d]
<1>1. Skipped(c, view) = skipped
  BY DEF Skipped
<1>2. /\ IsWindow(installed) /\ IsAwake(installed) /\ installed.view = view
      /\ installed.seqNo \in installed.signalled /\ installed.decisions[1].phase = "Initialize"
  BY ZenonT(60), InstallViewAwake, InstallViewWindow
<1> HIDE DEF installed
<1>3. 1 \in 1..Watermark /\ installed.seqNo + 1 - 1 = installed.seqNo
  BY <1>2, WatermarkNat DEF IsWindow
<1>4. Awake(d) /\ IsDecision(d) /\ d.seq = installed.seqNo + 1 - 1
  <2>1. /\ IsDecision(installed.decisions[1]) /\ Awake(installed.decisions[1])
        /\ installed.decisions[1].seq = installed.seqNo + 1 - 1
    BY ZenonT(60), <1>2, <1>3 DEF IsWindow, AreDecisions, IsAwake
  <2> QED
    BY ZenonT(60), <1>2, <2>1, PollAwake, PollIs
<1> HIDE DEF d
<1>5. /\ skipped.decisions = [installed.decisions EXCEPT ![1] = d]
      /\ skipped.signalled = installed.signalled /\ skipped.seqNo = installed.seqNo
      /\ skipped.view = view /\ skipped.tbo = installed.tbo
      /\ skipped.viewQueue = installed.viewQueue /\ skipped.guard = installed.guard
  BY <1>2 DEF IsWindow, IsConsensusStruct
<1>6. IsWindow(skipped)
  BY <1>2, <1>3, <1>4, PutDecision
<1> HIDE DEF skipped
<1>7. IsAwake(skipped)
  <2>1. installed.seqNo + 1 - 1 \in skipped.signalled
    BY <1>2, <1>3, <1>5
  <2>2. \A s \in installed.signalled : s # installed.seqNo + 1 - 1 => s \in skipped.signalled
    BY <1>5
  <2> QED
    BY ZenonT(60), <1>2, <1>3, <1>4, <1>5, <2>1, <2>2, AwakePut
<1>8. skipped.decisions = [installed.decisions EXCEPT ![1] = SkipInitPhase(installed.decisions[1])]
  BY <1>5 DEF d
<1> QED
  BY ZenonT(60), <1>1, <1>2, <1>5, <1>6, <1>7, <1>8 DEF IsSkipped, installed

IsUnlocked(e, processed, guard) ==
  /\ e.decisions = processed.decisions /\ e.seqNo = processed.seqNo /\ e.view = processed.view
  /\ e.tbo = processed.tbo /\ e.viewQueue = processed.viewQueue
  /\ e.guard = UnlockConsensus(guard)

LEMMA FinalizeViewChangeAwake ==
  ASSUME NEW c, IsWindow(c), NEW view, view.seq \in Nat, c.view.seq \in Nat, view.seq > c.view.seq,
         NEW m
  PROVE  /\ IsAwake(FinalizeViewChange(c, view, m)) /\ FinalizeViewChange(c, view, m).view = view
         /\ IsUnlocked(FinalizeViewChange(c, view, m), Processed(Skipped(c, view), m),
                       InstallView(c, view).guard)
<1> DEFINE skipped == Skipped(c, view)
           processed == Processed(skipped, m)
           g == UnlockConsensus(processed.guard)
           e == [processed EXCEPT !.guard = g]
<1>1. FinalizeViewChange(c, view, m) = e
  BY DEF FinalizeViewChange, Skipped
<1>2. /\ IsWindow(skipped) /\ IsAwake(skipped) /\ skipped.view = view
      /\ skipped.guard = InstallView(c, view).guard
  <2>1. IsSkipped(skipped, InstallView(c, view), view)
    BY ZenonT(60), SkippedAwake
  <2> HIDE DEF skipped
  <2> QED
    BY ZenonT(60), <2>1 DEF IsSkipped
<1> HIDE DEF skipped
<1>3. /\ IsWindow(processed) /\ IsAwake(processed) /\ processed.view = view
      /\ processed.guard = skipped.guard
  BY <1>2, ProcessedWindow, ProcessedAwake
<1> HIDE DEF processed, g
<1>4. /\ e.decisions = processed.decisions /\ e.seqNo = processed.seqNo
      /\ e.signalled = processed.signalled /\ e.view = processed.view
      /\ e.tbo = processed.tbo /\ e.viewQueue = processed.viewQueue /\ e.guard = g
  BY <1>3 DEF IsWindow, IsConsensusStruct
<1> HIDE DEF e
<1>5. IsAwake(e)
  BY <1>3, <1>4, AwakeKept
<1>6. g = UnlockConsensus(InstallView(c, view).guard)
  BY <1>2, <1>3 DEF g
<1> QED
  BY ZenonT(60), <1>1, <1>3, <1>4, <1>5, <1>6 DEF IsUnlocked, processed, skipped
-----------------------------------------------------------------------------
(***************************************************************************)
(* The actions.                                                            *)
(***************************************************************************)
LEMMA FinalizeAllPossibleAwake ==
  ASSUME NEW c, IsWindow(c), IsAwake(c), FinalizeAllPossible(c)
  PROVE  IsAwake(consensus')
<1>1. PICK n \in 0..Watermark : consensus' = NextInstances(c, n, c.view)
  BY DEF FinalizeAllPossible
<1> QED
  BY <1>1, NextInstancesAwake

LEMMA AdvConsensusAwake ==
  ASSUME NEW c, IsWindow(c), IsAwake(c), NEW m, NEW rest, AdvConsensus(c, m, rest)
  PROVE  IsAwake(consensus')
<1> DEFINE next == Processed(c, m)
<1>1. IsWindow(next) /\ IsAwake(next)
  BY ProcessedWindow, ProcessedAwake
<1>2. FinalizeAllPossible(next) \/ consensus' = next
  BY DEF AdvConsensus
<1> HIDE DEF next
<1> QED
  BY <1>1, <1>2, FinalizeAllPossibleAwake

LEMMA PollKeepsAwake ==
  ASSUME WakeInv, NEW s, Poll(s)
  PROVE  IsAwake(consensus') /\ consensus'.view = consensus.view
<1> DEFINE i == Position(consensus, s)
           d == Polled(consensus, s)
<1>0. IsWindow(consensus) /\ IsAwake(consensus) /\ WindowInv /\ \A m \in net : m.seq \in Nat
  BY ZenonT(60) DEF WakeInv, WindowInv
<1>1. ASSUME IsNextSignal(consensus, s), s >= consensus.seqNo
      PROVE  /\ i \in 1..Watermark /\ IsDecision(d) /\ Awake(d) /\ d = consensus.decisions[i]
             /\ s = consensus.seqNo + i - 1 /\ s \in consensus.signalled
             /\ d.seq = consensus.seqNo + i - 1
  <2>1. s \in Nat /\ i \in 1..Watermark /\ IsDecision(d) /\ d.seq = consensus.seqNo + i - 1
    BY <1>0, <1>1, PolledIs
  <2>2. d = consensus.decisions[i] /\ s \in consensus.signalled
    BY <1>1 DEF Polled, IsNextSignal
  <2>3. s = consensus.seqNo + i - 1
    BY <1>0, <2>1 DEF Position, IsWindow
  <2>4. Awake(d)
    BY ZenonT(60), <1>0, <2>1, <2>2 DEF IsAwake
  <2> QED
    BY <2>1, <2>2, <2>3, <2>4
<1>2. CASE PollStale(s)
  <2> DEFINE e == Unsignal(consensus, s)
  <2>1. consensus' = e /\ s < consensus.seqNo
    BY <1>2 DEF PollStale
  <2>2. /\ e.decisions = consensus.decisions /\ e.seqNo = consensus.seqNo
        /\ e.signalled = consensus.signalled \ {s} /\ e.view = consensus.view
    BY <1>0 DEF Unsignal, IsWindow, IsConsensusStruct
  <2> HIDE DEF e
  <2>3. \A j \in 1..Watermark : consensus.seqNo + j - 1 # s
    <3>1. s \in Nat /\ consensus.seqNo \in Nat
      BY <1>0, <1>2, PolledIs DEF PollStale, IsWindow
    <3> QED
      BY <2>1, <3>1, WatermarkNat
  <2>4. IsAwake(e)
    BY ZenonT(60), <1>0, <2>2, <2>3 DEF IsAwake
  <2> QED
    BY <2>1, <2>2, <2>4
<1>3. CASE PollTryPropose(s)
  <2> DEFINE f == AfterTryPropose(d)
             g == IF Self \in consensus.view.leaders THEN MakeSeqAvailable(consensus.guard, s)
                                                     ELSE consensus.guard
             e == [consensus EXCEPT !.decisions[i] = f, !.guard = g]
  <2>1. IsNextSignal(consensus, s) /\ s >= consensus.seqNo /\ d.phase = "Initialize"
    BY <1>3 DEF PollTryPropose, PollTriesPropose
  <2>2. consensus' = e
    BY <1>3 DEF PollTryPropose, Polled
  <2>3. Awake(f)
    <3> HIDE DEF d
    <3> QED
      BY ZenonT(60), <1>1, <2>1, PollAwake
  <2> HIDE DEF f, g, i, d
  <2>4. /\ e.decisions = [consensus.decisions EXCEPT ![i] = f] /\ e.seqNo = consensus.seqNo
        /\ e.signalled = consensus.signalled /\ e.view = consensus.view
    BY <1>0 DEF IsWindow, IsConsensusStruct
  <2> HIDE DEF e
  <2>5. IsAwake(e)
    BY ZenonT(60), <1>0, <1>1, <2>1, <2>3, <2>4, AwakePut
  <2> QED
    BY <2>2, <2>4, <2>5
<1>4. CASE PollNextMessage(s)
  <2> DEFINE f == AfterNextMessage(d)
             e == [consensus EXCEPT !.decisions[i] = f]
  <2>1. IsNextSignal(consensus, s) /\ s >= consensus.seqNo /\ PollFindsMessage(d)
    BY <1>4 DEF PollNextMessage
  <2>2. AdvConsensus(e, NextMessage(d), net)
    BY <1>4 DEF PollNextMessage, Polled
  <2>3. Awake(f) /\ IsDecision(f) /\ f.seq = consensus.seqNo + i - 1
    <3> HIDE DEF d, i
    <3> QED
      BY ZenonT(60), <1>1, <2>1, PollAwake, PollIs
  <2> HIDE DEF f, i, d
  <2>4. /\ e.decisions = [consensus.decisions EXCEPT ![i] = f] /\ e.seqNo = consensus.seqNo
        /\ e.signalled = consensus.signalled /\ e.view = consensus.view
    BY <1>0 DEF IsWindow, IsConsensusStruct
  <2>5. IsWindow(e)
    BY <1>0, <1>1, <2>1, <2>3, PutDecision
  <2> HIDE DEF e
  <2>6. IsAwake(e)
    BY ZenonT(60), <1>0, <1>1, <2>1, <2>3, <2>4, AwakePut
  <2> QED
    BY <1>0, <2>2, <2>4, <2>5, <2>6, AdvConsensusAwake, AdvConsensusWindow
<1>5. CASE PollRecv(s)
  <2> DEFINE u == Unsignal(consensus, s)
             f == AfterRecv(d)
             e == [u EXCEPT !.decisions[i] = f]
  <2>1. /\ IsNextSignal(consensus, s) /\ s >= consensus.seqNo
        /\ ~ PollTriesPropose(d) /\ ~ PollFindsMessage(d)
    BY <1>5 DEF PollRecv
  <2>2. /\ IsWindow(u) /\ u.seqNo = consensus.seqNo /\ u.decisions = consensus.decisions
        /\ u.signalled = consensus.signalled \ {s} /\ u.view = consensus.view
    BY <1>0, UnsignalWindow
  <2>3. consensus' = e
    BY <1>5, <2>2 DEF PollRecv, Polled
  <2>4. Awake(f) /\ Quiet(f)
    <3> HIDE DEF d
    <3> QED
      BY ZenonT(60), <1>1, <2>1, PollAwake
  <2> HIDE DEF u, f, i, d
  <2>5. /\ e.decisions = [consensus.decisions EXCEPT ![i] = f] /\ e.seqNo = consensus.seqNo
        /\ e.signalled = consensus.signalled \ {s} /\ e.view = consensus.view
    BY <2>2 DEF IsWindow, IsConsensusStruct
  <2> HIDE DEF e
  <2>6. \A t \in consensus.signalled : t # consensus.seqNo + i - 1 => t \in e.signalled
    BY ZenonT(60), <1>1, <2>1, <2>5
  <2>7. IsAwake(e)
    BY ZenonT(60), <1>0, <1>1, <2>1, <2>4, <2>5, <2>6, AwakePut
  <2> QED
    BY <2>3, <2>5, <2>7
<1> QED
  BY <1>2, <1>3, <1>4, <1>5 DEF Poll

LEMMA ViewChangedAwake ==
  ASSUME WakeInv, NEW v \in 1..MaxView, NEW proof, NEW m, ViewChanged(v, proof, m)
  PROVE  IsAwake(consensus') /\ consensus'.view.seq \in Nat
<1> DEFINE c == IF CatchesUp(proof) THEN NextInstances(consensus, 1, View(v)) ELSE consensus
<1>1. IsWindow(c) /\ c.view = consensus.view
  <2>1. 1 \in 0..Watermark
    BY WatermarkNat
  <2> QED
    BY <2>1, NextInstancesWindow DEF WakeInv, WindowInv
<1>2. consensus' = FinalizeViewChange(c, View(v), m) /\ v > consensus.view.seq
  BY DEF ViewChanged
<1> HIDE DEF c
<1>3. View(v).seq = v /\ v \in Nat /\ c.view.seq \in Nat
  BY <1>1, WindowAssumption DEF View, WakeInv
<1> DEFINE view == View(v)
<1> HIDE DEF view
<1>4. view.seq \in Nat /\ view.seq > c.view.seq
  BY <1>1, <1>2, <1>3 DEF view
<1> QED
  BY <1>1, <1>2, <1>3, <1>4, FinalizeViewChangeAwake DEF view

LEMMA InitAwake ==
  ASSUME Init
  PROVE  WakeInv
<1> DEFINE decisions == [i \in 1..Watermark |-> InitDecision(i - 1, View(0), EmptyQueue)]
<1>1. consensus = [seqNo |-> 0, view |-> View(0), decisions |-> decisions,
                   signalled |-> 0..(Watermark - 1), tbo |-> EmptyTbo(0),
                   viewQueue |-> << >>, guard |-> InitGuard(View(0))]
  BY DEF Init
<1>2. ASSUME NEW i \in 1..Watermark
      PROVE  Awake(decisions[i])
  <2>1. EmptyQueue = [k \in Kinds |-> EmptyQueue[k]]
    BY DEF EmptyQueue
  <2> QED
    BY ZenonT(60), <2>1, InitDecisionAwake
<1> HIDE DEF decisions
<1>3. /\ consensus.seqNo = 0 /\ consensus.decisions = decisions
      /\ consensus.signalled = 0..(Watermark - 1) /\ consensus.view.seq = 0
  BY <1>1 DEF View
<1>4. consensus.seqNo \in Nat
      /\ consensus.signalled = consensus.seqNo..(consensus.seqNo + Watermark - 1)
  BY <1>3, WatermarkNat
<1>5. IsAwake(consensus)
  BY ZenonT(60), <1>2, <1>3, <1>4, NewAwake
<1> QED
  BY <1>3, <1>5, InitWindow DEF WakeInv

LEMMA NextAwake ==
  ASSUME WakeInv, [Next]_vars
  PROVE  WakeInv'
<1>0. /\ WindowInv /\ IsWindow(consensus) /\ IsAwake(consensus) /\ consensus.view.seq \in Nat
      /\ \A m \in net : m.seq \in Nat
  BY ZenonT(60) DEF WakeInv, WindowInv
<1>1. WindowInv'
  BY <1>0, NextWindow
<1> SUFFICES IsAwake(consensus') /\ consensus'.view.seq \in Nat
  BY ZenonT(60), <1>1 DEF WakeInv, IsAwake, Awake, Quiet
<1>2. ASSUME NEW s, Poll(s)
      PROVE  IsAwake(consensus') /\ consensus'.view.seq \in Nat
  BY <1>0, <1>2, PollKeepsAwake
<1>3. CASE PollDecided
  <2>1. FinalizeAllPossible(consensus)
    BY <1>3 DEF PollDecided
  <2> QED
    BY <1>0, <2>1, FinalizeAllPossibleAwake, FinalizeAllPossibleWindow
<1>4. ASSUME NEW m \in net, Receive(m)
      PROVE  IsAwake(consensus') /\ consensus'.view.seq \in Nat
  <2>1. AdvConsensus(consensus, m, net \ {m}) /\ \A p \in net \ {m} : p.seq \in Nat
    BY <1>0, <1>4 DEF Receive
  <2> QED
    BY <1>0, <2>1, AdvConsensusAwake, AdvConsensusWindow
<1>5. ASSUME NEW m \in net, QueueOffContext(m)
      PROVE  IsAwake(consensus') /\ consensus'.view.seq \in Nat
  <2>1. consensus' = Queue(consensus, m) /\ m.seq \in Nat
    BY <1>0, <1>5 DEF QueueOffContext
  <2> QED
    BY <1>0, <2>1, QueueAwake, QueueWindow
<1>6. ASSUME NEW s \in consensus.guard.seqs, Propose(s)
      PROVE  IsAwake(consensus') /\ consensus'.view.seq \in Nat
  <2> DEFINE g == TakeSeqNo(consensus.guard, s)
             e == [consensus EXCEPT !.guard = g]
  <2>1. consensus' = e
    BY <1>6 DEF Propose
  <2> HIDE DEF g
  <2>2. /\ e.decisions = consensus.decisions /\ e.seqNo = consensus.seqNo
        /\ e.signalled = consensus.signalled /\ e.view = consensus.view
    BY <1>0 DEF IsWindow, IsConsensusStruct
  <2> HIDE DEF e
  <2> QED
    BY <1>0, <2>1, <2>2, AwakeKept
<1>7. ASSUME NEW seq \in InstallSeq, StateInstalled(seq)
      PROVE  IsAwake(consensus') /\ consensus'.view.seq \in Nat
  <2>1. consensus' = InstallSequenceNumber(consensus, seq) /\ seq \in Nat
    BY <1>7, WindowAssumption DEF StateInstalled
  <2> QED
    BY <1>0, <2>1, InstallSequenceNumberAwake, InstallSequenceNumberWindow
<1>8. ASSUME NEW v \in 1..MaxView, ViewInstalled(v)
      PROVE  IsAwake(consensus') /\ consensus'.view.seq \in Nat
  <2> DEFINE view == View(v)
  <2>1. consensus' = InstallView(consensus, view) /\ v > consensus.view.seq
    BY <1>8 DEF ViewInstalled
  <2>2. view.seq = v /\ v \in Nat
    BY WindowAssumption DEF View
  <2> HIDE DEF view
  <2>3. view.seq \in Nat /\ view.seq > consensus.view.seq
    BY <2>1, <2>2
  <2> QED
    BY <1>0, <2>1, <2>3, InstallViewAwake
<1>9. ASSUME NEW v \in 1..MaxView, NEW proof, NEW m, ViewChanged(v, proof, m)
      PROVE  IsAwake(consensus') /\ consensus'.view.seq \in Nat
  BY <1>9, ViewChangedAwake
<1>10. CASE UNCHANGED vars
  BY <1>0, <1>10 DEF vars
<1> QED
  BY <1>2, <1>3, <1>4, <1>5, <1>6, <1>7, <1>8, <1>9, <1>10 DEF Next, Run

(***************************************************************************)
(* No wakeup is lost: an instance of the window that poll() is not told    *)
(* about has nothing to be polled for, for any window, any messages in any *)
(* order, and any decisions, view changes and state transfers in between.  *)
(***************************************************************************)
THEOREM NoLostWakeupHolds == Spec => []NoLostWakeup
<1>1. Init => WakeInv
  BY InitAwake
<1>2. WakeInv /\ [Next]_vars => WakeInv'
  BY NextAwake
<1>3. WakeInv => NoLostWakeup
  <2> SUFFICES ASSUME WakeInv, NEW i \in DOMAIN consensus.decisions,
                      consensus.decisions[i].seq \notin consensus.signalled
               PROVE  Quiet(consensus.decisions[i])
    BY ZenonT(60) DEF NoLostWakeup, Quiet
  <2>1. i \in 1..Watermark /\ consensus.decisions[i].seq = consensus.seqNo + i - 1
    BY DEF WakeInv, WindowInv, IsWindow, AreDecisions
  <2> QED
    BY ZenonT(60), <2>1 DEF WakeInv, IsAwake
<1> QED
  BY <1>1, <1>2, <1>3, PTL DEF Spec

-----------------------------------------------------------------------------
\* A Consensus struct, as far as its guard is concerned.
HasGuard(c) ==
  /\ c = [field \in {"seqNo", "view", "decisions", "signalled", "tbo", "viewQueue", "guard"}
            |-> c[field]]
  /\ c.guard = [field \in {"seqs", "view", "canPropose"} |-> c.guard[field]]
  /\ c.guard.canPropose \in BOOLEAN

\* e has the lock of c.
SameLock(e, c) == HasGuard(e) /\ e.guard.canPropose = c.guard.canPropose

(***************************************************************************)
(* What the operations of the consensus do to the lock of the guard.       *)
(***************************************************************************)
LEMMA StoreForLaterLock ==
  ASSUME NEW c, HasGuard(c), NEW m
  PROVE  SameLock(StoreForLater(c, m), c)
<1> DEFINE t == TboQueue(c.tbo, m)
           q == Put(c.viewQueue, m.view - c.view.seq, m)
<1>1. StoreForLater(c, m) \in {[c EXCEPT !.viewQueue = q], [c EXCEPT !.tbo = t], c}
  BY ZenonT(60) DEF StoreForLater
<1> HIDE DEF t, q
<1> QED
  BY ZenonT(60), <1>1 DEF SameLock, HasGuard

LEMMA QueueLock ==
  ASSUME NEW c, HasGuard(c), NEW m
  PROVE  SameLock(Queue(c, m), c)
<1> DEFINE decisions == [c.decisions EXCEPT ![Position(c, m.seq)] = Enqueue(@, m)]
           e == [c EXCEPT !.decisions = decisions]
<1>1. Queue(c, m) = IF InWindow(c, m) THEN Signal(e, m.seq) ELSE StoreForLater(c, m)
  BY ZenonT(60) DEF Queue
<1> HIDE DEF decisions
<1>2. SameLock(e, c)
  BY ZenonT(60) DEF SameLock, HasGuard
<1> HIDE DEF e
<1>3. SameLock(Signal(e, m.seq), c)
  BY ZenonT(60), <1>2 DEF Signal, SameLock, HasGuard
<1> QED
  BY ZenonT(60), <1>1, <1>3, StoreForLaterLock

LEMMA ProcessedLock ==
  ASSUME NEW c, HasGuard(c), NEW m
  PROVE  SameLock(Processed(c, m), c)
<1> DEFINE d == AddresseeOf(c, m)
           i == Position(c, m.seq)
           queued == [c.decisions EXCEPT ![i] = Enqueue(d, m)]
           accepted == [c.decisions EXCEPT ![i] = AfterAccept(d, m, c.view)]
           woken == IF VotesSent(d, m, c.view, Self) # {} THEN {d.seq} ELSE {}
           first == [c EXCEPT !.decisions = queued]
           second == [c EXCEPT !.decisions = accepted, !.signalled = @ \cup woken]
<1>1. CASE ~ InWindow(c, m)
  BY ZenonT(60), <1>1, StoreForLaterLock DEF Processed
<1>2. CASE InWindow(c, m)
  <2>1. Processed(c, m) \in {Signal(first, d.seq), c, second}
    <3>1. CASE Queues(d, m)
      BY ZenonT(60), <1>2, <3>1 DEF Processed
    <3>2. CASE ~ Queues(d, m) /\ (Ignores(d, m, c.view) \/ Errs(d, m, c.view, Self))
      BY ZenonT(60), <1>2, <3>2 DEF Processed, Accepts, Errs, Considers
    <3>3. CASE Accepts(d, m, c.view, Self)
      BY ZenonT(60), <1>2, <3>3 DEF Processed, Accepts, Errs, Considers
    <3> QED
      BY ZenonT(60), <3>1, <3>2, <3>3 DEF Accepts, Errs, Considers
  <2> HIDE DEF queued, accepted, woken, d, i
  <2>2. SameLock(Signal(first, d.seq), c)
    BY ZenonT(60) DEF Signal, SameLock, HasGuard
  <2>3. SameLock(second, c)
    BY ZenonT(60) DEF SameLock, HasGuard
  <2>4. SameLock(c, c)
    BY ZenonT(60) DEF SameLock
  <2> QED
    BY ZenonT(60), <2>1, <2>2, <2>3, <2>4
<1> QED
  BY ZenonT(60), <1>1, <1>2

LEMMA NextInstancesLock ==
  ASSUME NEW c, HasGuard(c), NEW n, NEW view
  PROVE  SameLock(NextInstances(c, n, view), c)
<1> DEFINE last == IF Watermark = 1 THEN c.seqNo ELSE c.decisions[Watermark].seq
           decisions == SubSeq(c.decisions, n + 1, Watermark) \o
                          [i \in 1..n |-> InitDecision(last + i, view, Front(c.tbo, i))]
           more == {last + i : i \in 1..n}
           tbo == AdvanceQueue(c.tbo, n)
           e == [c EXCEPT !.seqNo = @ + n, !.decisions = decisions,
                          !.signalled = @ \cup more, !.tbo = tbo]
<1>1. NextInstances(c, n, view) = e
  BY ZenonT(60) DEF NextInstances
<1> HIDE DEF decisions, more, tbo
<1>2. SameLock(e, c)
  BY ZenonT(60) DEF SameLock, HasGuard
<1> QED
  BY ZenonT(60), <1>1, <1>2

LEMMA RefillLock ==
  ASSUME NEW c, HasGuard(c), NEW seq, NEW tbo
  PROVE  SameLock(Refill(c, seq, tbo), c)
<1> DEFINE n == FromTbo(tbo, seq)
           decisions == [i \in 1..Watermark |->
                           InitDecision(seq + i - 1, c.view,
                                        IF i <= n THEN Front(tbo, i) ELSE EmptyQueue)]
           advanced == AdvanceQueue(tbo, n)
           signalled == seq..(seq + Watermark - 1)
           e == [c EXCEPT !.seqNo = seq, !.decisions = decisions, !.signalled = signalled,
                          !.tbo = advanced, !.guard = ClearGuard(@)]
<1>1. Refill(c, seq, tbo) = e
  BY ZenonT(60) DEF Refill
<1> HIDE DEF n, decisions, advanced, signalled
<1>2. SameLock(e, c)
  BY ZenonT(60) DEF SameLock, HasGuard, ClearGuard
<1> QED
  BY ZenonT(60), <1>1, <1>2
LEMMA InstallSequenceNumberLock ==
  ASSUME NEW c, HasGuard(c), NEW seq
  PROVE  SameLock(InstallSequenceNumber(c, seq), c)
<1> DEFINE moved == CASE seq < c.seqNo -> Refill(c, seq, EmptyTbo(seq))
                      [] seq = c.seqNo -> c
                      [] seq >= c.seqNo + Watermark -> SkipWindow(c, seq)
                      [] OTHER -> NextInstances(c, seq - c.seqNo, c.view)
<1>1. SameLock(moved, c)
  <2>1. SameLock(Refill(c, seq, EmptyTbo(seq)), c) /\ SameLock(c, c)
    BY ZenonT(60), RefillLock DEF SameLock
  <2>2. SameLock(SkipWindow(c, seq), c)
    BY ZenonT(60), RefillLock DEF SkipWindow
  <2>3. SameLock(NextInstances(c, seq - c.seqNo, c.view), c)
    BY ZenonT(60), NextInstancesLock
  <2> QED
    BY ZenonT(60), <2>1, <2>2, <2>3
<1>2. InstallSequenceNumber(c, seq) = [moved EXCEPT !.guard = InstallSeqNo(@, seq)]
  BY ZenonT(60) DEF InstallSequenceNumber
<1> HIDE DEF moved
<1> QED
  BY ZenonT(60), <1>1, <1>2 DEF SameLock, HasGuard, InstallSeqNo

LEMMA InstallViewLock ==
  ASSUME NEW c, HasGuard(c), NEW view
  PROVE  SameLock(InstallView(c, view), c)
<1> DEFINE index == view.seq - c.view.seq
           early == IF index <= Len(c.viewQueue) THEN c.viewQueue[index] ELSE << >>
           base  == BaseSeq(c.tbo)
           ahead(k) == {early[j].seq - base + 1 :
                          j \in {i \in DOMAIN early : early[i].kind = k /\ early[i].seq >= base}}
           decisions == [i \in 1..Watermark |->
                           InitDecision(c.seqNo + i - 1, view,
                             [k \in Kinds |-> Sorted(early, k, c.seqNo + i - 1)])]
           signalled == c.seqNo..(c.seqNo + Watermark - 1)
           queue == [k \in Kinds |->
                       [j \in 1..Highest(ahead(k)) |-> Sorted(early, k, base + j - 1)]]
           viewQueue == DropQueues(c.viewQueue, index)
           e == [c EXCEPT !.view = view, !.guard = InstallViewInGuard(@, view),
                          !.decisions = decisions, !.signalled = signalled,
                          !.tbo.queue = queue, !.viewQueue = viewQueue]
<1>1. InstallView(c, view) = c \/ InstallView(c, view) = e
  BY ZenonT(60) DEF InstallView
<1> HIDE DEF index, early, base, ahead, decisions, signalled, queue, viewQueue
<1>2. SameLock(e, c)
  BY ZenonT(60) DEF SameLock, HasGuard, InstallViewInGuard
<1> QED
  BY ZenonT(60), <1>1, <1>2 DEF SameLock

\* The end of a view change opens the lock.
LEMMA FinalizeViewChangeLock ==
  ASSUME NEW c, HasGuard(c), NEW view, NEW m
  PROVE  /\ HasGuard(FinalizeViewChange(c, view, m))
         /\ FinalizeViewChange(c, view, m).guard.canPropose = TRUE
<1> DEFINE installed == InstallView(c, view)
           decisions == [installed.decisions EXCEPT ![1] = SkipInitPhase(@)]
           skipped == [installed EXCEPT !.decisions = decisions]
           processed == Processed(skipped, m)
<1>1. FinalizeViewChange(c, view, m) = [processed EXCEPT !.guard = UnlockConsensus(@)]
  BY ZenonT(60) DEF FinalizeViewChange
<1>2. HasGuard(installed)
  BY ZenonT(60), InstallViewLock DEF SameLock
<1> HIDE DEF installed, decisions
<1>3. HasGuard(skipped)
  BY ZenonT(60), <1>2 DEF HasGuard
<1> HIDE DEF skipped
<1>4. HasGuard(processed)
  BY ZenonT(60), <1>3, ProcessedLock DEF SameLock
<1> HIDE DEF processed
<1> QED
  BY ZenonT(60), <1>1, <1>4 DEF HasGuard, UnlockConsensus

-----------------------------------------------------------------------------
(***************************************************************************)
(* What the operations of the consensus do to the instances available to   *)
(* the proposer, and to those it was given.                                *)
(*                                                                         *)
(* ProposesOnce says nothing of the instances that enter the window: that  *)
(* they are neither available nor taken is because all those that are lie  *)
(* before its end, and that a new view starts afresh is because none is    *)
(* taken in a view before it is installed.                                 *)
(***************************************************************************)
\* The instances proposed to in view v.
Taken(given, v) == {s \in Nat : [view |-> v, seq |-> s] \in given}

Once(c, given) ==
  /\ \A i \in 1..Watermark :
       /\ c.decisions[i].phase \in Phases
       /\ c.decisions[i].phase = "Initialize" =>
            /\ c.seqNo + i - 1 \notin c.guard.seqs
            /\ c.seqNo + i - 1 \notin Taken(given, c.view.seq)
  /\ \A s \in c.guard.seqs : s < c.seqNo + Watermark /\ s \notin Taken(given, c.view.seq)
  /\ \A s \in Taken(given, c.view.seq) : s < c.seqNo + Watermark
  /\ \A v \in Nat : v > c.view.seq => Taken(given, v) = {}

\* f is d, or what d becomes: no instance goes back to its initial phase.
Moves(f, d) == f.phase \in Phases /\ (f.phase = "Initialize" => d.phase = "Initialize")

Kept(e, c) ==
  /\ e.seqNo = c.seqNo /\ e.view = c.view /\ e.guard.seqs = c.guard.seqs
  /\ \A i \in 1..Watermark : Moves(e.decisions[i], c.decisions[i])

LEMMA OneInWindow == 1 \in 0..Watermark
BY WatermarkNat

LEMMA NextIsNat ==
  ASSUME NEW k \in Nat
  PROVE  k + 1 \in Nat
OBVIOUS

LEMMA ViewSeq ==
  ASSUME NEW v
  PROVE  View(v).seq = v
BY DEF View

\* The place of an instance after the window has moved by n.
LEMMA PlaceMoves ==
  ASSUME NEW k \in Nat, NEW n \in 0..Watermark, NEW i \in 1..(Watermark - n)
  PROVE  n + i \in 1..Watermark /\ (k + n) + i - 1 = k + (n + i) - 1
BY WatermarkNat

LEMMA KeptOnce ==
  ASSUME NEW given, NEW c, Once(c, given), NEW e, Kept(e, c)
  PROVE  Once(e, given)
BY ZenonT(60) DEF Once, Kept, Moves

LEMMA SameKept ==
  ASSUME NEW given, NEW c, Once(c, given), NEW e, e.seqNo = c.seqNo, e.view = c.view,
         e.guard.seqs = c.guard.seqs, e.decisions = c.decisions
  PROVE  Once(e, given)
BY ZenonT(60) DEF Once

LEMMA PutKept ==
  ASSUME NEW given, NEW c, IsWindow(c), Once(c, given), NEW i \in 1..Watermark, NEW d,
         Moves(d, c.decisions[i]), NEW e, e.decisions = [c.decisions EXCEPT ![i] = d],
         e.seqNo = c.seqNo, e.view = c.view, e.guard.seqs = c.guard.seqs
  PROVE  Once(e, given)
<1>1. ASSUME NEW j \in 1..Watermark
      PROVE  Moves(e.decisions[j], c.decisions[j])
  <2>1. c.decisions = [k \in 1..Watermark |-> c.decisions[k]]
    BY ZenonT(60) DEF IsWindow, AreDecisions
  <2>2. CASE j = i
    BY ZenonT(60), <2>1, <2>2
  <2>3. CASE j # i
    <3>1. e.decisions[j] = c.decisions[j]
      BY ZenonT(60), <2>1, <2>3
    <3> QED
      BY ZenonT(60), <3>1 DEF Once, Moves
  <2> QED
    BY ZenonT(60), <2>2, <2>3
<1>2. Kept(e, c)
  BY ZenonT(60), <1>1 DEF Kept
<1> QED
  BY ZenonT(60), <1>2, KeptOnce

\* The operations of an instance.
LEMMA InstanceMoves ==
  ASSUME NEW d, IsDecision(d), d.phase \in Phases, NEW m
  PROVE  /\ Moves(Enqueue(d, m), d) /\ Moves(AfterNextMessage(d), d) /\ Moves(AfterRecv(d), d)
         /\ Moves(SkipInitPhase(d), d)
         /\ Moves(AfterTryPropose(d), d) /\ AfterTryPropose(d).phase # "Initialize"
<1>1. Enqueue(d, m).phase = d.phase
  BY ZenonT(60) DEF Enqueue, IsDecision
<1>2. AfterNextMessage(d).phase = d.phase
  BY ZenonT(60) DEF AfterNextMessage, IsDecision
<1>3. AfterRecv(d).phase = d.phase
  BY ZenonT(60) DEF AfterRecv, IsDecision
<1>4. SkipInitPhase(d).phase = "PrePreparing"
  BY ZenonT(60) DEF SkipInitPhase, IsDecision
<1>5. AfterTryPropose(d).phase = "PrePreparing"
  BY ZenonT(60) DEF AfterTryPropose, IsDecision
<1>6. "PrePreparing" \in Phases /\ "PrePreparing" # "Initialize"
  BY ZenonT(60) DEF Phases
<1> QED
  BY ZenonT(60), <1>1, <1>2, <1>3, <1>4, <1>5, <1>6 DEF Moves

LEMMA AfterAcceptMoves ==
  ASSUME NEW d, IsDecision(d), d.phase \in Phases, NEW m, NEW view, Accepts(d, m, view, Self)
  PROVE  Moves(AfterAccept(d, m, view), d)
<1> DEFINE e == Accept(d, m)
           f == [e EXCEPT !.phase = FollowingPhase(d.phase),
                          !.received = 0,
                          !.getQueue = IF d.phase = "Committing" THEN @ ELSE TRUE]
           g == [e EXCEPT !.received = @ + 1]
<1>1. d.phase \in WorkingPhases
  <2>1. d.phase # "Initialize" /\ d.phase # "Decided"
    BY ZenonT(60) DEF Accepts, Considers, Queues, Ignores
  <2> QED
    BY ZenonT(60), <2>1 DEF Phases, WorkingPhases
<1>2. IsDecision(e) /\ e.phase = d.phase
  <2>1. CASE m.kind = "PrePrepare"
    BY ZenonT(60), <2>1 DEF Accept, IsDecision
  <2>2. CASE m.kind = "Prepare"
    BY ZenonT(60), <2>2 DEF Accept, IsDecision
  <2>3. CASE m.kind \notin {"PrePrepare", "Prepare"}
    BY ZenonT(60), <2>3 DEF Accept, IsDecision
  <2> QED
    BY ZenonT(60), <2>1, <2>2, <2>3
<1>3. AfterAccept(d, m, view) \in {f, g}
  BY ZenonT(60) DEF AfterAccept
<1> HIDE DEF e
<1>4. f.phase = FollowingPhase(d.phase)
  BY ZenonT(60), <1>2 DEF IsDecision
<1>5. g.phase = d.phase
  BY ZenonT(60), <1>2 DEF IsDecision
<1>6. FollowingPhase(d.phase) \in Phases /\ FollowingPhase(d.phase) # "Initialize"
  BY ZenonT(60), <1>1 DEF FollowingPhase, WorkingPhases, Phases
<1> HIDE DEF f, g
<1> QED
  BY ZenonT(60), <1>3, <1>4, <1>5, <1>6 DEF Moves

LEMMA StoreForLaterOnce ==
  ASSUME NEW given, NEW c, IsWindow(c), Once(c, given), NEW m
  PROVE  Once(StoreForLater(c, m), given)
<1> DEFINE e == StoreForLater(c, m)
<1>1. e.decisions = c.decisions /\ e.seqNo = c.seqNo /\ e.view = c.view
  BY ZenonT(60), StoreForLaterShape
<1>2. e.guard = c.guard
  BY ZenonT(60), StoreForLaterWindow
<1> HIDE DEF e
<1>3. Once(e, given)
  BY ZenonT(60), <1>1, <1>2, SameKept
<1> QED
  BY ZenonT(60), <1>3 DEF e

LEMMA InstancePhase ==
  ASSUME NEW given, NEW c, IsWindow(c), Once(c, given), NEW i \in 1..Watermark
  PROVE  IsDecision(c.decisions[i]) /\ c.decisions[i].phase \in Phases
BY ZenonT(60) DEF Once, IsWindow, AreDecisions

LEMMA QueueOnce ==
  ASSUME NEW given, NEW c, IsWindow(c), Once(c, given), NEW m, m.seq \in Nat
  PROVE  Once(Queue(c, m), given)
<1>1. CASE InWindow(c, m)
  <2> DEFINE i == Position(c, m.seq)
             d == Enqueue(c.decisions[i], m)
             signals == c.signalled \cup {m.seq}
             e == [c EXCEPT !.decisions[i] = d, !.signalled = signals]
  <2>1. i \in 1..Watermark
    BY ZenonT(60), <1>1, AddresseeIs
  <2>2. Moves(d, c.decisions[i])
    BY ZenonT(60), <2>1, InstancePhase, InstanceMoves
  <2>3. Queue(c, m) = e
    <3> HIDE DEF i
    <3>1. Queue(c, m) = Signal([c EXCEPT !.decisions[i] = d], m.seq)
      BY ZenonT(60), <1>1 DEF Queue, i
    <3> HIDE DEF d
    <3> QED
      BY ZenonT(60), <3>1 DEF Signal, IsWindow, IsConsensusStruct
  <2> HIDE DEF i, d
  <2>4. e.decisions = [c.decisions EXCEPT ![i] = d]
    BY PutShape
  <2>5. e.seqNo = c.seqNo /\ e.guard = c.guard /\ e.view = c.view
    BY ZenonT(60), <2>3, QueueWindow
  <2> HIDE DEF e
  <2>6. Once(e, given)
    BY ZenonT(60), <2>1, <2>2, <2>4, <2>5, PutKept
  <2> QED
    BY ZenonT(60), <2>3, <2>6
<1>2. CASE ~ InWindow(c, m)
  <2>1. Queue(c, m) = StoreForLater(c, m)
    BY ZenonT(60), <1>2 DEF Queue
  <2> QED
    BY ZenonT(60), <2>1, StoreForLaterOnce
<1> QED
  BY ZenonT(60), <1>1, <1>2

LEMMA ProcessedOnce ==
  ASSUME NEW given, NEW c, IsWindow(c), Once(c, given), NEW m
  PROVE  Once(Processed(c, m), given)
<1> DEFINE e == Processed(c, m)
           d == AddresseeOf(c, m)
           i == Position(c, m.seq)
           woken == IF VotesSent(d, m, c.view, Self) # {} THEN {d.seq} ELSE {}
           queued == [c EXCEPT !.decisions[i] = Enqueue(d, m), !.signalled = c.signalled \cup {d.seq}]
           accepted == [c EXCEPT !.decisions[i] = AfterAccept(d, m, c.view),
                                 !.signalled = c.signalled \cup woken]
<1>1. \/ e = StoreForLater(c, m)
      \/ e = c
      \/ InWindow(c, m) /\ e = queued
      \/ InWindow(c, m) /\ Accepts(d, m, c.view, Self) /\ e = accepted
  BY ZenonT(60), ProcessedShape
<1>2. e.seqNo = c.seqNo /\ e.guard = c.guard /\ e.view = c.view
  BY ZenonT(60), ProcessedWindow
<1> SUFFICES Once(e, given)
  BY ZenonT(60)
<1> HIDE DEF e
<1>3. CASE e = StoreForLater(c, m)
  BY ZenonT(60), <1>3, StoreForLaterOnce
<1>4. ASSUME InWindow(c, m)
      PROVE  i \in 1..Watermark /\ d = c.decisions[i] /\ IsDecision(d) /\ d.phase \in Phases
  <2>1. i \in 1..Watermark
    BY ZenonT(60), <1>4, AddresseeIs
  <2>2. d = c.decisions[i]
    BY ZenonT(60) DEF AddresseeOf
  <2> QED
    BY ZenonT(60), <2>1, <2>2, InstancePhase
<1>5. CASE InWindow(c, m) /\ e = queued
  <2> DEFINE f == Enqueue(d, m)
  <2>1. Moves(f, d)
    <3> HIDE DEF d
    <3> QED
      BY ZenonT(60), <1>4, <1>5, InstanceMoves
  <2> HIDE DEF f, d, i
  <2>2. queued.decisions = [c.decisions EXCEPT ![i] = f]
    BY PutShape DEF f
  <2> HIDE DEF queued
  <2>3. e.decisions = [c.decisions EXCEPT ![i] = f] /\ Moves(f, c.decisions[i])
    BY ZenonT(60), <1>4, <1>5, <2>1, <2>2
  <2> QED
    BY ZenonT(60), <1>2, <1>4, <1>5, <2>3, PutKept
<1>6. CASE InWindow(c, m) /\ Accepts(d, m, c.view, Self) /\ e = accepted
  <2> DEFINE f == AfterAccept(d, m, c.view)
  <2>1. Moves(f, d)
    <3> HIDE DEF d
    <3> QED
      BY ZenonT(60), <1>4, <1>6, AfterAcceptMoves
  <2> HIDE DEF f, d, i, woken
  <2>2. accepted.decisions = [c.decisions EXCEPT ![i] = f]
    BY PutShape DEF f
  <2> HIDE DEF accepted
  <2>3. e.decisions = [c.decisions EXCEPT ![i] = f] /\ Moves(f, c.decisions[i])
    BY ZenonT(60), <1>4, <1>6, <2>1, <2>2
  <2> QED
    BY ZenonT(60), <1>2, <1>4, <1>6, <2>3, PutKept
<1>7. CASE e = c
  BY ZenonT(60), <1>7
<1> QED
  BY ZenonT(60), <1>1, <1>3, <1>5, <1>6, <1>7

LEMMA InitDecisionPhase ==
  ASSUME NEW s, NEW view, NEW queue
  PROVE  InitDecision(s, view, queue).phase \in Phases
BY ZenonT(60) DEF InitDecision, Phases

\* The instances that enter the window come after all that are available or taken.
LEMMA NextInstancesOnce ==
  ASSUME NEW given, NEW c, IsWindow(c), Once(c, given), NEW n \in 0..Watermark, NEW view
  PROVE  Once(NextInstances(c, n, view), given)
<1> DEFINE e == NextInstances(c, n, view)
           taken == Taken(given, c.view.seq)
           last == c.seqNo + Watermark - 1
<1>1. IsNextWindow(e, c, n, view)
  BY ZenonT(60), NextInstancesShape
<1> HIDE DEF e
<1>2. /\ e.seqNo = c.seqNo + n /\ e.view = c.view /\ e.guard = c.guard
      /\ \A i \in 1..(Watermark - n) : e.decisions[i] = c.decisions[n + i]
      /\ \A j \in 1..n : e.decisions[Watermark - n + j] =
                           InitDecision(last + j, view, Front(c.tbo, j))
  BY ZenonT(60), <1>1 DEF IsNextWindow
<1>3. /\ c.seqNo \in Nat /\ c.guard.seqs \subseteq Nat /\ taken \subseteq Nat
      /\ \A s \in c.guard.seqs : s < c.seqNo + Watermark /\ s \notin taken
      /\ \A s \in taken : s < c.seqNo + Watermark
      /\ \A v \in Nat : v > c.view.seq => Taken(given, v) = {}
  BY ZenonT(60) DEF IsWindow, IsGuard, Once, Taken
<1>4. \A i \in 1..Watermark :
        /\ c.decisions[i].phase \in Phases
        /\ c.decisions[i].phase = "Initialize" =>
             c.seqNo + i - 1 \notin c.guard.seqs /\ c.seqNo + i - 1 \notin taken
  BY ZenonT(60) DEF Once
<1> HIDE DEF taken, last
<1>5. ASSUME NEW i \in 1..Watermark
      PROVE  /\ e.decisions[i].phase \in Phases
             /\ e.decisions[i].phase = "Initialize" =>
                  e.seqNo + i - 1 \notin c.guard.seqs /\ e.seqNo + i - 1 \notin taken
  <2>1. CASE i \in 1..(Watermark - n)
    <3>1. n + i \in 1..Watermark /\ e.seqNo + i - 1 = c.seqNo + (n + i) - 1
      BY ZenonT(60), <1>2, <1>3, <2>1, PlaceMoves
    <3> QED
      BY ZenonT(60), <1>2, <1>4, <2>1, <3>1
  <2>2. CASE i \notin 1..(Watermark - n)
    <3>1. PICK j \in 1..n : i = Watermark - n + j
      <4>1. i - (Watermark - n) \in 1..n /\ i = Watermark - n + (i - (Watermark - n))
        BY <2>2, WatermarkNat
      <4> QED
        BY ZenonT(60), <4>1
    <3>2. e.decisions[i].phase \in Phases
      BY ZenonT(60), <1>2, <3>1, InitDecisionPhase
    <3>3. e.seqNo + i - 1 >= c.seqNo + Watermark /\ e.seqNo + i - 1 \in Nat
      BY <1>2, <1>3, <3>1, WatermarkNat
    <3>4. \A s \in c.guard.seqs \cup taken : s # e.seqNo + i - 1
      BY <1>3, <3>3, WatermarkNat
    <3> QED
      BY ZenonT(60), <3>2, <3>4
  <2> QED
    BY ZenonT(60), <2>1, <2>2
<1>6. \A s \in c.guard.seqs \cup taken : s < e.seqNo + Watermark
  <2> SUFFICES ASSUME NEW s \in c.guard.seqs \cup taken
               PROVE  s < e.seqNo + Watermark
    BY ZenonT(60)
  <2>1. s \in Nat /\ s < c.seqNo + Watermark
    BY ZenonT(60), <1>3
  <2>2. e.seqNo = c.seqNo + n /\ c.seqNo \in Nat
    BY ZenonT(60), <1>2, <1>3
  <2> QED
    BY <2>1, <2>2, WatermarkNat
<1>7. Once(e, given)
  BY ZenonT(60), <1>2, <1>3, <1>5, <1>6 DEF Once, taken
<1> QED
  BY ZenonT(60), <1>7 DEF e

\* A step that only takes numbers away from what is available.
LEMMA FewerOnce ==
  ASSUME NEW given, NEW c, Once(c, given), NEW e, e.seqNo = c.seqNo, e.view = c.view,
         e.guard.seqs \subseteq c.guard.seqs, e.decisions = c.decisions
  PROVE  Once(e, given)
BY ZenonT(60) DEF Once

LEMMA GuardOnce ==
  ASSUME NEW given, NEW c, IsWindow(c), Once(c, given), NEW g, g.seqs \subseteq c.guard.seqs
  PROVE  Once([c EXCEPT !.guard = g], given)
<1> DEFINE e == [c EXCEPT !.guard = g]
<1>1. e.seqNo = c.seqNo /\ e.view = c.view /\ e.guard = g /\ e.decisions = c.decisions
  BY ZenonT(60) DEF IsWindow, IsConsensusStruct
<1> HIDE DEF e
<1>2. Once(e, given)
  BY ZenonT(60), <1>1, FewerOnce
<1> QED
  BY ZenonT(60), <1>2 DEF e

LEMMA LockSeqs ==
  ASSUME NEW g, IsGuard(g), NEW seq
  PROVE  /\ LockConsensus(g).seqs = g.seqs /\ UnlockConsensus(g).seqs = g.seqs
         /\ InstallSeqNo(g, seq).seqs \subseteq g.seqs /\ ClearGuard(g).seqs = {}
<1>1. LockConsensus(g).seqs = g.seqs
  BY ZenonT(60) DEF IsGuard, LockConsensus
<1>2. UnlockConsensus(g).seqs = g.seqs
  BY ZenonT(60) DEF IsGuard, UnlockConsensus
<1>3. InstallSeqNo(g, seq).seqs \subseteq g.seqs
  BY ZenonT(60) DEF IsGuard, InstallSeqNo
<1>4. ClearGuard(g).seqs = {}
  BY ZenonT(60) DEF IsGuard, ClearGuard
<1> QED
  BY ZenonT(60), <1>1, <1>2, <1>3, <1>4

\* A state transfer past the end of the window.
LEMMA RefillOnce ==
  ASSUME NEW given, NEW c, IsWindow(c), Once(c, given), NEW seq \in Nat, NEW tbo,
         tbo.curr = seq \/ tbo.curr = seq - Watermark, seq >= c.seqNo + Watermark
  PROVE  Once(Refill(c, seq, tbo), given)
<1> DEFINE e == Refill(c, seq, tbo)
           taken == Taken(given, c.view.seq)
           q(i) == IF i <= FromTbo(tbo, seq) THEN Front(tbo, i) ELSE EmptyQueue
<1>1. IsRefilled(e, c, seq, tbo)
  BY ZenonT(60), RefillShape
<1>2. e.guard = ClearGuard(c.guard)
  BY ZenonT(60), RefillWindow
<1> HIDE DEF e
<1>3. /\ e.seqNo = seq /\ e.view = c.view
      /\ e.decisions = [i \in 1..Watermark |-> InitDecision(seq + i - 1, c.view, q(i))]
  BY ZenonT(60), <1>1 DEF IsRefilled
<1> HIDE DEF q
<1>4. e.guard.seqs = {}
  BY ZenonT(60), <1>2, LockSeqs DEF IsWindow
<1>5. /\ c.seqNo \in Nat /\ taken \subseteq Nat
      /\ \A s \in taken : s < c.seqNo + Watermark
      /\ \A v \in Nat : v > c.view.seq => Taken(given, v) = {}
  BY ZenonT(60) DEF IsWindow, Once, Taken
<1> HIDE DEF taken
<1>6. ASSUME NEW i \in 1..Watermark
      PROVE  e.decisions[i].phase \in Phases
  <2>1. e.decisions[i] = InitDecision(seq + i - 1, c.view, q(i))
    BY ZenonT(60), <1>3
  <2> QED
    BY ZenonT(60), <2>1, InitDecisionPhase
<1>7. \A s \in taken : s < seq
  BY <1>5, WatermarkNat
<1>8. \A s \in taken : s < seq + Watermark
  BY <1>5, <1>7, WatermarkNat
<1>9. \A i \in 1..Watermark : seq + i - 1 \notin taken
  BY <1>5, <1>7, WatermarkNat
<1>10. Once(e, given)
  BY ZenonT(60), <1>3, <1>4, <1>5, <1>6, <1>8, <1>9 DEF Once, taken
<1> QED
  BY ZenonT(60), <1>10 DEF e

LEMMA InstallSequenceNumberOnce ==
  ASSUME NEW given, NEW c, IsWindow(c), Once(c, given), NEW seq \in Nat, seq > c.seqNo
  PROVE  Once(InstallSequenceNumber(c, seq), given)
<1>0. c.seqNo \in Nat
  BY ZenonT(60) DEF IsWindow
<1>1. PICK moved : /\ IsWindow(moved) /\ Once(moved, given)
                   /\ InstallSequenceNumber(c, seq) = [moved EXCEPT !.guard = InstallSeqNo(@, seq)]
  <2>1. CASE seq >= c.seqNo + Watermark
    <3> DEFINE overflow == seq - c.seqNo - Watermark
               tbo == IF overflow >= Len(c.tbo.queue["PrePrepare"])
                        THEN EmptyTbo(seq) ELSE AdvanceQueue(c.tbo, overflow)
               moved == Refill(c, seq, tbo)
    <3>1. tbo.curr = seq \/ tbo.curr = seq - Watermark
      <4>1. EmptyTbo(seq).curr = seq
        BY ZenonT(60) DEF EmptyTbo
      <4>2. AdvanceQueue(c.tbo, overflow).curr = seq - Watermark
        BY <1>0, WatermarkNat DEF AdvanceQueue, IsWindow
      <4> QED
        BY ZenonT(60), <4>1, <4>2
    <3>2. ~ (seq < c.seqNo) /\ seq # c.seqNo
      BY <1>0
    <3>3. InstallSequenceNumber(c, seq) = [moved EXCEPT !.guard = InstallSeqNo(@, seq)]
      BY ZenonT(60), <2>1, <3>2 DEF InstallSequenceNumber, SkipWindow
    <3> HIDE DEF tbo
    <3>4. IsWindow(moved) /\ Once(moved, given)
      BY ZenonT(60), <2>1, <3>1, RefillWindow, RefillOnce
    <3> HIDE DEF moved
    <3> QED
      BY ZenonT(60), <3>3, <3>4
  <2>2. CASE ~ (seq >= c.seqNo + Watermark)
    <3> DEFINE n == seq - c.seqNo
               moved == NextInstances(c, n, c.view)
    <3>1. n \in 0..Watermark /\ ~ (seq < c.seqNo) /\ seq # c.seqNo
      BY <1>0, <2>2, WatermarkNat
    <3>2. InstallSequenceNumber(c, seq) = [moved EXCEPT !.guard = InstallSeqNo(@, seq)]
      BY ZenonT(60), <2>2, <3>1 DEF InstallSequenceNumber
    <3> HIDE DEF n
    <3>3. IsWindow(moved) /\ Once(moved, given)
      BY ZenonT(60), <3>1, NextInstancesWindow, NextInstancesOnce
    <3> HIDE DEF moved
    <3> QED
      BY ZenonT(60), <3>2, <3>3
  <2> QED
    BY ZenonT(60), <2>1, <2>2
<1> DEFINE g == InstallSeqNo(moved.guard, seq)
<1>2. g.seqs \subseteq moved.guard.seqs
  BY ZenonT(60), <1>1, LockSeqs DEF IsWindow
<1>3. InstallSequenceNumber(c, seq) = [moved EXCEPT !.guard = g]
  BY ZenonT(60), <1>1
<1> HIDE DEF g
<1>4. Once([moved EXCEPT !.guard = g], given)
  BY ZenonT(60), <1>1, <1>2, GuardOnce
<1> QED
  BY ZenonT(60), <1>3, <1>4

\* In a later view nothing is available or taken.
LEMMA InstallViewOnce ==
  ASSUME NEW given, NEW c, IsWindow(c), Once(c, given), c.view.seq \in Nat,
         NEW view, view.seq \in Nat
  PROVE  Once(InstallView(c, view), given)
<1> DEFINE e == InstallView(c, view)
           early == IF view.seq - c.view.seq <= Len(c.viewQueue)
                      THEN c.viewQueue[view.seq - c.view.seq] ELSE << >>
           q(i) == [k \in Kinds |-> Sorted(early, k, c.seqNo + i - 1)]
<1>1. CASE view.seq > c.view.seq
  <2>1. IsInstalled(e, c, view)
    BY ZenonT(60), <1>1, InstallViewShape
  <2> HIDE DEF e
  <2>2. /\ e.seqNo = c.seqNo /\ e.view = view /\ e.guard = InstallViewInGuard(c.guard, view)
        /\ e.decisions = [i \in 1..Watermark |-> InitDecision(c.seqNo + i - 1, view, q(i))]
    BY ZenonT(60), <2>1 DEF IsInstalled
  <2> HIDE DEF q, early
  <2>3. e.guard.seqs = {}
    BY ZenonT(60), <2>2 DEF InstallViewInGuard, IsGuard, IsWindow
  <2>4. ASSUME NEW i \in 1..Watermark
        PROVE  e.decisions[i].phase \in Phases
    <3>1. e.decisions[i] = InitDecision(c.seqNo + i - 1, view, q(i))
      BY ZenonT(60), <2>2
    <3> QED
      BY ZenonT(60), <3>1, InitDecisionPhase
  <2>5. \A v \in Nat : v >= view.seq => Taken(given, v) = {}
    <3>1. \A v \in Nat : v >= view.seq => v > c.view.seq
      BY <1>1
    <3> QED
      BY ZenonT(60), <3>1 DEF Once
  <2>6. Taken(given, view.seq) = {} /\ \A v \in Nat : v > view.seq => Taken(given, v) = {}
    <3>1. view.seq >= view.seq /\ \A v \in Nat : v > view.seq => v >= view.seq
      OBVIOUS
    <3> QED
      BY ZenonT(60), <2>5, <3>1
  <2>7. Once(e, given)
    BY ZenonT(60), <2>2, <2>3, <2>4, <2>6 DEF Once
  <2> QED
    BY ZenonT(60), <2>7 DEF e
<1>2. CASE ~ (view.seq > c.view.seq)
  <2>1. view.seq <= c.view.seq
    BY <1>2
  <2>2. InstallView(c, view) = c
    BY ZenonT(60), <2>1 DEF InstallView
  <2> QED
    BY ZenonT(60), <2>2
<1> QED
  BY ZenonT(60), <1>1, <1>2

LEMMA FinalizeViewChangeOnce ==
  ASSUME NEW given, NEW c, IsWindow(c), Once(c, given), c.view.seq \in Nat,
         NEW view, view.seq \in Nat, NEW m
  PROVE  Once(FinalizeViewChange(c, view, m), given)
<1> DEFINE installed == InstallView(c, view)
           d == SkipInitPhase(installed.decisions[1])
           skipped == [installed EXCEPT !.decisions[1] = d]
           processed == Processed(skipped, m)
           g == UnlockConsensus(processed.guard)
<1>1. IsWindow(installed) /\ Once(installed, given)
  BY ZenonT(60), InstallViewWindow, InstallViewOnce
<1>2. FinalizeViewChange(c, view, m) = [processed EXCEPT !.guard = g]
  BY ZenonT(60) DEF FinalizeViewChange
<1> HIDE DEF installed
<1>3. 1 \in 1..Watermark
  BY WatermarkNat
<1>4. /\ IsDecision(d) /\ d.seq = installed.seqNo + 1 - 1 /\ Moves(d, installed.decisions[1])
  <2>1. /\ IsDecision(installed.decisions[1]) /\ installed.decisions[1].phase \in Phases
        /\ installed.decisions[1].seq = installed.seqNo + 1 - 1
    BY ZenonT(60), <1>1, <1>3, InstancePhase DEF IsWindow, AreDecisions
  <2> QED
    BY ZenonT(60), <2>1, PollIs, InstanceMoves
<1> HIDE DEF d
<1>5. skipped.decisions = [installed.decisions EXCEPT ![1] = d]
  BY ZenonT(60), <1>1 DEF IsWindow, IsConsensusStruct
<1>6. /\ IsWindow(skipped) /\ skipped.seqNo = installed.seqNo
      /\ skipped.guard = installed.guard /\ skipped.view = installed.view
  BY ZenonT(60), <1>1, <1>3, <1>4, PutDecision
<1> HIDE DEF skipped
<1>7. Once(skipped, given)
  BY ZenonT(60), <1>1, <1>3, <1>4, <1>5, <1>6, PutKept
<1>8. IsWindow(processed) /\ Once(processed, given)
  BY ZenonT(60), <1>6, <1>7, ProcessedWindow, ProcessedOnce
<1> HIDE DEF processed
<1>9. g.seqs \subseteq processed.guard.seqs
  BY ZenonT(60), <1>8, LockSeqs DEF IsWindow
<1> HIDE DEF g
<1>10. Once([processed EXCEPT !.guard = g], given)
  BY ZenonT(60), <1>8, <1>9, GuardOnce
<1> QED
  BY ZenonT(60), <1>2, <1>10

-----------------------------------------------------------------------------
\* The actions.
LEMMA FinalizeAllPossibleOnce ==
  ASSUME NEW given, NEW c, IsWindow(c), Once(c, given), FinalizeAllPossible(c)
  PROVE  Once(consensus', given)
<1>1. PICK n \in 0..Watermark : consensus' = NextInstances(c, n, c.view)
  BY ZenonT(60) DEF FinalizeAllPossible
<1>2. Once(NextInstances(c, n, c.view), given)
  BY ZenonT(60), NextInstancesOnce
<1> QED
  BY ZenonT(60), <1>1, <1>2

LEMMA AdvConsensusOnce ==
  ASSUME NEW given, NEW c, IsWindow(c), Once(c, given), NEW m, NEW rest, AdvConsensus(c, m, rest)
  PROVE  Once(consensus', given)
<1> DEFINE next == Processed(c, m)
<1>1. IsWindow(next) /\ Once(next, given)
  BY ZenonT(60), ProcessedWindow, ProcessedOnce
<1>2. FinalizeAllPossible(next) \/ consensus' = next
  BY ZenonT(60) DEF AdvConsensus
<1> HIDE DEF next
<1> QED
  BY ZenonT(60), <1>1, <1>2, FinalizeAllPossibleOnce

\* poll() gives the proposer an instance that it takes out of its initial phase.
LEMMA PollTryProposeOnce ==
  ASSUME NEW given, IsWindow(consensus), Once(consensus, given), NEW s, PollTryPropose(s)
  PROVE  Once(consensus', given)
<1> DEFINE c == consensus
           i == Position(consensus, s)
           d == Polled(consensus, s)
           f == AfterTryPropose(d)
           g == IF Self \in consensus.view.leaders THEN MakeSeqAvailable(consensus.guard, s)
                                                   ELSE consensus.guard
           e == [consensus EXCEPT !.decisions[i] = f, !.guard = g]
<1>1. /\ IsNextSignal(consensus, s) /\ s >= consensus.seqNo /\ d.phase = "Initialize"
      /\ consensus' = e
  BY ZenonT(60) DEF PollTryPropose, PollTriesPropose, Polled
<1>2. s \in Nat /\ i \in 1..Watermark /\ IsDecision(d)
  BY ZenonT(60), <1>1, PolledIs
<1>3. s = c.seqNo + i - 1 /\ s < c.seqNo + Watermark /\ c.seqNo \in Nat
  BY <1>1, <1>2 DEF Position, IsWindow, IsNextSignal
<1>4. d = c.decisions[i]
  BY ZenonT(60) DEF Polled
<1>5. Moves(f, d) /\ f.phase # "Initialize"
  <2>1. d.phase \in Phases
    BY ZenonT(60), <1>1 DEF Phases
  <2> HIDE DEF d
  <2> QED
    BY ZenonT(60), <1>2, <2>1, InstanceMoves
<1>6. s \notin Taken(given, c.view.seq)
  BY ZenonT(60), <1>1, <1>2, <1>3, <1>4 DEF Once
<1>7. g.seqs \subseteq c.guard.seqs \cup {s}
  <2>1. MakeSeqAvailable(c.guard, s).seqs = c.guard.seqs \cup {s}
    BY ZenonT(60) DEF MakeSeqAvailable, IsGuard, IsWindow
  <2> QED
    BY ZenonT(60), <2>1
<1> HIDE DEF f, g, i, d
<1>8. /\ e.decisions = [c.decisions EXCEPT ![i] = f] /\ e.seqNo = c.seqNo
      /\ e.guard = g /\ e.view = c.view
  BY ZenonT(60) DEF IsWindow, IsConsensusStruct
<1>9. c.decisions = [j \in 1..Watermark |-> c.decisions[j]]
  BY ZenonT(60) DEF IsWindow, AreDecisions
<1> HIDE DEF e
<1>10. ASSUME NEW j \in 1..Watermark
       PROVE  /\ e.decisions[j].phase \in Phases
              /\ e.decisions[j].phase = "Initialize" =>
                   /\ c.seqNo + j - 1 \notin g.seqs
                   /\ c.seqNo + j - 1 \notin Taken(given, c.view.seq)
  <2>1. CASE j = i
    <3>1. e.decisions[j] = f
      BY ZenonT(60), <1>8, <1>9, <2>1
    <3> QED
      BY ZenonT(60), <1>5, <3>1 DEF Moves
  <2>2. CASE j # i
    <3>1. e.decisions[j] = c.decisions[j]
      BY ZenonT(60), <1>8, <1>9, <2>2
    <3>2. c.seqNo + j - 1 # s
      BY <1>2, <1>3, <2>2, WatermarkNat
    <3> QED
      BY ZenonT(60), <1>7, <3>1, <3>2 DEF Once
  <2> QED
    BY ZenonT(60), <2>1, <2>2
<1>11. \A t \in g.seqs : t < c.seqNo + Watermark /\ t \notin Taken(given, c.view.seq)
  BY ZenonT(60), <1>3, <1>6, <1>7 DEF Once
<1>12. /\ \A t \in Taken(given, c.view.seq) : t < c.seqNo + Watermark
       /\ \A v \in Nat : v > c.view.seq => Taken(given, v) = {}
  BY ZenonT(60) DEF Once
<1>13. Once(e, given)
  BY ZenonT(60), <1>8, <1>10, <1>11, <1>12 DEF Once
<1> QED
  BY ZenonT(60), <1>1, <1>13

LEMMA PollOnce ==
  ASSUME NEW given, IsWindow(consensus), Once(consensus, given), NEW s, Poll(s)
  PROVE  Once(consensus', given)
<1> DEFINE c == consensus
           i == Position(consensus, s)
           d == Polled(consensus, s)
<1>1. ASSUME IsNextSignal(consensus, s), s >= consensus.seqNo
      PROVE  /\ i \in 1..Watermark /\ IsDecision(d) /\ d.phase \in Phases /\ d = c.decisions[i]
             /\ d.seq = c.seqNo + i - 1
  <2>1. i \in 1..Watermark /\ d.seq = c.seqNo + i - 1
    BY ZenonT(60), <1>1, PolledIs
  <2>2. d = c.decisions[i]
    BY ZenonT(60) DEF Polled
  <2> QED
    BY ZenonT(60), <2>1, <2>2, InstancePhase
<1>2. CASE PollStale(s)
  <2> DEFINE e == Unsignal(consensus, s)
  <2>1. consensus' = e
    BY ZenonT(60), <1>2 DEF PollStale
  <2>2. /\ e.decisions = c.decisions /\ e.seqNo = c.seqNo /\ e.guard = c.guard
        /\ e.view = c.view
    BY ZenonT(60), UnsignalWindow
  <2> HIDE DEF e
  <2>3. Once(e, given)
    BY ZenonT(60), <2>2, SameKept
  <2> QED
    BY ZenonT(60), <2>1, <2>3
<1>3. CASE PollTryPropose(s)
  BY ZenonT(60), <1>3, PollTryProposeOnce
<1>4. CASE PollNextMessage(s)
  <2> DEFINE f == AfterNextMessage(d)
             e == [consensus EXCEPT !.decisions[i] = f]
  <2>1. IsNextSignal(consensus, s) /\ s >= consensus.seqNo
    BY ZenonT(60), <1>4 DEF PollNextMessage
  <2>2. AdvConsensus(e, NextMessage(d), net)
    BY ZenonT(60), <1>4 DEF PollNextMessage, Polled
  <2>3. IsDecision(f) /\ f.seq = c.seqNo + i - 1 /\ Moves(f, c.decisions[i])
    <3>1. Moves(f, d)
      <4> HIDE DEF d
      <4> QED
        BY ZenonT(60), <1>1, <2>1, InstanceMoves
    <3>2. IsDecision(f) /\ f.seq = d.seq
      <4> HIDE DEF d
      <4> QED
        BY ZenonT(60), <1>1, <2>1, PollIs
    <3> HIDE DEF d, f, i
    <3> QED
      BY ZenonT(60), <1>1, <2>1, <3>1, <3>2
  <2> HIDE DEF f, i, d
  <2>4. e.decisions = [c.decisions EXCEPT ![i] = f]
    BY ZenonT(60) DEF IsWindow, IsConsensusStruct
  <2>5. IsWindow(e) /\ e.seqNo = c.seqNo /\ e.guard = c.guard /\ e.view = c.view
    BY ZenonT(60), <1>1, <2>1, <2>3, PutDecision
  <2> HIDE DEF e
  <2>6. Once(e, given)
    BY ZenonT(60), <1>1, <2>1, <2>3, <2>4, <2>5, PutKept
  <2> QED
    BY ZenonT(60), <2>2, <2>5, <2>6, AdvConsensusOnce
<1>5. CASE PollRecv(s)
  <2> DEFINE u == Unsignal(consensus, s)
             f == AfterRecv(d)
             e == [u EXCEPT !.decisions[i] = f]
  <2>1. IsNextSignal(consensus, s) /\ s >= consensus.seqNo
    BY ZenonT(60), <1>5 DEF PollRecv
  <2>2. /\ IsWindow(u) /\ u.seqNo = c.seqNo /\ u.decisions = c.decisions /\ u.view = c.view
        /\ u.guard = c.guard
    BY ZenonT(60), UnsignalWindow
  <2>3. consensus' = e
    BY ZenonT(60), <1>5, <2>2 DEF PollRecv, Polled
  <2>4. Moves(f, c.decisions[i])
    <3>1. Moves(f, d)
      <4> HIDE DEF d
      <4> QED
        BY ZenonT(60), <1>1, <2>1, InstanceMoves
    <3> HIDE DEF d, f, i
    <3> QED
      BY ZenonT(60), <1>1, <2>1, <3>1
  <2> HIDE DEF u, f, i, d
  <2>5. /\ e.decisions = [c.decisions EXCEPT ![i] = f] /\ e.seqNo = c.seqNo
        /\ e.guard = c.guard /\ e.view = c.view
    BY ZenonT(60), <2>2 DEF IsWindow, IsConsensusStruct
  <2> HIDE DEF e
  <2>6. Once(e, given)
    BY ZenonT(60), <1>1, <2>1, <2>4, <2>5, PutKept
  <2> QED
    BY ZenonT(60), <2>3, <2>6
<1> QED
  BY ZenonT(60), <1>2, <1>3, <1>4, <1>5 DEF Poll

\* What is proposed to is no longer available.
LEMMA ProposeOnce ==
  ASSUME IsWindow(consensus), Once(consensus, granted), consensus.view.seq \in Nat,
         consensus.guard.view = consensus.view,
         NEW s \in consensus.guard.seqs, Propose(s)
  PROVE  Once(consensus', granted')
<1> DEFINE c == consensus
           g == TakeSeqNo(consensus.guard, s)
           e == [consensus EXCEPT !.guard = g]
<1>1. consensus' = e /\ granted' = granted \cup {[view |-> c.view.seq, seq |-> s]}
  BY ZenonT(60) DEF Propose
<1>2. s \in Nat /\ g.seqs = c.guard.seqs \ {s}
  BY ZenonT(60) DEF TakeSeqNo, IsGuard, IsWindow
<1> HIDE DEF g
<1>3. e.decisions = c.decisions /\ e.seqNo = c.seqNo /\ e.guard = g /\ e.view = c.view
  BY ZenonT(60) DEF IsWindow, IsConsensusStruct
<1> HIDE DEF e
<1>4. ASSUME NEW v \in Nat
      PROVE  Taken(granted', v) = IF v = c.view.seq THEN Taken(granted, v) \cup {s}
                                                    ELSE Taken(granted, v)
  BY ZenonT(60), <1>1, <1>2 DEF Taken
<1>5. /\ Taken(granted', c.view.seq) = Taken(granted, c.view.seq) \cup {s}
      /\ \A v \in Nat : v > c.view.seq => Taken(granted', v) = Taken(granted, v)
  <2>1. \A v \in Nat : v > c.view.seq => v # c.view.seq
    OBVIOUS
  <2> QED
    BY ZenonT(60), <1>4, <2>1
<1>6. ASSUME NEW i \in 1..Watermark
      PROVE  /\ e.decisions[i].phase \in Phases
             /\ e.decisions[i].phase = "Initialize" =>
                  /\ e.seqNo + i - 1 \notin e.guard.seqs
                  /\ e.seqNo + i - 1 \notin Taken(granted', c.view.seq)
  <2>1. e.decisions[i] = c.decisions[i] /\ e.seqNo + i - 1 = c.seqNo + i - 1
    BY ZenonT(60), <1>3
  <2>2. /\ c.decisions[i].phase \in Phases
        /\ c.decisions[i].phase = "Initialize" =>
             /\ c.seqNo + i - 1 \notin c.guard.seqs
             /\ c.seqNo + i - 1 \notin Taken(granted, c.view.seq)
    BY ZenonT(60) DEF Once
  <2>3. e.guard.seqs \subseteq c.guard.seqs
    BY ZenonT(60), <1>2, <1>3
  <2>4. \A k \in Taken(granted', c.view.seq) :
          k \in Taken(granted, c.view.seq) \/ k \in c.guard.seqs
    BY ZenonT(60), <1>5
  <2> QED
    BY ZenonT(60), <2>1, <2>2, <2>3, <2>4
<1>7. \A t \in e.guard.seqs : t < e.seqNo + Watermark /\ t \notin Taken(granted', c.view.seq)
  BY ZenonT(60), <1>2, <1>3, <1>5 DEF Once
<1>8. /\ \A t \in Taken(granted', c.view.seq) : t < e.seqNo + Watermark
      /\ \A v \in Nat : v > c.view.seq => Taken(granted', v) = {}
  BY ZenonT(60), <1>3, <1>5 DEF Once
<1>9. Once(e, granted')
  BY ZenonT(60), <1>3, <1>6, <1>7, <1>8 DEF Once
<1> QED
  BY ZenonT(60), <1>1, <1>9
=============================================================================
