------------------------ MODULE StateTransferProofs -------------------------
(***************************************************************************)
(* For any number of replicas, of which at most F are faulty, any number   *)
(* of requests and any bounds: what a state transfer installs is the state *)
(* of a correct replica, and it runs exactly while it waits for replies.   *)
(*                                                                         *)
(* The code counts the states it receives per digest and not who sent      *)
(* them.  What bounds the count is that a faulty replica answers a request *)
(* once: each is asked once per request (Once), with numbers that are not  *)
(* used twice (Fresh), so those whose answer to the current request has    *)
(* been counted and those who have yet to answer (Unanswered) are never    *)
(* more than the faulty replicas (FewVotes).                               *)
(***************************************************************************)
EXTENDS StateTransfer, FiniteSetTheorems, TLAPS

USE SMTT(120)

Phases == {"Init", "WaitingCheckpoint", "ReceivingCid", "ReceivingState"}

Checkpoints == [seq : 1..MaxSeq, digest : Digest]

States == [seq : 0..MaxSeq, digest : Digest]

Received == [Digest -> [seq : 0..MaxSeq, count : Nat]]

CstType ==
  [currSeq : Nat, phase : Phases, count : Nat, waiting : SUBSET [from : Node, cst : Nat],
   partial : 0..MaxSeq, complete : Checkpoints \cup {NoCheckpoint},
   ids : Received, states : Received]

Requests == [kind : RequestKinds, from : Node, to : Node, cst : Nat]

Replies ==
  [kind : {"ReplyStateCid"}, from : Node, to : Node, cst : Nat,
   checkpoint : Checkpoints \cup {NoCheckpoint}]
    \cup [kind : {"ReplyState"}, from : Node, to : Node, cst : Nat, checkpoint : Checkpoints]

TypeInv ==
  /\ cst \in [Correct -> CstType]
  /\ running \in [Correct -> BOOLEAN]
  /\ executed \in [Correct -> 0..MaxSeq]
  /\ taken \subseteq Checkpoints
  /\ installed \in [Correct -> SUBSET States]
  /\ net \subseteq Requests \cup Replies
  /\ bound \in Bounds

\* What a correct replica has and sends of its own is a checkpoint it has taken.
SendsTaken ==
  /\ \A r \in Correct : Has(cst[r]) => cst[r].complete \in taken
  /\ \A m \in net : m.kind = "ReplyState" /\ m.from \in Correct => m.checkpoint \in taken

\* m is what r asks of the faulty replica n, or what n answers.
IsTalk(m, r, n) ==
  \/ m.kind = "RequestState" /\ m.from = r /\ m.to = n
  \/ m.kind = "ReplyState" /\ m.from = n /\ m.to = r

Fresh ==
  \A r \in Correct, n \in Faulty, m \in net : IsTalk(m, r, n) => m.cst <= cst[r].currSeq

Once ==
  \A r \in Correct, n \in Faulty, m1, m2 \in net :
    IsTalk(m1, r, n) /\ IsTalk(m2, r, n) /\ m1.cst = m2.cst => m1 = m2

\* The faulty replicas whose answer to request k of r has not been received.
Unanswered(messages, r, k) ==
  {n \in Faulty : \E m \in messages : IsTalk(m, r, n) /\ m.cst = k}

TakenDigests == {t.digest : t \in taken}

FewVotes ==
  \A r \in Correct, d \in Digest :
    d \notin TakenDigests =>
      cst[r].states[d].count + Cardinality(Unanswered(net, r, cst[r].currSeq))
        <= Cardinality(Faulty)

TransferInv ==
  TypeInv /\ IdleOffContext /\ SendsTaken /\ Fresh /\ Once /\ FewVotes /\ InstalledIsCorrect

-----------------------------------------------------------------------------
LEMMA FaultyFinite ==
  /\ IsFiniteSet(Faulty) /\ Cardinality(Faulty) \in Nat /\ Cardinality(Faulty) <= F
  /\ Correct \cap Faulty = {}
  /\ F \in Nat /\ MaxSeq \in Nat
<1>1. IsFiniteSet(Faulty)
  BY FS_Subset, StateTransferAssumption
<1>2. Cardinality(Faulty) \in Nat
  BY <1>1, FS_CardinalityType
<1> QED
  BY <1>1, <1>2, StateTransferAssumption DEF Correct

\* The replicas that have not answered yet are some of the faulty ones.
LEMMA UnansweredBounded ==
  ASSUME NEW messages, NEW r, NEW k
  PROVE  /\ Cardinality(Unanswered(messages, r, k)) \in Nat
         /\ Cardinality(Unanswered(messages, r, k)) <= Cardinality(Faulty)
<1>1. Unanswered(messages, r, k) \subseteq Faulty
  BY DEF Unanswered
<1>2. IsFiniteSet(Unanswered(messages, r, k))
  BY <1>1, FaultyFinite, FS_Subset
<1> QED
  BY <1>1, <1>2, FaultyFinite, FS_Subset, FS_CardinalityType

\* Fewer messages, fewer replicas that have not answered.
LEMMA UnansweredShrinks ==
  ASSUME NEW before, NEW after, NEW r, NEW k,
         \A n \in Faulty, m \in after : IsTalk(m, r, n) /\ m.cst = k => m \in before
  PROVE  Cardinality(Unanswered(after, r, k)) <= Cardinality(Unanswered(before, r, k))
<1>1. Unanswered(after, r, k) \subseteq Unanswered(before, r, k)
  BY DEF Unanswered
<1>2. IsFiniteSet(Unanswered(before, r, k))
  BY FaultyFinite, FS_Subset DEF Unanswered
<1> QED
  BY <1>1, <1>2, FS_Subset

\* Votes and replicas that have not answered, when some of these have.
LEMMA FewerLeft ==
  ASSUME NEW votes \in Nat, NEW before \in Nat, NEW after \in Nat, NEW all \in Nat,
         votes + before <= all, after <= before
  PROVE  votes + after <= all
OBVIOUS

LEMMA NotLess ==
  ASSUME NEW a \in Nat, NEW b \in Nat, ~ (a < b)
  PROVE  a >= b
OBVIOUS

LEMMA CountsNat ==
  ASSUME TypeInv, NEW r \in Correct, NEW d \in Digest
  PROVE  cst[r].states[d].count \in Nat /\ cst[r].currSeq \in Nat
BY DEF TypeInv, CstType, Received

-----------------------------------------------------------------------------
(***************************************************************************)
(* How the steps change what the correct and the faulty replicas say to    *)
(* each other about states.                                                *)
(***************************************************************************)
Talk == Fresh /\ Once /\ FewVotes

\* Nothing is asked or counted: messages and votes may have disappeared.
LEMMA TalkSame ==
  ASSUME TypeInv, TypeInv', Talk, taken \subseteq taken',
         \A s \in Correct : cst'[s].currSeq = cst[s].currSeq,
         \A s \in Correct, d \in Digest : cst'[s].states[d].count <= cst[s].states[d].count,
         \A s \in Correct, n \in Faulty, m \in net' : IsTalk(m, s, n) => m \in net
  PROVE  Talk'
<1>1. Fresh' /\ Once'
  BY DEF Talk, Fresh, Once
<1>2. FewVotes'
  <2> SUFFICES ASSUME NEW r \in Correct, NEW d \in Digest, d \notin TakenDigests'
               PROVE  cst'[r].states[d].count
                        + Cardinality(Unanswered(net', r, cst'[r].currSeq)) <= Cardinality(Faulty)
    BY DEF FewVotes
  <2>1. d \notin TakenDigests
    BY DEF TakenDigests
  <2>2. cst[r].states[d].count + Cardinality(Unanswered(net, r, cst[r].currSeq))
          <= Cardinality(Faulty)
    BY <2>1 DEF Talk, FewVotes
  <2>3. Cardinality(Unanswered(net', r, cst[r].currSeq))
          <= Cardinality(Unanswered(net, r, cst[r].currSeq))
    BY UnansweredShrinks
  <2>4. cst'[r].states[d].count \in Nat
    BY DEF TypeInv, CstType, Received
  <2> QED
    BY <2>2, <2>3, <2>4, CountsNat, UnansweredBounded, FaultyFinite
<1> QED
  BY <1>1, <1>2 DEF Talk

\* r goes on to its next request, which is not for a state.
LEMMA TalkNext ==
  ASSUME TypeInv, TypeInv', Talk, taken \subseteq taken', NEW r \in Correct,
         cst'[r].currSeq = cst[r].currSeq + 1, cst'[r].states = cst[r].states,
         \A s \in Correct \ {r} : cst'[s] = cst[s],
         \A s \in Correct, n \in Faulty, m \in net' : IsTalk(m, s, n) => m \in net
  PROVE  Talk'
<1>1. Fresh'
  <2> SUFFICES ASSUME NEW s \in Correct, NEW n \in Faulty, NEW m \in net', IsTalk(m, s, n)
               PROVE  m.cst <= cst'[s].currSeq
    BY DEF Fresh
  <2>1. m.cst <= cst[s].currSeq /\ m.cst \in Nat /\ cst[s].currSeq \in Nat
    BY DEF Talk, Fresh, TypeInv, CstType, Requests, Replies
  <2> QED
    BY <2>1
<1>2. Once'
  BY DEF Talk, Once
<1>3. FewVotes'
  <2> SUFFICES ASSUME NEW s \in Correct, NEW d \in Digest, d \notin TakenDigests'
               PROVE  cst'[s].states[d].count
                        + Cardinality(Unanswered(net', s, cst'[s].currSeq)) <= Cardinality(Faulty)
    BY DEF FewVotes
  <2>1. cst[s].states[d].count + Cardinality(Unanswered(net, s, cst[s].currSeq))
          <= Cardinality(Faulty)
    BY DEF Talk, FewVotes, TakenDigests
  <2>2. CASE s # r
    <3>1. Cardinality(Unanswered(net', s, cst[s].currSeq))
            <= Cardinality(Unanswered(net, s, cst[s].currSeq))
      BY UnansweredShrinks
    <3> QED
      BY <2>1, <2>2, <3>1, CountsNat, UnansweredBounded, FaultyFinite
  <2>3. CASE s = r
    <3>1. \A n \in Faulty, m \in net' : IsTalk(m, r, n) /\ m.cst = cst'[r].currSeq => m \in {}
      BY CountsNat DEF Talk, Fresh
    <3>2. Unanswered(net', r, cst'[r].currSeq) = {}
      BY <3>1 DEF Unanswered
    <3>3. Cardinality(Unanswered(net', r, cst'[r].currSeq)) = 0
      BY <3>2, FS_EmptySet
    <3>4. Cardinality(Unanswered(net, r, cst[r].currSeq)) \in Nat
      BY UnansweredBounded
    <3> QED
      BY <2>1, <2>3, <3>3, <3>4, CountsNat, FaultyFinite
  <2> QED
    BY <2>2, <2>3
<1> QED
  BY <1>1, <1>2, <1>3 DEF Talk

\* r asks everybody for the state, with the next number and no votes.
LEMMA TalkAsk ==
  ASSUME TypeInv, TypeInv', Talk, taken \subseteq taken', NEW r \in Correct,
         cst'[r].currSeq = cst[r].currSeq + 1, cst'[r].states = NoneReceived,
         \A s \in Correct \ {r} : cst'[s] = cst[s],
         \A s \in Correct, n \in Faulty, m \in net' :
           IsTalk(m, s, n) =>
             m \in net \/ (s = r /\ m = Request("RequestState", r, n, cst'[r].currSeq))
  PROVE  Talk'
<1>1. \A s \in Correct, n \in Faulty, m \in net' :
        IsTalk(m, s, n) => \/ m \in net /\ m.cst \in Nat /\ m.cst <= cst[s].currSeq
                           \/ (s = r /\ m = Request("RequestState", r, n, cst'[r].currSeq))
  BY DEF Talk, Fresh, TypeInv, Requests, Replies
<1>2. \A n : Request("RequestState", r, n, cst'[r].currSeq).cst = cst'[r].currSeq
  BY DEF Request
<1>3. \A s \in Correct : cst[s].currSeq \in Nat
  BY DEF TypeInv, CstType
<1>4. Fresh'
  BY <1>1, <1>2, <1>3 DEF Fresh
<1>5. Once'
  <2> SUFFICES ASSUME NEW s \in Correct, NEW n \in Faulty, NEW m1 \in net', NEW m2 \in net',
                      IsTalk(m1, s, n), IsTalk(m2, s, n), m1.cst = m2.cst
               PROVE  m1 = m2
    BY DEF Once
  <2>1. CASE m1 \in net /\ m2 \in net
    BY <2>1 DEF Talk, Once
  <2>2. CASE m1 \notin net \/ m2 \notin net
    BY <1>1, <1>2, <1>3, <2>2
  <2> QED
    BY <2>1, <2>2
<1>6. FewVotes'
  <2> SUFFICES ASSUME NEW s \in Correct, NEW d \in Digest, d \notin TakenDigests'
               PROVE  cst'[s].states[d].count
                        + Cardinality(Unanswered(net', s, cst'[s].currSeq)) <= Cardinality(Faulty)
    BY DEF FewVotes
  <2>1. CASE s # r
    <3>1. Cardinality(Unanswered(net', s, cst[s].currSeq))
            <= Cardinality(Unanswered(net, s, cst[s].currSeq))
      BY <1>1, <2>1, UnansweredShrinks
    <3>2. cst[s].states[d].count + Cardinality(Unanswered(net, s, cst[s].currSeq))
            <= Cardinality(Faulty)
      BY DEF Talk, FewVotes, TakenDigests
    <3> QED
      BY <2>1, <3>1, <3>2, CountsNat, UnansweredBounded, FaultyFinite
  <2>2. CASE s = r
    <3>1. cst'[r].states[d].count = 0
      BY DEF NoneReceived, Absent
    <3> QED
      BY <2>2, <3>1, UnansweredBounded, FaultyFinite
  <2> QED
    BY <2>1, <2>2
<1> QED
  BY <1>4, <1>5, <1>6 DEF Talk

\* A state with a digest that no correct replica has comes from a faulty one,
\* which has then answered.
LEMMA VoteBounded ==
  ASSUME TypeInv, SendsTaken, Talk, NEW r \in Correct, NEW m \in net,
         m.kind = "ReplyState", m.to = r, m.cst = cst[r].currSeq,
         NEW d \in Digest, d \notin TakenDigests
  PROVE  CountedState(cst[r], m.checkpoint).states[d].count
           + Cardinality(Unanswered(net \ {m}, r, cst[r].currSeq)) <= Cardinality(Faulty)
<1> DEFINE k == cst[r].currSeq
           e == m.checkpoint.digest
<1>1. m.checkpoint \in Checkpoints /\ e \in Digest /\ m.from \in Node
  BY DEF TypeInv, Requests, Replies, RequestKinds, Checkpoints
<1>2. cst[r] \in CstType /\ cst[r].states \in Received
  BY DEF TypeInv, CstType
<1>3. CountedState(cst[r], m.checkpoint).states[d].count =
        IF e = d THEN cst[r].states[d].count + 1 ELSE cst[r].states[d].count
  BY <1>1, <1>2 DEF CountedState, CstType, Received
<1>4. cst[r].states[d].count + Cardinality(Unanswered(net, r, k)) <= Cardinality(Faulty)
  BY DEF Talk, FewVotes
<1>5. Cardinality(Unanswered(net \ {m}, r, k)) <= Cardinality(Unanswered(net, r, k))
  BY UnansweredShrinks
<1>6. CASE e # d
  BY <1>3, <1>4, <1>5, <1>6, CountsNat, UnansweredBounded, FaultyFinite
<1>7. CASE e = d
  <2>1. CountedState(cst[r], m.checkpoint).states[d].count = cst[r].states[d].count + 1
    BY <1>3, <1>7
  <2>2. m.from \in Faulty
    BY <1>1, <1>7 DEF SendsTaken, TakenDigests, Correct
  <2>3. Unanswered(net \ {m}, r, k) \subseteq Unanswered(net, r, k) \ {m.from}
    <3> SUFFICES ASSUME NEW n \in Faulty, NEW p \in net \ {m}, IsTalk(p, r, n), p.cst = k
                 PROVE  n \in Unanswered(net, r, k) /\ n # m.from
      BY DEF Unanswered
    <3>1. IsTalk(m, r, m.from)
      BY DEF IsTalk
    <3> QED
      BY <2>2, <3>1 DEF Talk, Once, Unanswered
  <2>4. m.from \in Unanswered(net, r, k)
    BY <2>2 DEF Unanswered, IsTalk
  <2>5. IsFiniteSet(Unanswered(net, r, k))
    BY FaultyFinite, FS_Subset DEF Unanswered
  <2>6. /\ IsFiniteSet(Unanswered(net, r, k) \ {m.from})
        /\ Cardinality(Unanswered(net, r, k) \ {m.from}) = Cardinality(Unanswered(net, r, k)) - 1
    BY <2>4, <2>5, FS_RemoveElement
  <2>7. Cardinality(Unanswered(net \ {m}, r, k)) <= Cardinality(Unanswered(net, r, k) \ {m.from})
    BY ZenonT(60), <2>3, <2>6, FS_Subset
  <2> QED
    BY <1>4, <2>1, <2>6, <2>7, CountsNat, UnansweredBounded, FaultyFinite
<1> QED
  BY <1>6, <1>7

\* The faulty replica n answers a request for its state.
LEMMA TalkAnswer ==
  ASSUME TypeInv, TypeInv', Talk, UNCHANGED <<cst, taken>>, NEW n \in Faulty,
         NEW m \in net, m.kind = "RequestState", m.to = n,
         NEW p \in Replies, p.kind = "ReplyState", p.from = n, p.to = m.from, p.cst = m.cst,
         net' = (net \ {m}) \cup {p}
  PROVE  Talk'
<1>1. \A s \in Correct, o \in Faulty :
        IsTalk(p, s, o) => o = n /\ s = m.from /\ IsTalk(m, s, o) /\ m.cst = p.cst
  BY FaultyFinite DEF IsTalk
<1>2. Fresh'
  BY <1>1 DEF Talk, Fresh
<1>3. Once'
  BY <1>1 DEF Talk, Once
<1>4. FewVotes'
  <2> SUFFICES ASSUME NEW s \in Correct, NEW d \in Digest, d \notin TakenDigests
               PROVE  cst[s].states[d].count
                        + Cardinality(Unanswered(net', s, cst[s].currSeq)) <= Cardinality(Faulty)
    BY ZenonT(60) DEF FewVotes, TakenDigests
  <2>1. cst[s].states[d].count + Cardinality(Unanswered(net, s, cst[s].currSeq))
          <= Cardinality(Faulty)
    BY DEF Talk, FewVotes
  <2>2. Unanswered(net', s, cst[s].currSeq) \subseteq Unanswered(net, s, cst[s].currSeq)
    BY <1>1 DEF Unanswered
  <2>3. IsFiniteSet(Unanswered(net, s, cst[s].currSeq))
    BY FaultyFinite, FS_Subset DEF Unanswered
  <2>4. Cardinality(Unanswered(net', s, cst[s].currSeq))
          <= Cardinality(Unanswered(net, s, cst[s].currSeq))
    BY ZenonT(60), <2>2, <2>3, FS_Subset
  <2> QED
    BY <2>1, <2>4, CountsNat, UnansweredBounded, FaultyFinite
<1> QED
  BY <1>2, <1>3, <1>4 DEF Talk

-----------------------------------------------------------------------------
(***************************************************************************)
(* What the operations on a CollabStateTransfer return.                    *)
(***************************************************************************)
Receiving == {"ReceivingCid", "ReceivingState"}

LEMMA AskTypes ==
  ASSUME NEW c \in CstType
  PROVE  /\ AskForSeq(c) \in CstType /\ AskForSeq(c).phase = "ReceivingCid"
         /\ AskForSeq(c).currSeq = c.currSeq + 1 /\ AskForSeq(c).states = c.states
         /\ AskForSeq(c).complete = c.complete
         /\ AskForState(c) \in CstType /\ AskForState(c).phase = "ReceivingState"
         /\ AskForState(c).currSeq = c.currSeq + 1 /\ AskForState(c).states = NoneReceived
         /\ AskForState(c).complete = c.complete
<1>1. NoneReceived \in Received
  BY FaultyFinite DEF NoneReceived, Absent, Received
<1>2. c.currSeq + 1 \in Nat
  BY DEF CstType
<1>3. /\ AskForSeq(c) \in CstType /\ AskForSeq(c).phase = "ReceivingCid"
      /\ AskForSeq(c).currSeq = c.currSeq + 1 /\ AskForSeq(c).states = c.states
      /\ AskForSeq(c).complete = c.complete
  BY ZenonT(60), <1>1, <1>2 DEF AskForSeq, CstType, Phases
<1>4. /\ AskForState(c) \in CstType /\ AskForState(c).phase = "ReceivingState"
      /\ AskForState(c).currSeq = c.currSeq + 1 /\ AskForState(c).states = NoneReceived
      /\ AskForState(c).complete = c.complete
  BY ZenonT(60), <1>1, <1>2 DEF AskForState, CstType, Phases
<1> QED
  BY <1>3, <1>4

LEMMA KeepType ==
  ASSUME NEW c \in CstType, NEW q \in [from : Node, cst : Nat]
  PROVE  /\ Keep(c, {q}) \in CstType /\ Keep(c, {q}).phase = "WaitingCheckpoint"
         /\ Keep(c, {q}).currSeq = c.currSeq /\ Keep(c, {q}).states = c.states
         /\ Keep(c, {q}).complete = c.complete
BY ZenonT(60) DEF Keep, CstType, Phases

LEMMA PendingType ==
  ASSUME NEW c \in CstType, c.phase = "WaitingCheckpoint"
  PROVE  /\ PendingDone(c) \in CstType /\ PendingDone(c).phase \notin Receiving
         /\ PendingDone(c).currSeq = c.currSeq /\ PendingDone(c).states = c.states
         /\ PendingDone(c).complete = c.complete
BY ZenonT(60) DEF PendingDone, Latest, CstType, Phases, Receiving

LEMMA CountedReplyType ==
  ASSUME NEW c \in CstType, NEW m, m.checkpoint \in Checkpoints \cup {NoCheckpoint}
  PROVE  /\ CountedReply(c, m) \in CstType /\ CountedReply(c, m).phase = c.phase
         /\ CountedReply(c, m).currSeq = c.currSeq /\ CountedReply(c, m).states = c.states
         /\ CountedReply(c, m).complete = c.complete
<1> DEFINE e     == m.checkpoint.digest
           known == c.ids[e]
           entry == CASE known = Absent \/ m.checkpoint.seq > known.seq ->
                           [seq |-> m.checkpoint.seq, count |-> 1]
                      [] known # Absent /\ m.checkpoint.seq = known.seq ->
                           [known EXCEPT !.count = @ + 1]
                      [] known # Absent /\ m.checkpoint.seq < known.seq -> known
<1>1. CASE m.checkpoint = NoCheckpoint
  BY <1>1 DEF CountedReply, CstType
<1>2. CASE m.checkpoint # NoCheckpoint
  <2>1. e \in Digest /\ m.checkpoint.seq \in 0..MaxSeq
    BY <1>2, FaultyFinite DEF Checkpoints
  <2>2. known \in [seq : 0..MaxSeq, count : Nat]
    BY <2>1 DEF CstType, Received
  <2>3. entry \in [seq : 0..MaxSeq, count : Nat]
    <3> HIDE DEF known, e
    <3>1. PICK q \in 0..MaxSeq : q = m.checkpoint.seq
      BY ZenonT(60), <2>1
    <3> QED
      BY <2>2, <3>1, FaultyFinite DEF Absent
  <2>4. CountedId(c, m.checkpoint) = [c EXCEPT !.ids[e] = entry]
    BY DEF CountedId
  <2> HIDE DEF entry, e
  <2>5. [c.ids EXCEPT ![e] = entry] \in Received
    BY <2>1, <2>3 DEF CstType, Received
  <2> DEFINE x == [c EXCEPT !.ids = [c.ids EXCEPT ![e] = entry]]
  <2>6. CountedId(c, m.checkpoint) = x
    BY <2>4 DEF CstType
  <2>7. /\ x \in CstType /\ x.phase = c.phase /\ x.currSeq = c.currSeq
        /\ x.states = c.states /\ x.complete = c.complete
    BY <2>5 DEF CstType
  <2>8. CountedReply(c, m) = [x EXCEPT !.count = @ + 1]
    BY <1>2, <2>6 DEF CountedReply
  <2> HIDE DEF x
  <2> QED
    BY <2>7, <2>8 DEF CstType
<1> QED
  BY <1>1, <1>2

LEMMA CountedStateType ==
  ASSUME NEW c \in CstType, NEW checkpoint \in Checkpoints
  PROVE  /\ CountedState(c, checkpoint) \in CstType /\ CountedState(c, checkpoint).phase = c.phase
         /\ CountedState(c, checkpoint).currSeq = c.currSeq
         /\ CountedState(c, checkpoint).count = c.count
         /\ CountedState(c, checkpoint).complete = c.complete
<1> DEFINE e     == checkpoint.digest
           entry == [seq   |-> IF checkpoint.seq > c.states[e].seq THEN checkpoint.seq
                                                                   ELSE c.states[e].seq,
                     count |-> c.states[e].count + 1]
<1>1. e \in Digest /\ checkpoint.seq \in 0..MaxSeq
  BY FaultyFinite DEF Checkpoints
<1>2. c.states[e] \in [seq : 0..MaxSeq, count : Nat]
  BY <1>1 DEF CstType, Received
<1>3. entry \in [seq : 0..MaxSeq, count : Nat]
  BY <1>1, <1>2
<1>4. CountedState(c, checkpoint) = [c EXCEPT !.states[e] = entry]
  BY DEF CountedState
<1> HIDE DEF entry, e
<1>5. [c.states EXCEPT ![e] = entry] \in Received
  BY <1>1, <1>3 DEF CstType, Received
<1>6. CountedState(c, checkpoint) = [c EXCEPT !.states = [c.states EXCEPT ![e] = entry]]
  BY <1>4 DEF CstType
<1> QED
  BY <1>5, <1>6 DEF CstType

LEMMA BroadcastType ==
  ASSUME NEW r \in Node, NEW k \in Nat, NEW kind \in RequestKinds
  PROVE  Broadcast(kind, r, k) \subseteq Requests
BY DEF Broadcast, Request, Requests

LEMMA StateAnswersSent ==
  ASSUME NEW r \in Node, NEW c \in CstType, Has(c),
         NEW requests \in SUBSET [from : Node, cst : Nat]
  PROVE  /\ StateAnswers(r, c, requests) \subseteq Replies
         /\ \A p \in StateAnswers(r, c, requests) :
              p.kind = "ReplyState" /\ p.from = r /\ p.checkpoint = c.complete
<1>1. c.complete \in Checkpoints
  BY DEF Has, CstType
<1> QED
  BY <1>1 DEF StateAnswers, Reply, Replies

LEMMA PendingAnswersSent ==
  ASSUME NEW r \in Node, NEW c \in CstType
  PROVE  /\ PendingAnswers(r, c) \subseteq Replies
         /\ \A p \in PendingAnswers(r, c) :
              p.kind = "ReplyState" /\ p.from = r /\ Has(c) /\ p.checkpoint = c.complete
<1>1. Latest(c.waiting) \in SUBSET [from : Node, cst : Nat]
  BY DEF Latest, CstType
<1> QED
  BY <1>1, StateAnswersSent DEF PendingAnswers

-----------------------------------------------------------------------------
(***************************************************************************)
(* A step of replica r leaves it with c and sends what it may.             *)
(***************************************************************************)
LEMMA UpdateKeeps ==
  ASSUME TypeInv, IdleOffContext, SendsTaken,
         NEW r \in Correct, NEW c \in CstType, NEW isRunning \in BOOLEAN, NEW sends, NEW gone,
         Update(r, c, isRunning, sends, gone), sends \subseteq Requests \cup Replies,
         isRunning <=> c.phase \in Receiving,
         taken \subseteq taken', taken' \subseteq Checkpoints, Has(c) => c.complete \in taken',
         \A m \in sends : m.kind = "ReplyState" => m.from = r /\ m.checkpoint \in taken',
         executed' \in [Correct -> 0..MaxSeq], installed' \in [Correct -> SUBSET States]
  PROVE  /\ TypeInv' /\ IdleOffContext' /\ SendsTaken'
         /\ cst'[r] = c /\ \A s \in Correct \ {r} : cst'[s] = cst[s]
         /\ net' \subseteq (net \ gone) \cup sends
<1>1. /\ cst' = [cst EXCEPT ![r] = c] /\ running' = [running EXCEPT ![r] = isRunning]
      /\ bound' = bound /\ net' \subseteq (net \ gone) \cup sends
  BY DEF Update
<1>2. TypeInv'
  BY <1>1 DEF TypeInv
<1>3. IdleOffContext'
  BY <1>1 DEF IdleOffContext, TypeInv, Receiving
<1>4. SendsTaken'
  BY <1>1 DEF SendsTaken, TypeInv
<1> QED
  BY <1>1, <1>2, <1>3, <1>4 DEF TypeInv

\* The same, when r neither asks for states nor counts one.
\* The same when nothing is sent or taken.
LEMMA UpdateSilent ==
  ASSUME TypeInv, IdleOffContext, SendsTaken,
         NEW r \in Correct, NEW c \in CstType, NEW isRunning \in BOOLEAN, NEW gone,
         Update(r, c, isRunning, {}, gone), isRunning <=> c.phase \in Receiving,
         taken' = taken, taken \subseteq Checkpoints, Has(c) => c.complete \in taken,
         executed' \in [Correct -> 0..MaxSeq], installed' \in [Correct -> SUBSET States]
  PROVE  /\ TypeInv' /\ IdleOffContext' /\ SendsTaken'
         /\ cst'[r] = c /\ \A s \in Correct \ {r} : cst'[s] = cst[s]
         /\ net' \subseteq (net \ gone) \cup {}
<1>1. /\ {} \subseteq Requests \cup Replies /\ taken \subseteq taken' /\ taken' \subseteq Checkpoints
      /\ Has(c) => c.complete \in taken'
      /\ \A m \in {} : m.kind = "ReplyState" => m.from = r /\ m.checkpoint \in taken'
  OBVIOUS
<1> QED
  BY <1>1, UpdateKeeps

LEMMA UpdateQuiet ==
  ASSUME TransferInv,
         NEW r \in Correct, NEW c \in CstType, NEW isRunning \in BOOLEAN, NEW sends, NEW gone,
         Update(r, c, isRunning, sends, gone), sends \subseteq Requests \cup Replies,
         isRunning <=> c.phase \in Receiving,
         taken \subseteq taken', taken' \subseteq Checkpoints, Has(c) => c.complete \in taken',
         \A m \in sends : /\ m.kind = "ReplyState" => m.from = r /\ m.checkpoint \in taken'
                         /\ m.kind # "RequestState",
         c.currSeq = cst[r].currSeq, c.states = cst[r].states,
         UNCHANGED <<executed, installed>>
  PROVE  TransferInv'
<1>1. /\ TypeInv' /\ IdleOffContext' /\ SendsTaken'
      /\ cst'[r] = c /\ \A s \in Correct \ {r} : cst'[s] = cst[s]
      /\ net' \subseteq (net \ gone) \cup sends
  <2>1. executed' \in [Correct -> 0..MaxSeq] /\ installed' \in [Correct -> SUBSET States]
    BY DEF TransferInv, TypeInv
  <2> QED
    BY <2>1, UpdateKeeps DEF TransferInv
<1>2. \A s \in Correct : cst'[s].currSeq = cst[s].currSeq /\ cst'[s].states = cst[s].states
  BY <1>1
<1>3. \A s \in Correct, d \in Digest : cst'[s].states[d].count <= cst[s].states[d].count
  BY <1>2, CountsNat DEF TransferInv
<1>4. \A s \in Correct, n \in Faulty, m \in net' : IsTalk(m, s, n) => m \in net
  BY <1>1, FaultyFinite DEF IsTalk
<1>5. Talk'
  BY <1>1, <1>2, <1>3, <1>4, TalkSame DEF TransferInv, Talk
<1>6. InstalledIsCorrect'
  BY DEF TransferInv, InstalledIsCorrect
<1> QED
  BY <1>1, <1>5, <1>6 DEF TransferInv, Talk

\* The hypotheses of UpdateQuiet about a step.
IsQuiet(r, c, isRunning, sends, gone) ==
  /\ c \in CstType /\ isRunning \in BOOLEAN
  /\ Update(r, c, isRunning, sends, gone) /\ sends \subseteq Requests \cup Replies
  /\ isRunning <=> c.phase \in Receiving
  /\ taken \subseteq taken' /\ taken' \subseteq Checkpoints /\ (Has(c) => c.complete \in taken')
  /\ \A m \in sends : /\ m.kind = "ReplyState" => m.from = r /\ m.checkpoint \in taken'
                      /\ m.kind # "RequestState"
  /\ c.currSeq = cst[r].currSeq /\ c.states = cst[r].states
  /\ executed' = executed /\ installed' = installed

LEMMA QuietInv ==
  ASSUME TransferInv, NEW r \in Correct, NEW c, NEW isRunning, NEW sends, NEW gone,
         IsQuiet(r, c, isRunning, sends, gone)
  PROVE  TransferInv'
BY UpdateQuiet DEF IsQuiet

LEMMA InvFacts ==
  ASSUME TransferInv, NEW r \in Correct
  PROVE  /\ r \in Node /\ cst[r] \in CstType /\ running[r] \in BOOLEAN
         /\ running[r] <=> cst[r].phase \in Receiving
         /\ Has(cst[r]) => cst[r].complete \in taken
         /\ taken \subseteq Checkpoints /\ cst[r].currSeq \in Nat /\ cst[r].phase \in Phases
BY DEF TransferInv, TypeInv, IdleOffContext, Receiving, SendsTaken, Correct, CstType

-----------------------------------------------------------------------------
(***************************************************************************)
(* The actions.                                                            *)
(***************************************************************************)
LEMMA RequestLatestStateInv ==
  ASSUME TransferInv, NEW r \in Correct, RequestLatestState(r)
  PROVE  TransferInv'
<1> DEFINE c == AskForSeq(cst[r])
           sends == Broadcast("RequestStateCid", r, c.currSeq)
<1>1. Update(r, c, TRUE, sends, {}) /\ UNCHANGED <<executed, taken, installed>>
  BY ZenonT(60) DEF RequestLatestState
<1>2. /\ c \in CstType /\ c.phase = "ReceivingCid" /\ c.currSeq = cst[r].currSeq + 1
      /\ c.states = cst[r].states /\ c.complete = cst[r].complete
  BY InvFacts, AskTypes
<1>3. Has(c) => c.complete \in taken
  BY <1>2, InvFacts DEF Has
<1>4. sends \subseteq Requests /\ \A m \in sends : m.kind = "RequestStateCid"
  <2>1. c.currSeq \in Nat
    BY <1>2, InvFacts
  <2> QED
    BY <2>1, InvFacts, BroadcastType DEF RequestKinds, Broadcast, Request
<1> HIDE DEF c, sends
<1>5. /\ TypeInv' /\ IdleOffContext' /\ SendsTaken'
      /\ cst'[r] = c /\ \A s \in Correct \ {r} : cst'[s] = cst[s]
      /\ net' \subseteq (net \ {}) \cup sends
  <2>1. executed' \in [Correct -> 0..MaxSeq] /\ installed' \in [Correct -> SUBSET States]
    BY <1>1 DEF TransferInv, TypeInv
  <2> QED
    BY ZenonT(60), <1>1, <1>2, <1>3, <1>4, <2>1, InvFacts, UpdateKeeps DEF TransferInv, Receiving
<1>6. \A s \in Correct, n \in Faulty, m \in net' : IsTalk(m, s, n) => m \in net
  BY <1>4, <1>5 DEF IsTalk
<1>7. Talk'
  BY ZenonT(60), <1>1, <1>2, <1>5, <1>6, TalkNext DEF TransferInv, Talk
<1>8. InstalledIsCorrect'
  BY <1>1 DEF TransferInv, InstalledIsCorrect
<1> QED
  BY <1>5, <1>7, <1>8 DEF TransferInv, Talk

LEMMA ReceiveRequestSeqInv ==
  ASSUME TransferInv, NEW r \in Correct, NEW m \in net, ReceiveRequestSeq(r, m)
  PROVE  TransferInv'
<1> DEFINE sends == {SeqAnswer(r, cst[r], m)}
<1>1. m.from \in Node /\ m.cst \in Nat
  BY DEF TransferInv, TypeInv, Requests, Replies
<1>2. sends \subseteq Replies /\ \A p \in sends : p.kind = "ReplyStateCid"
  BY <1>1, InvFacts DEF SeqAnswer, Reply, Replies, CstType
<1>3. /\ Update(r, cst[r], running[r], sends, {m})
      /\ UNCHANGED <<executed, taken, installed>>
  BY DEF ReceiveRequestSeq
<1> HIDE DEF sends
<1> QED
  BY <1>2, <1>3, InvFacts, UpdateQuiet

LEMMA ReceiveRequestStateInv ==
  ASSUME TransferInv, NEW r \in Correct, NEW m \in net, ReceiveRequestState(r, m)
  PROVE  TransferInv'
<1> DEFINE c == cst[r]
           q == [from |-> m.from, cst |-> m.cst]
<1>1. q \in [from : Node, cst : Nat]
  BY DEF TransferInv, TypeInv, Requests, Replies
<1>2. UNCHANGED <<executed, taken, installed>>
  BY DEF ReceiveRequestState
<1>3. CASE c.phase = "WaitingCheckpoint" \/ (c.phase = "Init" /\ ~ Has(c))
  <2> DEFINE kept == Keep(c, {q})
  <2>1. Update(r, kept, running[r], {}, {m})
    BY ZenonT(60), <1>3 DEF ReceiveRequestState
  <2>2. /\ kept \in CstType /\ kept.phase = "WaitingCheckpoint" /\ kept.currSeq = c.currSeq
        /\ kept.states = c.states /\ kept.complete = c.complete
    <3> HIDE DEF q
    <3> QED
      BY <1>1, InvFacts, KeepType
  <2> HIDE DEF kept
  <2>3. /\ running[r] <=> kept.phase \in Receiving
        /\ Has(kept) => kept.complete \in taken
    BY <1>3, <2>2, InvFacts DEF Has, Receiving
  <2> QED
    BY <1>2, <2>1, <2>2, <2>3, InvFacts, UpdateQuiet
<1>4. CASE c.phase = "Init" /\ Has(c)
  <2> DEFINE sends == StateAnswers(r, c, {q})
  <2>1. Update(r, c, running[r], sends, {m})
    BY <1>4 DEF ReceiveRequestState
  <2>2. {q} \in SUBSET [from : Node, cst : Nat]
    BY <1>1
  <2>3. /\ sends \subseteq Replies
        /\ \A p \in sends : p.kind = "ReplyState" /\ p.from = r /\ p.checkpoint = c.complete
    <3> HIDE DEF q
    <3> QED
      BY <1>4, <2>2, InvFacts, StateAnswersSent
  <2> HIDE DEF sends
  <2> QED
    BY <1>2, <1>4, <2>1, <2>3, InvFacts, UpdateQuiet
<1>5. CASE c.phase \in Receiving
  <2>1. Update(r, c, running[r], {}, {m})
    BY ZenonT(60), <1>5 DEF ReceiveRequestState, Receiving
  <2> QED
    BY <1>2, <2>1, InvFacts, UpdateQuiet
<1> QED
  BY <1>3, <1>4, <1>5, InvFacts DEF Phases, Receiving

LEMMA ReceiveIdleInv ==
  ASSUME TransferInv, NEW r \in Correct, NEW m \in net, ReceiveIdle(r, m)
  PROVE  TransferInv'
<1> DEFINE c == cst[r]
<1>1. UNCHANGED <<executed, taken, installed>>
  BY DEF ReceiveIdle
<1>2. CASE c.phase = "Init"
  <2>1. Update(r, c, running[r], {}, {m})
    BY <1>2 DEF ReceiveIdle
  <2> QED
    BY <1>1, <2>1, InvFacts, UpdateQuiet
<1>3. CASE c.phase = "WaitingCheckpoint"
  <2>1. Update(r, PendingDone(c), running[r], PendingAnswers(r, c), {m})
    BY <1>3 DEF ReceiveIdle
  <2>2. /\ running[r] <=> PendingDone(c).phase \in Receiving
        /\ Has(PendingDone(c)) => PendingDone(c).complete \in taken
    BY <1>3, InvFacts, PendingType DEF Receiving, Has
  <2>3. /\ PendingAnswers(r, c) \subseteq Replies
        /\ \A p \in PendingAnswers(r, c) :
             p.kind = "ReplyState" /\ p.from = r /\ p.checkpoint \in taken
    BY InvFacts, PendingAnswersSent
  <2>4. /\ PendingDone(c) \in CstType /\ PendingDone(c).currSeq = c.currSeq
        /\ PendingDone(c).states = c.states
    BY <1>3, InvFacts, PendingType
  <2>5. /\ PendingAnswers(r, c) \subseteq Requests \cup Replies
        /\ \A p \in PendingAnswers(r, c) :
             /\ p.kind = "ReplyState" => p.from = r /\ p.checkpoint \in taken
             /\ p.kind # "RequestState"
    BY <2>3
  <2> QED
    BY <1>1, <2>1, <2>2, <2>4, <2>5, InvFacts, UpdateQuiet
<1> QED
  BY <1>2, <1>3 DEF ReceiveIdle

LEMMA ReceiveOtherInv ==
  ASSUME TransferInv, NEW r \in Correct, NEW m \in net, ReceiveOther(r, m)
  PROVE  TransferInv'
<1>1. Update(r, cst[r], running[r], {}, {m}) /\ UNCHANGED <<executed, taken, installed>>
  BY DEF ReceiveOther
<1> QED
  BY <1>1, InvFacts, UpdateQuiet

\* The state is asked for, for the first time or once more.
LEMMA AskInv ==
  ASSUME TransferInv, NEW r \in Correct, NEW c \in CstType, NEW gone,
         c.currSeq = cst[r].currSeq, c.complete = cst[r].complete,
         Update(r, AskForState(c), TRUE, Broadcast("RequestState", r, c.currSeq + 1), gone),
         UNCHANGED <<executed, taken, installed>>
  PROVE  TransferInv'
<1> DEFINE asking == AskForState(c)
           sends == Broadcast("RequestState", r, c.currSeq + 1)
<1>1. /\ asking \in CstType /\ asking.phase = "ReceivingState"
      /\ asking.currSeq = cst[r].currSeq + 1 /\ asking.states = NoneReceived
      /\ asking.complete = cst[r].complete
  BY AskTypes
<1>2. Has(asking) => asking.complete \in taken
  BY <1>1, InvFacts DEF Has
<1>3. c.currSeq + 1 \in Nat
  BY InvFacts
<1>4. /\ sends \subseteq Requests
      /\ \A m \in sends : m.kind = "RequestState"
                          /\ \E n \in Node : m = Request("RequestState", r, n, cst[r].currSeq + 1)
  BY <1>3, InvFacts, BroadcastType DEF RequestKinds, Broadcast, Request
<1> HIDE DEF asking, sends
<1>5. Update(r, asking, TRUE, sends, gone)
  BY ZenonT(60) DEF asking, sends
<1>6. /\ TypeInv' /\ IdleOffContext' /\ SendsTaken'
      /\ cst'[r] = asking /\ \A s \in Correct \ {r} : cst'[s] = cst[s]
      /\ net' \subseteq (net \ gone) \cup sends
  <2>1. executed' \in [Correct -> 0..MaxSeq] /\ installed' \in [Correct -> SUBSET States]
    BY DEF TransferInv, TypeInv
  <2> QED
    BY ZenonT(60), <1>1, <1>2, <1>4, <1>5, <2>1, InvFacts, UpdateKeeps DEF TransferInv, Receiving
<1>7. \A s \in Correct, n \in Faulty, m \in net' :
        IsTalk(m, s, n) =>
          m \in net \/ (s = r /\ m = Request("RequestState", r, n, cst'[r].currSeq))
  BY <1>1, <1>4, <1>6 DEF IsTalk, Request
<1>8. Talk'
  BY ZenonT(60), <1>1, <1>6, <1>7, TalkAsk DEF TransferInv, Talk
<1>9. InstalledIsCorrect'
  BY DEF TransferInv, InstalledIsCorrect
<1> QED
  BY <1>6, <1>8, <1>9 DEF TransferInv, Talk

\* The replica has nothing to transfer.
LEMMA StopInv ==
  ASSUME TransferInv, NEW r \in Correct, NEW c \in CstType, NEW gone,
         c.currSeq = cst[r].currSeq, c.states = cst[r].states, c.complete = cst[r].complete,
         c.phase = "Init", Update(r, c, FALSE, {}, gone), UNCHANGED <<executed, taken, installed>>
  PROVE  TransferInv'
<1>1. c.phase \notin Receiving /\ (Has(c) => c.complete \in taken)
  BY InvFacts DEF Receiving, Has
<1>2. PICK now \in BOOLEAN : Update(r, c, now, {}, gone) /\ (now <=> c.phase \in Receiving)
  BY ZenonT(60), <1>1
<1> QED
  BY <1>1, <1>2, InvFacts, UpdateQuiet

LEMMA SeqNoFoundInv ==
  ASSUME TransferInv, NEW r \in Correct, NEW c \in CstType, NEW seq, NEW m,
         c.currSeq = cst[r].currSeq, c.complete = cst[r].complete, c.states = cst[r].states,
         SeqNoFound(r, c, seq, m), UNCHANGED <<executed, taken, installed>>
  PROVE  TransferInv'
<1>1. CASE c.complete.seq < seq
  BY ZenonT(60), <1>1, AskInv DEF SeqNoFound
<1>2. CASE ~ (c.complete.seq < seq)
  <2> DEFINE done == [c EXCEPT !.phase = "Init", !.count = 0]
  <2>1. Update(r, done, FALSE, {}, {m})
    BY ZenonT(60), <1>2 DEF SeqNoFound
  <2>2. /\ done \in CstType /\ done.phase = "Init" /\ done.currSeq = cst[r].currSeq
        /\ done.states = cst[r].states /\ done.complete = cst[r].complete
    BY ZenonT(60) DEF CstType, Phases
  <2> HIDE DEF done
  <2> QED
    BY ZenonT(60), <2>1, <2>2, StopInv
<1> QED
  BY <1>1, <1>2

LEMMA ReceiveStateCidInv ==
  ASSUME TransferInv, NEW r \in Correct, NEW m \in net, ReceiveStateCid(r, m)
  PROVE  TransferInv'
<1> DEFINE c == CountedReply(cst[r], m)
<1>1. m.checkpoint \in Checkpoints \cup {NoCheckpoint}
  BY DEF TransferInv, TypeInv, ReceiveStateCid, Requests, Replies, RequestKinds
<1>2. /\ c \in CstType /\ c.phase = "ReceivingCid" /\ c.currSeq = cst[r].currSeq
      /\ c.states = cst[r].states /\ c.complete = cst[r].complete
  BY <1>1, InvFacts, CountedReplyType DEF ReceiveStateCid
<1>3. UNCHANGED <<executed, taken, installed>>
  BY DEF ReceiveStateCid
<1>4. \/ Update(r, c, TRUE, {}, {m})
      \/ \E seq : SeqNoFound(r, c, seq, m)
  <2>0. c.count \in Nat /\ QuorumSize \in Nat
    <3> HIDE DEF c
    <3> QED
      BY <1>2, FaultyFinite DEF CstType, QuorumSize
  <2>1. CASE c.count < QuorumSize
    BY ZenonT(60), <2>1 DEF ReceiveStateCid
  <2>2. CASE ~ (c.count < QuorumSize) /\ Leading(c.ids) = {}
    <3>1. c.count >= QuorumSize
      BY ZenonT(60), <2>0, <2>2, NotLess
    <3> QED
      BY ZenonT(60), <2>2, <3>1 DEF ReceiveStateCid
  <2>3. CASE ~ (c.count < QuorumSize) /\ Leading(c.ids) # {}
    <3>1. c.count >= QuorumSize
      BY ZenonT(60), <2>0, <2>3, NotLess
    <3> QED
      BY ZenonT(60), <2>3, <3>1 DEF ReceiveStateCid
  <2> QED
    BY ZenonT(60), <2>1, <2>2, <2>3
<1> HIDE DEF c
<1>5. CASE Update(r, c, TRUE, {}, {m})
  <2>1. c.phase \in Receiving /\ (Has(c) => c.complete \in taken)
    BY ZenonT(60), <1>2, InvFacts DEF Receiving, Has
  <2>2. PICK now \in BOOLEAN : /\ Update(r, c, now, {}, {m})
                                   /\ now <=> c.phase \in Receiving
    BY ZenonT(60), <1>5, <2>1
  <2>3. /\ {} \subseteq Requests \cup Replies /\ taken \subseteq taken' /\ taken' \subseteq Checkpoints
        /\ \A p \in {} : /\ p.kind = "ReplyState" => p.from = r /\ p.checkpoint \in taken'
                       /\ p.kind # "RequestState"
    BY <1>3, InvFacts
  <2>4. IsQuiet(r, c, now, {}, {m})
    BY ZenonT(60), <1>2, <1>3, <2>1, <2>2, <2>3 DEF IsQuiet
  <2> QED
    BY ZenonT(60), <2>4, QuietInv
<1>6. CASE \E seq : SeqNoFound(r, c, seq, m)
  BY ZenonT(60), <1>2, <1>3, <1>6, SeqNoFoundInv
<1> QED
  BY ZenonT(60), <1>4, <1>5, <1>6

LEMMA ReceiveStateInv ==
  ASSUME TransferInv, NEW r \in Correct, NEW m \in net, ReceiveState(r, m)
  PROVE  TransferInv'
<1> DEFINE x == CountedState(cst[r], m.checkpoint)
           c == [x EXCEPT !.count = @ + 1]
<1>1. m.checkpoint \in Checkpoints /\ m.kind = "ReplyState" /\ m.to = r /\ m.cst = cst[r].currSeq
  BY ZenonT(60) DEF TransferInv, TypeInv, ReceiveState, IsReply, IsCurrent, Requests, Replies, RequestKinds
<1>2. /\ c \in CstType /\ c.phase = "ReceivingState" /\ c.currSeq = cst[r].currSeq
      /\ c.complete = cst[r].complete /\ c.states = x.states
  <2>1. /\ x \in CstType /\ x.phase = "ReceivingState" /\ x.currSeq = cst[r].currSeq
        /\ x.complete = cst[r].complete
    BY ZenonT(60), <1>1, InvFacts, CountedStateType DEF ReceiveState
  <2> HIDE DEF x
  <2> QED
    BY <2>1 DEF CstType
<1>3. \A d \in Digest :
        d \notin TakenDigests =>
          c.states[d].count + Cardinality(Unanswered(net \ {m}, r, cst[r].currSeq))
            <= Cardinality(Faulty)
  BY ZenonT(60), <1>1, <1>2, VoteBounded DEF TransferInv, Talk
<1>4. Has(c) => c.complete \in taken
  BY <1>2, InvFacts DEF Has
<1>5. \/ Update(r, c, TRUE, {}, {m}) /\ UNCHANGED <<executed, taken, installed>>
      \/ \E d \in Leading(c.states) :
           /\ EnoughStates(c.states[d].count)
           /\ Update(r, [c EXCEPT !.phase = "Init", !.count = 0, !.states = NoneReceived],
                     FALSE, {}, {m})
           /\ installed' = [installed EXCEPT ![r] =
                @ \cup {[seq |-> c.states[d].seq, digest |-> d]}]
           /\ executed' = [executed EXCEPT ![r] = c.states[d].seq]
           /\ UNCHANGED taken
      \/ /\ Update(r, AskForState(c), TRUE, Broadcast("RequestState", r, c.currSeq + 1), {m})
         /\ UNCHANGED <<executed, taken, installed>>
  BY ZenonT(60) DEF ReceiveState
<1> HIDE DEF c, x
<1>6. CASE Update(r, c, TRUE, {}, {m}) /\ UNCHANGED <<executed, taken, installed>>
  <2>1. /\ TypeInv' /\ IdleOffContext' /\ SendsTaken'
        /\ cst'[r] = c /\ \A s \in Correct \ {r} : cst'[s] = cst[s]
        /\ net' \subseteq (net \ {m}) \cup {}
    <3>1. executed' \in [Correct -> 0..MaxSeq] /\ installed' \in [Correct -> SUBSET States]
      BY <1>6 DEF TransferInv, TypeInv
    <3>2. c.phase \in Receiving
      BY <1>2 DEF Receiving
    <3>3. PICK now \in BOOLEAN : Update(r, c, now, {}, {m}) /\ (now <=> c.phase \in Receiving)
      BY ZenonT(60), <1>6, <3>2
    <3>4. /\ TypeInv /\ IdleOffContext /\ SendsTaken /\ taken' = taken /\ taken \subseteq Checkpoints
          /\ c \in CstType /\ (Has(c) => c.complete \in taken)
      BY ZenonT(60), <1>2, <1>4, <1>6, InvFacts DEF TransferInv
    <3> QED
      BY <3>1, <3>3, <3>4, UpdateSilent
  <2>2. Fresh' /\ Once'
    BY ZenonT(60), <1>2, <2>1 DEF TransferInv, Fresh, Once
  <2>3. FewVotes'
    <3> SUFFICES ASSUME NEW s \in Correct, NEW d \in Digest, d \notin TakenDigests
                 PROVE  cst'[s].states[d].count
                          + Cardinality(Unanswered(net', s, cst'[s].currSeq)) <= Cardinality(Faulty)
      BY ZenonT(60), <1>6 DEF FewVotes, TakenDigests
    <3>1. CASE s = r
      <4>1. Cardinality(Unanswered(net', r, cst[r].currSeq))
              <= Cardinality(Unanswered(net \ {m}, r, cst[r].currSeq))
        BY ZenonT(60), <2>1, UnansweredShrinks
      <4>2. c.states[d].count \in Nat
        BY <1>2 DEF CstType, Received
      <4>3. c.states[d].count + Cardinality(Unanswered(net', r, cst[r].currSeq))
              <= Cardinality(Faulty)
        BY ZenonT(60), <1>3, <4>1, <4>2, FewerLeft, UnansweredBounded, FaultyFinite
      <4> QED
        BY ZenonT(60), <1>2, <2>1, <3>1, <4>3
    <3>2. CASE s # r
      <4>1. Cardinality(Unanswered(net', s, cst[s].currSeq))
              <= Cardinality(Unanswered(net, s, cst[s].currSeq))
        BY ZenonT(60), <2>1, UnansweredShrinks
      <4>2. cst[s].states[d].count + Cardinality(Unanswered(net, s, cst[s].currSeq))
              <= Cardinality(Faulty)
        BY DEF TransferInv, FewVotes
      <4>3. cst'[s] = cst[s] /\ cst[s].states[d].count \in Nat
        BY <2>1, <3>2, CountsNat DEF TransferInv
      <4>4. cst[s].states[d].count + Cardinality(Unanswered(net', s, cst[s].currSeq))
              <= Cardinality(Faulty)
        BY <4>1, <4>2, <4>3, FewerLeft, UnansweredBounded, FaultyFinite
      <4> QED
        BY ZenonT(60), <4>3, <4>4
    <3> QED
      BY ZenonT(60), <3>1, <3>2
  <2>4. InstalledIsCorrect'
    BY <1>6 DEF TransferInv, InstalledIsCorrect
  <2> QED
    BY <2>1, <2>2, <2>3, <2>4 DEF TransferInv
<1>7. ASSUME NEW d \in Leading(c.states), EnoughStates(c.states[d].count),
             Update(r, [c EXCEPT !.phase = "Init", !.count = 0, !.states = NoneReceived],
                    FALSE, {}, {m}),
             installed' = [installed EXCEPT ![r] =
               @ \cup {[seq |-> c.states[d].seq, digest |-> d]}],
             executed' = [executed EXCEPT ![r] = c.states[d].seq],
             UNCHANGED taken
      PROVE  TransferInv'
  <2> DEFINE done == [c EXCEPT !.phase = "Init", !.count = 0, !.states = NoneReceived]
  <2>1. d \in Digest /\ c.states[d].seq \in 0..MaxSeq /\ c.states[d].count \in Nat
    BY <1>2, <1>7 DEF Leading, CstType, Received
  <2>2. d \in TakenDigests
    BY <1>3, <1>7, <2>1, UnansweredBounded, FaultyFinite DEF EnoughStates
  <2>3. NoneReceived \in Received
    BY FaultyFinite DEF NoneReceived, Absent, Received
  <2>4. /\ done \in CstType /\ done.phase = "Init" /\ done.currSeq = cst[r].currSeq
        /\ done.complete = cst[r].complete /\ done.states = NoneReceived
    BY ZenonT(60), <1>2, <2>3 DEF CstType, Phases
  <2> HIDE DEF done
  <2>5. /\ TypeInv' /\ IdleOffContext' /\ SendsTaken'
        /\ cst'[r] = done /\ \A s \in Correct \ {r} : cst'[s] = cst[s]
        /\ net' \subseteq (net \ {m}) \cup {}
    <3>1. executed' \in [Correct -> 0..MaxSeq] /\ installed' \in [Correct -> SUBSET States]
      BY <1>7, <2>1 DEF TransferInv, TypeInv, States
    <3>2. done.phase \notin Receiving /\ (Has(done) => done.complete \in taken')
      BY <1>7, <2>4, InvFacts DEF Receiving, Has
    <3>3. PICK now \in BOOLEAN : Update(r, done, now, {}, {m}) /\ (now <=> done.phase \in Receiving)
      BY ZenonT(60), <1>7, <3>2 DEF done
    <3>4. /\ TypeInv /\ IdleOffContext /\ SendsTaken /\ taken' = taken /\ taken \subseteq Checkpoints
          /\ done \in CstType /\ (Has(done) => done.complete \in taken)
      BY ZenonT(60), <1>7, <2>4, <3>2, InvFacts DEF TransferInv
    <3> QED
      BY <3>1, <3>3, <3>4, UpdateSilent
  <2>6. Talk'
    <3>1. \A s \in Correct : cst'[s].currSeq = cst[s].currSeq
      BY ZenonT(60), <2>4, <2>5
    <3>2. \A s \in Correct, e \in Digest : cst'[s].states[e].count <= cst[s].states[e].count
      <4> TAKE s \in Correct, e \in Digest
      <4>1. cst'[s].states[e].count = 0 \/ cst'[s] = cst[s]
        <5>1. NoneReceived[e].count = 0
          BY ZenonT(60) DEF NoneReceived, Absent
        <5> QED
          BY ZenonT(60), <2>4, <2>5, <5>1
      <4>2. PICK n \in Nat : n = cst[s].states[e].count
        BY ZenonT(60), CountsNat DEF TransferInv
      <4>3. 0 <= n /\ n <= n
        OBVIOUS
      <4> QED
        BY ZenonT(60), <4>1, <4>2, <4>3
    <3>3. \A s \in Correct, n \in Faulty, p \in net' : IsTalk(p, s, n) => p \in net
      BY ZenonT(60), <2>5
    <3> QED
      BY <1>7, <2>5, <3>1, <3>2, <3>3, TalkSame DEF TransferInv, Talk
  <2>7. InstalledIsCorrect'
    BY <1>7, <2>2 DEF TransferInv, TypeInv, InstalledIsCorrect, TakenDigests
  <2> QED
    BY ZenonT(60), <2>5, <2>6, <2>7 DEF TransferInv, Talk
<1>8. CASE /\ Update(r, AskForState(c), TRUE, Broadcast("RequestState", r, c.currSeq + 1), {m})
           /\ UNCHANGED <<executed, taken, installed>>
  BY ZenonT(60), <1>2, <1>8, AskInv
<1> QED
  BY ZenonT(60), <1>5, <1>6, <1>7, <1>8

LEMMA AppStateRequestedInv ==
  ASSUME TransferInv, NEW r \in Correct, AppStateRequested(r)
  PROVE  TransferInv'
<1> DEFINE c == [cst[r] EXCEPT !.partial = IF @ = NoSeq THEN executed[r] + 1 ELSE @]
<1>1. executed[r] + 1 \in 0..MaxSeq
  <2>1. bound.checkpoints \in 0..MaxSeq /\ executed[r] \in 0..MaxSeq
    BY StateTransferAssumption DEF TransferInv, TypeInv
  <2> QED
    BY <2>1, FaultyFinite DEF AppStateRequested
<1>2. /\ c \in CstType /\ c.phase = cst[r].phase /\ c.currSeq = cst[r].currSeq
      /\ c.complete = cst[r].complete /\ c.states = cst[r].states
  BY <1>1, InvFacts DEF CstType
<1>3. cst' = [cst EXCEPT ![r] = c]
  <2>1. executed'[r] = executed[r] + 1
    BY DEF AppStateRequested, TransferInv, TypeInv
  <2> QED
    BY <2>1 DEF AppStateRequested, TransferInv, TypeInv
<1>4. UNCHANGED <<running, taken, installed, net, bound>>
  BY DEF AppStateRequested
<1> HIDE DEF c
<1>5. executed' \in [Correct -> 0..MaxSeq]
  BY <1>1 DEF AppStateRequested, TransferInv, TypeInv
<1>6. TypeInv'
  BY ZenonT(60), <1>2, <1>3, <1>4, <1>5 DEF TransferInv, TypeInv
<1>7. \A s \in Correct : /\ cst'[s].phase = cst[s].phase /\ cst'[s].currSeq = cst[s].currSeq
                          /\ cst'[s].complete = cst[s].complete /\ cst'[s].states = cst[s].states
  BY <1>2, <1>3 DEF TransferInv, TypeInv
<1>8. IdleOffContext' /\ SendsTaken'
  BY ZenonT(60), <1>4, <1>7 DEF TransferInv, IdleOffContext, SendsTaken, Has
<1>9. Talk'
  <2>1. \A s \in Correct, d \in Digest : cst'[s].states[d].count <= cst[s].states[d].count
    BY <1>7, CountsNat DEF TransferInv
  <2> QED
    BY ZenonT(60), <1>4, <1>6, <1>7, <2>1, TalkSame DEF TransferInv, Talk
<1>10. InstalledIsCorrect'
  BY <1>4 DEF TransferInv, InstalledIsCorrect
<1> QED
  BY <1>6, <1>8, <1>9, <1>10 DEF TransferInv, Talk

LEMMA StateReceivedFromAppInv ==
  ASSUME TransferInv, NEW r \in Correct, StateReceivedFromApp(r)
  PROVE  TransferInv'
<1> DEFINE checkpoint == Checkpoint(cst[r].partial)
           c == [cst[r] EXCEPT !.partial = NoSeq, !.complete = checkpoint]
<1>1. checkpoint \in Checkpoints
  <2>1. cst[r].partial \in 1..MaxSeq
    BY InvFacts, FaultyFinite DEF StateReceivedFromApp, NoSeq, CstType
  <2> QED
    BY ZenonT(60), <2>1, StateTransferAssumption DEF Checkpoint, Checkpoints
<1>2. /\ taken' = taken \cup {c.complete} /\ UNCHANGED <<executed, installed>>
      /\ IF c.phase = "WaitingCheckpoint"
           THEN Update(r, PendingDone(c), running[r], PendingAnswers(r, c), {})
           ELSE Update(r, c, running[r], {}, {})
  BY DEF StateReceivedFromApp
<1>3. /\ c \in CstType /\ c.phase = cst[r].phase /\ c.currSeq = cst[r].currSeq
      /\ c.complete = checkpoint /\ c.states = cst[r].states
  <2> HIDE DEF checkpoint
  <2>1. NoSeq \in 0..MaxSeq
    BY FaultyFinite DEF NoSeq
  <2> QED
    BY ZenonT(60), <1>1, <2>1, InvFacts DEF CstType
<1> HIDE DEF c, checkpoint
<1>4. taken \subseteq taken' /\ taken' \subseteq Checkpoints /\ c.complete \in taken'
  BY <1>1, <1>2, <1>3, InvFacts
<1>5. CASE c.phase = "WaitingCheckpoint"
  <2>1. /\ PendingDone(c) \in CstType /\ PendingDone(c).phase \notin Receiving
        /\ PendingDone(c).currSeq = c.currSeq /\ PendingDone(c).states = c.states
        /\ PendingDone(c).complete = c.complete
    BY <1>3, <1>5, PendingType
  <2>2. running[r] <=> PendingDone(c).phase \in Receiving
    BY ZenonT(60), <1>3, <1>5, <2>1, InvFacts DEF Receiving
  <2>3. /\ PendingAnswers(r, c) \subseteq Replies
        /\ \A p \in PendingAnswers(r, c) :
             p.kind = "ReplyState" /\ p.from = r /\ p.checkpoint \in taken'
    BY <1>3, <1>4, InvFacts, PendingAnswersSent
  <2>4. Update(r, PendingDone(c), running[r], PendingAnswers(r, c), {})
    BY ZenonT(60), <1>2, <1>5
  <2>5. /\ PendingAnswers(r, c) \subseteq Requests \cup Replies
        /\ \A p \in PendingAnswers(r, c) :
             /\ p.kind = "ReplyState" => p.from = r /\ p.checkpoint \in taken'
             /\ p.kind # "RequestState"
    BY <2>3
  <2>6. IsQuiet(r, PendingDone(c), running[r], PendingAnswers(r, c), {})
    BY ZenonT(60), <1>2, <1>3, <1>4, <2>1, <2>2, <2>4, <2>5, InvFacts DEF IsQuiet
  <2> QED
    BY ZenonT(60), <2>6, QuietInv
<1>6. CASE c.phase # "WaitingCheckpoint"
  <2>1. Update(r, c, running[r], {}, {})
    BY <1>2, <1>6
  <2> QED
    <3>1. /\ running[r] \in BOOLEAN /\ (running[r] <=> c.phase \in Receiving)
          /\ {} \subseteq Requests \cup Replies
          /\ \A p \in {} : /\ p.kind = "ReplyState" => p.from = r /\ p.checkpoint \in taken'
                          /\ p.kind # "RequestState"
      BY ZenonT(60), <1>3, InvFacts
    <3>2. IsQuiet(r, c, running[r], {}, {})
      BY ZenonT(60), <1>2, <1>3, <1>4, <2>1, <3>1 DEF IsQuiet
    <3> QED
      BY ZenonT(60), <3>2, QuietInv
<1> QED
  BY <1>5, <1>6

LEMMA FaultyAnswersInv ==
  ASSUME TransferInv, NEW m \in net, FaultyAnswers(m)
  PROVE  TransferInv'
<1>1. m.to \in Faulty /\ UNCHANGED <<cst, running, executed, taken, installed, bound>>
  BY ZenonT(60) DEF FaultyAnswers
<1>2. IdleOffContext' /\ InstalledIsCorrect'
  BY <1>1 DEF TransferInv, IdleOffContext, InstalledIsCorrect
<1>3. CASE net' = net \ {m}
  <2>1. TypeInv'
    BY <1>1, <1>3 DEF TransferInv, TypeInv
  <2>2. SendsTaken'
    BY <1>1, <1>3 DEF TransferInv, SendsTaken
  <2>3. \A s \in Correct, d \in Digest : cst'[s].states[d].count <= cst[s].states[d].count
    BY <1>1, CountsNat DEF TransferInv
  <2>4. Talk'
    BY <1>1, <1>3, <2>1, <2>3, TalkSame DEF TransferInv, Talk
  <2> QED
    BY <1>2, <2>1, <2>2, <2>4 DEF TransferInv, Talk
<1>4. ASSUME NEW s \in 1..bound.checkpoints, NEW d \in bound.digests,
             net' = (net \ {m}) \cup
               {Reply(IF m.kind = "RequestState" THEN "ReplyState" ELSE "ReplyStateCid",
                      m.to, m.from, m.cst, [seq |-> s, digest |-> d])}
      PROVE  TransferInv'
  <2> DEFINE kind == IF m.kind = "RequestState" THEN "ReplyState" ELSE "ReplyStateCid"
             checkpoint == [seq |-> s, digest |-> d]
             p == Reply(kind, m.to, m.from, m.cst, checkpoint)
  <2>1. checkpoint \in Checkpoints
    <3>1. bound.checkpoints \in 0..MaxSeq /\ bound.digests \subseteq Digest
      BY StateTransferAssumption DEF TransferInv, TypeInv
    <3> QED
      BY <3>1, FaultyFinite DEF Checkpoints
  <2>2. m.from \in Node /\ m.to \in Node /\ m.cst \in Nat
    BY DEF TransferInv, TypeInv, Requests, Replies
  <2> HIDE DEF checkpoint
  <2>3. /\ p \in Replies /\ p.kind = kind /\ p.from = m.to /\ p.to = m.from /\ p.cst = m.cst
    BY <2>1, <2>2 DEF Reply, Replies
  <2>4. net' = (net \ {m}) \cup {p}
    BY <1>4 DEF checkpoint
  <2> HIDE DEF p
  <2>5. TypeInv'
    BY <1>1, <2>3, <2>4 DEF TransferInv, TypeInv
  <2>6. SendsTaken'
    BY <1>1, <2>3, <2>4, FaultyFinite DEF TransferInv, SendsTaken
  <2>7. CASE m.kind = "RequestState"
    <3>1. Talk'
      BY <1>1, <2>3, <2>4, <2>5, <2>7, TalkAnswer DEF TransferInv, Talk
    <3> QED
      BY <1>2, <2>5, <2>6, <3>1 DEF TransferInv, Talk
  <2>8. CASE m.kind # "RequestState"
    <3>1. \A r \in Correct, n \in Faulty, o \in net' : IsTalk(o, r, n) => o \in net
      BY <2>3, <2>4, <2>8 DEF IsTalk
    <3>2. \A r \in Correct, e \in Digest : cst'[r].states[e].count <= cst[r].states[e].count
      BY <1>1, CountsNat DEF TransferInv
    <3>3. Talk'
      BY <1>1, <2>5, <3>1, <3>2, TalkSame DEF TransferInv, Talk
    <3> QED
      BY <1>2, <2>5, <2>6, <3>3 DEF TransferInv, Talk
  <2> QED
    BY <2>7, <2>8
<1> QED
  BY ZenonT(60), <1>3, <1>4 DEF FaultyAnswers

-----------------------------------------------------------------------------
LEMMA InitInv ==
  ASSUME Init
  PROVE  TransferInv
<1>1. NoneReceived \in Received
  BY FaultyFinite DEF NoneReceived, Absent, Received
<1>2. net \subseteq Requests
  BY StateTransferAssumption DEF Init, Request, Requests, RequestKinds, Correct
<1>3. \A m \in net : m.kind = "RequestState" /\ m.from \in Faulty
  <2> SUFFICES ASSUME NEW m \in net PROVE m.kind = "RequestState" /\ m.from \in Faulty
    OBVIOUS
  <2>1. PICK q \in bound.faultyAsks : m = Request("RequestState", q.from, q.to, q.cst)
    BY ZenonT(60) DEF Init
  <2>2. m.kind = "RequestState" /\ m.from = q.from
    BY ZenonT(60), <2>1 DEF Request
  <2>3. q.from \in Faulty
    BY StateTransferAssumption DEF Init
  <2> QED
    BY ZenonT(60), <2>2, <2>3
<1>4. TypeInv
  BY <1>1, <1>2, FaultyFinite DEF Init, TypeInv, CstType, Phases, NoSeq
<1>5. IdleOffContext /\ SendsTaken /\ InstalledIsCorrect
  BY ZenonT(60), <1>3 DEF Init, IdleOffContext, SendsTaken, InstalledIsCorrect, Has
<1>6. \A r \in Correct, n \in Faulty, m \in net : ~ IsTalk(m, r, n)
  BY ZenonT(60), <1>3, FaultyFinite DEF IsTalk
<1>7. Fresh /\ Once
  BY <1>6 DEF Fresh, Once
<1>8. FewVotes
  <2> SUFFICES ASSUME NEW r \in Correct, NEW d \in Digest
               PROVE  cst[r].states[d].count + Cardinality(Unanswered(net, r, cst[r].currSeq))
                        <= Cardinality(Faulty)
    BY DEF FewVotes
  <2>1. cst[r].states[d].count = 0
    BY ZenonT(60) DEF Init, NoneReceived, Absent
  <2> QED
    BY <2>1, UnansweredBounded, FaultyFinite
<1> QED
  BY <1>4, <1>5, <1>7, <1>8 DEF TransferInv

LEMMA NextInv ==
  ASSUME TransferInv, [Next]_vars
  PROVE  TransferInv'
<1>1. ASSUME NEW r \in Correct, RequestLatestState(r)
      PROVE  TransferInv'
  BY <1>1, RequestLatestStateInv
<1>2. ASSUME NEW r \in Correct, NEW m \in net, Receive(r, m)
      PROVE  TransferInv'
  BY <1>2, ReceiveRequestSeqInv, ReceiveRequestStateInv, ReceiveIdleInv, ReceiveOtherInv,
     ReceiveStateCidInv, ReceiveStateInv DEF Receive
<1>3. ASSUME NEW r \in Correct, AppStateRequested(r)
      PROVE  TransferInv'
  BY <1>3, AppStateRequestedInv
<1>4. ASSUME NEW r \in Correct, StateReceivedFromApp(r)
      PROVE  TransferInv'
  BY <1>4, StateReceivedFromAppInv
<1>5. ASSUME NEW m \in net, FaultyAnswers(m)
      PROVE  TransferInv'
  BY <1>5, FaultyAnswersInv
<1>6. CASE UNCHANGED vars
  <2>1. TypeInv' /\ IdleOffContext' /\ SendsTaken' /\ InstalledIsCorrect'
    BY ZenonT(60), <1>6 DEF vars, TransferInv, TypeInv, IdleOffContext, SendsTaken, Has, InstalledIsCorrect
  <2>2. \A s \in Correct, d \in Digest : cst'[s].states[d].count <= cst[s].states[d].count
    BY <1>6, CountsNat DEF vars, TransferInv
  <2>3. Talk'
    BY <1>6, <2>1, <2>2, TalkSame DEF vars, TransferInv, Talk
  <2> QED
    BY ZenonT(60), <2>1, <2>3 DEF TransferInv, Talk
<1> QED
  BY <1>1, <1>2, <1>3, <1>4, <1>5, <1>6 DEF Next

LEMMA TransferInvHolds == Spec => []TransferInv
<1>1. Init => TransferInv
  BY InitInv
<1>2. TransferInv /\ [Next]_vars => TransferInv'
  BY NextInv
<1> QED
  BY <1>1, <1>2, PTL DEF Spec

(***************************************************************************)
(* What process_message() hands over once f + 1 replies carry its digest   *)
(* is the state of a checkpoint that a correct replica has taken, though   *)
(* the replies are counted and their senders are not remembered, for any   *)
(* number of replicas of which at most F are faulty, each of which answers *)
(* a request at most once.                                                 *)
(***************************************************************************)
THEOREM InstalledIsCorrectHolds == Spec => []InstalledIsCorrect
<1>1. TransferInv => InstalledIsCorrect
  BY DEF TransferInv
<1> QED
  BY <1>1, TransferInvHolds, PTL

(***************************************************************************)
(* A replica runs state transfer exactly while the protocol waits for      *)
(* replies: handle_off_ctx_message() finds it in Init or                   *)
(* WaitingCheckpoint, where no reply changes its outcome.                  *)
(***************************************************************************)
THEOREM IdleOffContextHolds == Spec => []IdleOffContext
<1>1. TransferInv => IdleOffContext
  BY DEF TransferInv
<1> QED
  BY <1>1, TransferInvHolds, PTL
=============================================================================
