--------------------- MODULE StateTransferCountProofs -----------------------
(***************************************************************************)
(* For any number of replicas, of which at most F are faulty, any number   *)
(* of requests and any bounds: what a replica counts are replies of        *)
(* different members to its current request, and it keeps requests waiting *)
(* only for want of a checkpoint.                                          *)
(*                                                                         *)
(* The code counts replies and does not remember their senders, so this    *)
(* rests on the exchange a request starts with each member: at any time a  *)
(* single thing stands for it, the request on its way, the request kept    *)
(* until there is a checkpoint, or the reply (AskedOnce), under a number   *)
(* that is not used twice (NumbersFresh).  The replies counted and the     *)
(* exchanges still open are then never more than the other members         *)
(* (FewReplies).                                                           *)
(***************************************************************************)
EXTENDS StateTransferProofs

USE SMTT(120)

ReplyKinds == {"ReplyStateCid", "ReplyState"}

\* Request q, kept by n.
KeptRequest(q, n) == [kind |-> "Kept", from |-> q.from, to |-> n, cst |-> q.cst]

Open == net \cup UNION {{KeptRequest(q, n) : q \in cst[n].waiting} : n \in Correct}

\* m belongs to what r has asked of n.
IsExchange(m, r, n) ==
  \/ m.kind \in RequestKinds \cup {"Kept"} /\ m.from = r /\ m.to = n
  \/ m.kind \in ReplyKinds /\ m.from = n /\ m.to = r

NumbersFresh ==
  \A r \in Correct, n \in Node, m \in Open :
    IsExchange(m, r, n) => m.cst <= cst[r].currSeq /\ n # r

AskedOnce ==
  \A r \in Correct, n \in Node, m1, m2 \in Open :
    IsExchange(m1, r, n) /\ IsExchange(m2, r, n) /\ m1.cst = m2.cst => m1 = m2

\* The members whose reply to request k of r is still to come.
ToAnswer(open, r, k) == {n \in Node : \E m \in open : IsExchange(m, r, n) /\ m.cst = k}

FewReplies ==
  \A r \in Correct :
    cst[r].count + Cardinality(ToAnswer(Open, r, cst[r].currSeq)) <= Cardinality(Node \ {r})

Exchanges == NumbersFresh /\ AskedOnce /\ FewReplies

\* Nothing but requests of correct replicas is sent to the faulty ones.
Addressed == \A m \in net : m.to \in Faulty => m.kind \in RequestKinds /\ m.from \in Correct

\* Requests wait only for a checkpoint, and there is a latest one.
IsResting(c) ==
  /\ c.phase = "WaitingCheckpoint" => ~ Has(c)
  /\ c.waiting # {} <=> c.phase = "WaitingCheckpoint"
  /\ c.waiting # {} => \E q \in c.waiting : \A p \in c.waiting : p.cst <= q.cst

Resting == \A r \in Correct : IsResting(cst[r])

CountInv == TransferInv /\ Addressed /\ Resting /\ Exchanges

-----------------------------------------------------------------------------
LEMMA NodeFinite ==
  ASSUME NEW r \in Node
  PROVE  /\ IsFiniteSet(Node) /\ IsFiniteSet(Node \ {r})
         /\ Cardinality(Node) \in Nat /\ Cardinality(Node \ {r}) = Cardinality(Node) - 1
         /\ Cardinality(Node \ {r}) \in Nat
<1>1. IsFiniteSet(Node)
  BY StateTransferAssumption
<1> QED
  BY <1>1, FS_RemoveElement, FS_CardinalityType

LEMMA OpenType ==
  ASSUME TypeInv
  PROVE  /\ \A m \in Open : m.cst \in Nat /\ m.from \in Node /\ m.to \in Node
         /\ \A r \in Correct : cst[r].currSeq \in Nat /\ cst[r].count \in Nat /\ r \in Node
<1>1. \A m \in net : m.cst \in Nat /\ m.from \in Node /\ m.to \in Node
  BY DEF TypeInv, Requests, Replies
<1>2. \A r \in Correct : /\ cst[r].currSeq \in Nat /\ cst[r].count \in Nat /\ r \in Node
                         /\ cst[r].waiting \subseteq [from : Node, cst : Nat]
  BY DEF TypeInv, CstType, Correct
<1>3. \A n \in Correct : \A q \in cst[n].waiting :
        LET m == KeptRequest(q, n) IN m.cst \in Nat /\ m.from \in Node /\ m.to \in Node
  BY <1>2 DEF KeptRequest
<1> QED
  BY <1>1, <1>2, <1>3 DEF Open

\* The members that have yet to answer are among those that were asked.
LEMMA ToAnswerFinite ==
  ASSUME Exchanges, NEW r \in Correct
  PROVE  /\ IsFiniteSet(ToAnswer(Open, r, cst[r].currSeq))
         /\ Cardinality(ToAnswer(Open, r, cst[r].currSeq)) \in Nat
<1> DEFINE T == ToAnswer(Open, r, cst[r].currSeq)
<1>1. T \subseteq Node \ {r}
  BY DEF ToAnswer, Exchanges, NumbersFresh
<1> HIDE DEF T
<1>2. IsFiniteSet(Node \ {r})
  BY NodeFinite DEF Correct
<1>3. IsFiniteSet(T)
  BY <1>1, <1>2, FS_Subset
<1>4. Cardinality(T) \in Nat
  BY <1>3, FS_CardinalityType
<1> QED
  BY <1>3, <1>4 DEF T

\* Replies counted and still to come, when none is added to them.
LEMMA FewerToAnswer ==
  ASSUME TypeInv, Exchanges, NEW r \in Correct, NEW n \in Nat, n <= cst[r].count,
         NEW T, T \subseteq ToAnswer(Open, r, cst[r].currSeq)
  PROVE  n + Cardinality(T) <= Cardinality(Node \ {r})
<1> DEFINE before == ToAnswer(Open, r, cst[r].currSeq)
<1>1. IsFiniteSet(before) /\ Cardinality(before) \in Nat
  BY ZenonT(60), ToAnswerFinite
<1>2. cst[r].count + Cardinality(before) <= Cardinality(Node \ {r})
  BY DEF Exchanges, FewReplies
<1>3. cst[r].count \in Nat /\ Cardinality(Node \ {r}) \in Nat
  BY OpenType, NodeFinite
<1> HIDE DEF before
<1>4. T \subseteq before
  BY DEF before
<1>5. IsFiniteSet(T) /\ Cardinality(T) <= Cardinality(before)
  BY <1>1, <1>4, FS_Subset
<1>6. Cardinality(T) \in Nat
  BY <1>5, FS_CardinalityType
<1> QED
  BY <1>1, <1>2, <1>3, <1>5, <1>6

\* The same, when a member has answered.
LEMMA OneToAnswerLess ==
  ASSUME TypeInv, Exchanges, NEW r \in Correct,
         NEW o \in ToAnswer(Open, r, cst[r].currSeq),
         NEW T, T \subseteq ToAnswer(Open, r, cst[r].currSeq) \ {o}
  PROVE  cst[r].count + 1 + Cardinality(T) <= Cardinality(Node \ {r})
<1> DEFINE before == ToAnswer(Open, r, cst[r].currSeq)
<1>1. IsFiniteSet(before) /\ Cardinality(before) \in Nat
  BY ZenonT(60), ToAnswerFinite
<1>2. cst[r].count + Cardinality(before) <= Cardinality(Node \ {r})
  BY DEF Exchanges, FewReplies
<1>3. cst[r].count \in Nat /\ Cardinality(Node \ {r}) \in Nat
  BY OpenType, NodeFinite
<1>4. o \in before /\ T \subseteq before \ {o}
  OBVIOUS
<1> HIDE DEF before
<1>5. IsFiniteSet(before \ {o}) /\ Cardinality(before \ {o}) = Cardinality(before) - 1
  BY <1>1, <1>4, FS_RemoveElement
<1>6. IsFiniteSet(T) /\ Cardinality(T) <= Cardinality(before) - 1
  BY <1>4, <1>5, FS_Subset
<1>7. Cardinality(T) \in Nat
  BY <1>6, FS_CardinalityType
<1> QED
  BY <1>1, <1>2, <1>3, <1>6, <1>7

-----------------------------------------------------------------------------
(***************************************************************************)
(* How the steps change the exchanges.                                     *)
(***************************************************************************)
\* Something new stands for an exchange in the place of what stood for it.
LEMMA ExchangesMove ==
  ASSUME TypeInv, TypeInv', Exchanges,
         \A s \in Correct : cst'[s].currSeq = cst[s].currSeq /\ cst'[s].count <= cst[s].count,
         \A s \in Correct, n \in Node, m \in Open' :
           IsExchange(m, s, n) =>
             m \in Open \/ \E o \in Open \ Open' : IsExchange(o, s, n) /\ o.cst = m.cst,
         \A s \in Correct, n \in Node, m1, m2 \in Open' \ Open :
           IsExchange(m1, s, n) /\ IsExchange(m2, s, n) /\ m1.cst = m2.cst => m1 = m2
  PROVE  Exchanges'
<1>0. \A s \in Correct, n \in Node, m \in Open' :
        IsExchange(m, s, n) => \E o \in Open : IsExchange(o, s, n) /\ o.cst = m.cst
  OBVIOUS
<1>1. NumbersFresh'
  <2> SUFFICES ASSUME NEW s \in Correct, NEW n \in Node, NEW m \in Open', IsExchange(m, s, n)
               PROVE  m.cst <= cst'[s].currSeq /\ n # s
    BY DEF NumbersFresh
  <2>1. PICK o \in Open : IsExchange(o, s, n) /\ o.cst = m.cst
    BY ZenonT(60), <1>0
  <2>2. o.cst <= cst[s].currSeq /\ n # s
    BY ZenonT(60), <2>1 DEF Exchanges, NumbersFresh
  <2> QED
    BY ZenonT(60), <2>1, <2>2
<1>2. AskedOnce'
  <2> SUFFICES ASSUME NEW s \in Correct, NEW n \in Node, NEW m1 \in Open', NEW m2 \in Open',
                      IsExchange(m1, s, n), IsExchange(m2, s, n), m1.cst = m2.cst
               PROVE  m1 = m2
    BY DEF AskedOnce
  <2>1. CASE m1 \in Open /\ m2 \in Open
    BY <2>1 DEF Exchanges, AskedOnce
  <2>2. CASE m1 \in Open /\ m2 \notin Open
    <3>1. PICK o \in Open \ Open' : IsExchange(o, s, n) /\ o.cst = m2.cst
      BY <2>2
    <3> QED
      BY <2>2, <3>1 DEF Exchanges, AskedOnce
  <2>3. CASE m1 \notin Open /\ m2 \in Open
    <3>1. PICK o \in Open \ Open' : IsExchange(o, s, n) /\ o.cst = m1.cst
      BY <2>3
    <3> QED
      BY <2>3, <3>1 DEF Exchanges, AskedOnce
  <2>4. CASE m1 \notin Open /\ m2 \notin Open
    BY <2>4
  <2> QED
    BY <2>1, <2>2, <2>3, <2>4
<1>3. FewReplies'
  <2> SUFFICES ASSUME NEW r \in Correct
               PROVE  cst'[r].count + Cardinality(ToAnswer(Open', r, cst'[r].currSeq))
                        <= Cardinality(Node \ {r})
    BY DEF FewReplies
  <2>1. ToAnswer(Open', r, cst'[r].currSeq) \subseteq ToAnswer(Open, r, cst[r].currSeq)
    <3>1. cst'[r].currSeq = cst[r].currSeq
      OBVIOUS
    <3> QED
      BY <1>0, <3>1 DEF ToAnswer
  <2>2. cst'[r].count \in Nat
    BY DEF TypeInv, CstType
  <2> QED
    BY ZenonT(60), <2>1, <2>2, FewerToAnswer
<1> QED
  BY <1>1, <1>2, <1>3 DEF Exchanges

\* Things that stood for exchanges are gone.
LEMMA ExchangesShrink ==
  ASSUME TypeInv, TypeInv', Exchanges, Open' \subseteq Open,
         \A s \in Correct : cst'[s].currSeq = cst[s].currSeq /\ cst'[s].count <= cst[s].count
  PROVE  Exchanges'
BY ZenonT(60), ExchangesMove

\* r asks the others, with the next number.
LEMMA ExchangesAsk ==
  ASSUME TypeInv, TypeInv', Exchanges, NEW r \in Correct, NEW kind \in RequestKinds,
         cst'[r].currSeq = cst[r].currSeq + 1, cst'[r].count = 0,
         \A s \in Correct \ {r} : cst'[s].currSeq = cst[s].currSeq /\ cst'[s].count = cst[s].count,
         \A m \in Open' : m \in Open \/ m \in Broadcast(kind, r, cst[r].currSeq + 1)
  PROVE  Exchanges'
<1> DEFINE k == cst[r].currSeq + 1
<1>1. \A s \in Correct, n \in Node, m \in Open' :
        IsExchange(m, s, n) =>
          \/ m \in Open /\ m.cst \in Nat /\ m.cst <= cst[s].currSeq /\ n # s
          \/ s = r /\ n # r /\ m = Request(kind, r, n, k)
  <2> SUFFICES ASSUME NEW s \in Correct, NEW n \in Node, NEW m \in Open', IsExchange(m, s, n),
                      m \notin Open
               PROVE  s = r /\ n # r /\ m = Request(kind, r, n, k)
    BY OpenType DEF Exchanges, NumbersFresh
  <2>1. PICK o \in Node \ {r} : m = Request(kind, r, o, k)
    BY DEF Broadcast
  <2>2. m.from = r /\ m.to = o /\ m.kind = kind /\ kind \notin ReplyKinds
    BY <2>1 DEF Request, RequestKinds, ReplyKinds
  <2>3. s = r /\ n = o
    BY ZenonT(60), <2>2 DEF IsExchange
  <2> QED
    BY <2>1, <2>3
<1>2. \A n : Request(kind, r, n, k).cst = k
  BY DEF Request
<1>3. \A s \in Correct : cst[s].currSeq \in Nat
  BY OpenType
<1>4. NumbersFresh'
  BY <1>1, <1>2, <1>3 DEF NumbersFresh
<1>5. AskedOnce'
  <2> SUFFICES ASSUME NEW s \in Correct, NEW n \in Node, NEW m1 \in Open', NEW m2 \in Open',
                      IsExchange(m1, s, n), IsExchange(m2, s, n), m1.cst = m2.cst
               PROVE  m1 = m2
    BY DEF AskedOnce
  <2>1. CASE m1 \in Open /\ m2 \in Open
    BY <2>1 DEF Exchanges, AskedOnce
  <2>2. CASE m1 \notin Open \/ m2 \notin Open
    BY <1>1, <1>2, <1>3, <2>2
  <2> QED
    BY <2>1, <2>2
<1>6. FewReplies'
  <2> SUFFICES ASSUME NEW s \in Correct
               PROVE  cst'[s].count + Cardinality(ToAnswer(Open', s, cst'[s].currSeq))
                        <= Cardinality(Node \ {s})
    BY DEF FewReplies
  <2>1. CASE s = r
    <3> DEFINE T == ToAnswer(Open', r, cst'[r].currSeq)
    <3>1. T \subseteq Node \ {r}
      BY ZenonT(60), <1>4 DEF NumbersFresh, ToAnswer
    <3> HIDE DEF T
    <3>2. r \in Node
      BY ZenonT(60) DEF Correct
    <3>3. IsFiniteSet(Node \ {r}) /\ Cardinality(Node \ {r}) \in Nat
      BY ZenonT(60), <3>2, NodeFinite
    <3>4. IsFiniteSet(T) /\ Cardinality(T) <= Cardinality(Node \ {r})
      BY ZenonT(60), <3>1, <3>3, FS_Subset
    <3>5. 0 + Cardinality(T) <= Cardinality(Node \ {r})
      BY <3>3, <3>4, FS_CardinalityType
    <3> QED
      BY ZenonT(60), <2>1, <3>5 DEF T
  <2>2. CASE s # r
    <3>1. cst'[s].currSeq = cst[s].currSeq /\ cst'[s].count = cst[s].count
      BY ZenonT(60), <2>2
    <3>2. ToAnswer(Open', s, cst[s].currSeq) \subseteq ToAnswer(Open, s, cst[s].currSeq)
      BY ZenonT(60), <1>1, <2>2 DEF ToAnswer
    <3>3. cst[s].count \in Nat /\ cst[s].count <= cst[s].count
      BY OpenType
    <3> QED
      BY ZenonT(60), <3>1, <3>2, <3>3, FewerToAnswer
  <2> QED
    BY <2>1, <2>2
<1> QED
  BY <1>4, <1>5, <1>6 DEF Exchanges

\* r counts the reply m to its current request.
LEMMA ExchangesCount ==
  ASSUME TypeInv, TypeInv', Exchanges, NEW r \in Correct, NEW m \in Open,
         m.kind \in ReplyKinds, m.to = r, m.cst = cst[r].currSeq,
         Open' \subseteq Open \ {m},
         \A s \in Correct : cst'[s].currSeq = cst[s].currSeq,
         \A s \in Correct \ {r} : cst'[s].count = cst[s].count,
         cst'[r].count = cst[r].count + 1
  PROVE  Exchanges'
<1>1. NumbersFresh' /\ AskedOnce'
  BY ZenonT(60) DEF Exchanges, NumbersFresh, AskedOnce
<1>2. FewReplies'
  <2> SUFFICES ASSUME NEW s \in Correct
               PROVE  cst'[s].count + Cardinality(ToAnswer(Open', s, cst'[s].currSeq))
                        <= Cardinality(Node \ {s})
    BY DEF FewReplies
  <2> DEFINE before == ToAnswer(Open, s, cst[s].currSeq)
             after == ToAnswer(Open', s, cst[s].currSeq)
  <2>1. after \subseteq before
    BY ZenonT(60) DEF ToAnswer
  <2>2. cst'[s].currSeq = cst[s].currSeq
    OBVIOUS
  <2>3. CASE s # r
    <3>1. cst[s].count \in Nat /\ cst[s].count <= cst[s].count
      BY OpenType
    <3>2. cst'[s].count = cst[s].count
      BY ZenonT(60), <2>3
    <3> QED
      BY ZenonT(60), <2>1, <2>2, <3>1, <3>2, FewerToAnswer
  <2>4. CASE s = r
    <3>1. IsExchange(m, r, m.from) /\ m.from \in Node
      BY OpenType DEF IsExchange
    <3>2. m.from \in before
      BY <2>4, <3>1 DEF ToAnswer
    <3>3. m.from \notin after
      BY ZenonT(60), <2>4, <3>1 DEF ToAnswer, Exchanges, AskedOnce
    <3>4. after \subseteq before \ {m.from}
      BY ZenonT(60), <2>1, <3>3
    <3> QED
      BY ZenonT(60), <2>2, <2>4, <3>2, <3>4, OneToAnswerLess
  <2> QED
    BY <2>3, <2>4
<1> QED
  BY <1>1, <1>2 DEF Exchanges

\* a stands for an exchange in the place of m.
LEMMA ExchangesReplace ==
  ASSUME TypeInv, TypeInv', Exchanges, NEW m \in Open, m \notin Open', NEW a,
         \A x \in Open' : x \in Open \/ x = a,
         a.cst = m.cst,
         \A s \in Correct, n \in Node : IsExchange(a, s, n) => IsExchange(m, s, n),
         \A s \in Correct : cst'[s].currSeq = cst[s].currSeq /\ cst'[s].count = cst[s].count
  PROVE  Exchanges'
<1>1. \A s \in Correct : cst'[s].currSeq = cst[s].currSeq /\ cst'[s].count <= cst[s].count
  BY OpenType
<1>2. \A s \in Correct, n \in Node, x \in Open' :
        IsExchange(x, s, n) =>
          x \in Open \/ \E o \in Open \ Open' : IsExchange(o, s, n) /\ o.cst = x.cst
  BY ZenonT(60)
<1>3. \A s \in Correct, n \in Node, m1, m2 \in Open' \ Open :
        IsExchange(m1, s, n) /\ IsExchange(m2, s, n) /\ m1.cst = m2.cst => m1 = m2
  BY ZenonT(60)
<1> QED
  BY ZenonT(60), <1>1, <1>2, <1>3, ExchangesMove

-----------------------------------------------------------------------------
(***************************************************************************)
(* A step of replica r leaves it with c.                                   *)
(***************************************************************************)
LEMMA KeptOpen ==
  ASSUME TypeInv, NEW n \in Correct, NEW q \in cst[n].waiting
  PROVE  KeptRequest(q, n) \in Open /\ KeptRequest(q, n) \notin net
<1>1. \A m \in net : m.kind # "Kept"
  BY DEF TypeInv, Requests, Replies, RequestKinds
<1>2. KeptRequest(q, n).kind = "Kept"
  BY DEF KeptRequest
<1>3. KeptRequest(q, n) \in Open
  <2> DEFINE kept(o) == {KeptRequest(p, o) : p \in cst[o].waiting}
  <2>1. KeptRequest(q, n) \in kept(n) /\ kept(n) \in {kept(o) : o \in Correct}
    OBVIOUS
  <2>2. KeptRequest(q, n) \in UNION {kept(o) : o \in Correct}
    BY ZenonT(60), <2>1
  <2> QED
    BY ZenonT(60), <2>2 DEF Open
<1> QED
  BY ZenonT(60), <1>1, <1>2, <1>3

\* r is left with c, takes gone from the network and sends what of sends may
\* leave a correct replica.
Moves(r, c, sends, gone) ==
  /\ cst'[r] = c /\ \A s \in Correct \ {r} : cst'[s] = cst[s]
  /\ net' = (net \ gone) \cup {m \in sends : m.to \in Correct \/ m.kind \in RequestKinds}

LEMMA UpdateMoves ==
  ASSUME TypeInv, NEW r \in Correct, NEW c, NEW isRunning, NEW sends, NEW gone,
         Update(r, c, isRunning, sends, gone)
  PROVE  Moves(r, c, sends, gone)
BY DEF Update, TypeInv, Moves

LEMMA MovesOpen ==
  ASSUME TypeInv, NEW r \in Correct, NEW c, NEW sends, NEW gone,
         Moves(r, c, sends, gone), gone \subseteq net
  PROVE  \A x \in Open' : \/ x \in Open \ gone
                          \/ x \in sends
                          \/ \E q \in c.waiting : x = KeptRequest(q, r)
<1>1. \A n \in Correct : \A q \in cst[n].waiting : KeptRequest(q, n) \in Open \ gone
  BY ZenonT(60), KeptOpen
<1>2. /\ cst'[r] = c /\ \A s \in Correct \ {r} : cst'[s] = cst[s]
      /\ net' \subseteq (net \ gone) \cup sends
  BY DEF Moves
<1> SUFFICES ASSUME NEW x \in Open'
             PROVE  \/ x \in Open \ gone
                    \/ x \in sends
                    \/ \E q \in c.waiting : x = KeptRequest(q, r)
  OBVIOUS
<1>3. CASE x \in net'
  BY <1>2, <1>3 DEF Open
<1>4. CASE x \notin net'
  <2>1. PICK n \in Correct : \E q \in cst'[n].waiting : x = KeptRequest(q, n)
    BY <1>4 DEF Open
  <2> QED
    BY ZenonT(60), <1>1, <1>2, <2>1
<1> QED
  BY <1>3, <1>4

\* The same, where nothing is kept that was not before.
LEMMA MovesOpenSame ==
  ASSUME TypeInv, NEW r \in Correct, NEW c, NEW sends, NEW gone,
         Moves(r, c, sends, gone), gone \subseteq net, c.waiting \subseteq cst[r].waiting
  PROVE  \A x \in Open' : x \in Open \ gone \/ x \in sends
<1>1. \A q \in cst[r].waiting : KeptRequest(q, r) \in Open \ gone
  BY ZenonT(60), KeptOpen
<1> SUFFICES ASSUME NEW x \in Open'
             PROVE  x \in Open \ gone \/ x \in sends
  OBVIOUS
<1>2. \/ x \in Open \ gone
      \/ x \in sends
      \/ \E q \in c.waiting : x = KeptRequest(q, r)
  BY MovesOpen
<1> QED
  BY ZenonT(60), <1>1, <1>2

LEMMA MovesRests ==
  ASSUME Addressed, Resting, NEW r \in Correct, NEW c, NEW sends, NEW gone,
         Moves(r, c, sends, gone), IsResting(c), \A m \in sends : m.from = r
  PROVE  Addressed' /\ Resting'
<1>1. Resting'
  BY ZenonT(60) DEF Resting, Moves
<1>2. Addressed'
  BY ZenonT(60), FaultyFinite DEF Addressed, Correct, Moves
<1> QED
  BY <1>1, <1>2

-----------------------------------------------------------------------------
(***************************************************************************)
(* What the steps of a replica come to.                                    *)
(***************************************************************************)
Counting == TypeInv /\ TypeInv' /\ Exchanges /\ Addressed /\ Resting

CountStep == Addressed' /\ Resting' /\ Exchanges'

\* A message that is received.
LEMMA Arrives ==
  ASSUME TypeInv, NEW m \in net
  PROVE  /\ m \in Open /\ {m} \subseteq net /\ m.from \in Node /\ m.to \in Node /\ m.cst \in Nat
         /\ m.kind # "Kept"
BY OpenType DEF Open, TypeInv, Requests, Replies, RequestKinds

\* Nothing is sent, and requests or counted replies may be forgotten.
LEMMA MovesFewer ==
  ASSUME Counting, NEW r \in Correct, NEW c, NEW gone, gone \subseteq net,
         Moves(r, c, {}, gone), IsResting(c), c.waiting \subseteq cst[r].waiting,
         c.currSeq = cst[r].currSeq, c.count <= cst[r].count
  PROVE  CountStep
<1>1. TypeInv /\ TypeInv' /\ Exchanges /\ Addressed /\ Resting
  BY DEF Counting
<1>2. Addressed' /\ Resting'
  BY <1>1, MovesRests
<1>3. \A x \in Open' : x \in Open \ gone \/ x \in {}
  BY <1>1, MovesOpenSame
<1>4. Open' \subseteq Open
  BY ZenonT(60), <1>3
<1>5. \A s \in Correct : cst'[s].currSeq = cst[s].currSeq /\ cst'[s].count <= cst[s].count
  BY <1>1, OpenType DEF Moves
<1>6. Exchanges'
  BY ZenonT(60), <1>1, <1>4, <1>5, ExchangesShrink
<1> QED
  BY <1>2, <1>6 DEF CountStep

\* r answers the request m with a.
LEMMA MovesAnswer ==
  ASSUME Counting, NEW r \in Correct, NEW m \in net, NEW a,
         Moves(r, cst[r], {a}, {m}), m.to = r, m.kind \in RequestKinds,
         a.kind \in ReplyKinds, a.from = r, a.to = m.from, a.cst = m.cst
  PROVE  CountStep
<1>1. TypeInv /\ TypeInv' /\ Exchanges /\ Addressed /\ Resting /\ IsResting(cst[r])
  BY DEF Counting, Resting
<1>2. m \in Open /\ {m} \subseteq net
  BY <1>1, Arrives
<1>3. Addressed' /\ Resting'
  <2>1. \A p \in {a} : p.from = r
    OBVIOUS
  <2> QED
    BY <1>1, <2>1, MovesRests
<1>4. \A x \in Open' : x \in Open \ {m} \/ x \in {a}
  BY <1>1, <1>2, MovesOpenSame
<1>5. m \notin Open'
  BY <1>4 DEF RequestKinds, ReplyKinds
<1>6. \A s \in Correct : cst'[s] = cst[s]
  BY ZenonT(60) DEF Moves
<1>7. \A s \in Correct, n \in Node : IsExchange(a, s, n) => IsExchange(m, s, n)
  BY DEF IsExchange, RequestKinds, ReplyKinds
<1>8. Exchanges'
  BY ZenonT(60), <1>1, <1>2, <1>4, <1>5, <1>6, <1>7, ExchangesReplace
<1> QED
  BY <1>3, <1>8 DEF CountStep

\* r asks the others.
LEMMA MovesAsk ==
  ASSUME Counting, NEW r \in Correct, NEW kind \in RequestKinds, NEW c, NEW gone, gone \subseteq net,
         Moves(r, c, Broadcast(kind, r, cst[r].currSeq + 1), gone), IsResting(c),
         c.waiting \subseteq cst[r].waiting, c.currSeq = cst[r].currSeq + 1, c.count = 0
  PROVE  CountStep
<1> DEFINE sends == Broadcast(kind, r, cst[r].currSeq + 1)
<1>1. TypeInv /\ TypeInv' /\ Exchanges /\ Addressed /\ Resting
  BY DEF Counting
<1>2. \A m \in sends : m.from = r
  BY DEF Broadcast, Request
<1> HIDE DEF sends
<1>3. Moves(r, c, sends, gone)
  BY DEF sends
<1>4. Addressed' /\ Resting'
  BY <1>1, <1>2, <1>3, MovesRests
<1>5. \A x \in Open' : x \in Open \ gone \/ x \in sends
  BY <1>1, <1>3, MovesOpenSame
<1>6. cst'[r] = c /\ \A s \in Correct \ {r} : cst'[s] = cst[s]
  BY <1>3 DEF Moves
<1>7. Exchanges'
  <2>1. \A m \in Open' : m \in Open \/ m \in Broadcast(kind, r, cst[r].currSeq + 1)
    BY ZenonT(60), <1>5 DEF sends
  <2>2. /\ cst'[r].currSeq = cst[r].currSeq + 1 /\ cst'[r].count = 0
        /\ \A s \in Correct \ {r} : cst'[s].currSeq = cst[s].currSeq /\ cst'[s].count = cst[s].count
    BY <1>6
  <2> QED
    BY ZenonT(60), <1>1, <2>1, <2>2, ExchangesAsk
<1> QED
  BY <1>4, <1>7 DEF CountStep

\* r counts the reply m.
LEMMA MovesCounted ==
  ASSUME Counting, NEW r \in Correct, NEW m \in net, NEW c, Moves(r, c, {}, {m}), IsResting(c),
         m.kind \in ReplyKinds, m.to = r, m.cst = cst[r].currSeq,
         c.waiting \subseteq cst[r].waiting, c.currSeq = cst[r].currSeq,
         c.count = cst[r].count + 1
  PROVE  CountStep
<1>1. TypeInv /\ TypeInv' /\ Exchanges /\ Addressed /\ Resting
  BY DEF Counting
<1>2. m \in Open /\ {m} \subseteq net
  BY <1>1, Arrives
<1>3. Addressed' /\ Resting'
  BY <1>1, MovesRests
<1>4. \A x \in Open' : x \in Open \ {m} \/ x \in {}
  BY <1>1, <1>2, MovesOpenSame
<1>5. Open' \subseteq Open \ {m}
  BY ZenonT(60), <1>4
<1>6. cst'[r] = c /\ \A s \in Correct \ {r} : cst'[s] = cst[s]
  BY DEF Moves
<1>7. /\ \A s \in Correct : cst'[s].currSeq = cst[s].currSeq
      /\ \A s \in Correct \ {r} : cst'[s].count = cst[s].count
      /\ cst'[r].count = cst[r].count + 1
  BY <1>6
<1>8. Exchanges'
  BY ZenonT(60), <1>1, <1>2, <1>5, <1>7, ExchangesCount
<1> QED
  BY <1>3, <1>8 DEF CountStep

LEMMA KeepFields ==
  ASSUME NEW c \in CstType, NEW q \in [from : Node, cst : Nat]
  PROVE  /\ Keep(c, {q}).waiting = c.waiting \cup {q} /\ Keep(c, {q}).count = c.count
         /\ Keep(c, {q}).currSeq = c.currSeq /\ Keep(c, {q}).complete = c.complete
         /\ Keep(c, {q}).phase = "WaitingCheckpoint"
BY DEF Keep, CstType

\* One more request waits: it is the latest one, or the one that was still is.
LEMMA KeepRests ==
  ASSUME NEW c \in CstType, NEW q \in [from : Node, cst : Nat], IsResting(c),
         c.phase = "WaitingCheckpoint" \/ ~ Has(c)
  PROVE  IsResting(Keep(c, {q}))
<1> DEFINE k == Keep(c, {q})
<1>1. /\ k.waiting = c.waiting \cup {q} /\ k.complete = c.complete
      /\ k.phase = "WaitingCheckpoint"
  BY KeepFields
<1> HIDE DEF k
<1>2. ~ Has(k)
  BY ZenonT(60), <1>1 DEF IsResting, Has
<1>3. \A p \in c.waiting : p.cst \in Nat
  BY DEF CstType
<1>4. \E l \in k.waiting : \A p \in k.waiting : p.cst <= l.cst
  <2>1. CASE c.waiting = {}
    BY <1>1, <2>1
  <2>2. CASE c.waiting # {}
    <3>1. PICK l \in c.waiting : \A p \in c.waiting : p.cst <= l.cst
      BY ZenonT(60), <2>2 DEF IsResting
    <3>2. CASE q.cst <= l.cst
      BY <1>1, <3>1, <3>2
    <3>3. CASE ~ (q.cst <= l.cst)
      BY <1>1, <1>3, <3>1, <3>3
    <3> QED
      BY <3>2, <3>3
  <2> QED
    BY <2>1, <2>2
<1>5. k.waiting # {}
  BY <1>1
<1> QED
  BY ZenonT(60), <1>1, <1>2, <1>4, <1>5 DEF IsResting, k

\* Request q of r is kept by n, or answered by it.
LEMMA KeptIsExchange ==
  ASSUME NEW m, NEW r, m.to = r, m.kind \in RequestKinds,
         NEW s, NEW n, IsExchange(KeptRequest([from |-> m.from, cst |-> m.cst], r), s, n)
  PROVE  IsExchange(m, s, n)
BY DEF IsExchange, KeptRequest, ReplyKinds, RequestKinds

-----------------------------------------------------------------------------
(***************************************************************************)
(* The actions.                                                            *)
(***************************************************************************)
LEMMA CountingFacts ==
  ASSUME Counting, NEW r \in Correct
  PROVE  /\ TypeInv /\ cst[r] \in CstType /\ IsResting(cst[r])
         /\ cst[r].currSeq \in Nat /\ cst[r].count \in Nat /\ cst[r].phase \in Phases
BY DEF Counting, TypeInv, Resting, CstType

LEMMA AskFields ==
  ASSUME NEW c \in CstType
  PROVE  /\ AskForSeq(c).count = 0 /\ AskForSeq(c).waiting = {}
         /\ AskForState(c).count = 0 /\ AskForState(c).waiting = c.waiting
BY DEF AskForSeq, AskForState, CstType

LEMMA RequestLatestStateCount ==
  ASSUME Counting, NEW r \in Correct, RequestLatestState(r)
  PROVE  CountStep
<1> DEFINE c == AskForSeq(cst[r])
<1>1. /\ c.phase = "ReceivingCid" /\ c.currSeq = cst[r].currSeq + 1
      /\ c.count = 0 /\ c.waiting = {}
  BY CountingFacts, AskTypes, AskFields
<1>2. Update(r, c, TRUE, Broadcast("RequestStateCid", r, cst[r].currSeq + 1), {})
  BY ZenonT(60), <1>1 DEF RequestLatestState
<1>3. IsResting(c)
  BY ZenonT(60), <1>1 DEF IsResting
<1> HIDE DEF c
<1>4. Moves(r, c, Broadcast("RequestStateCid", r, cst[r].currSeq + 1), {})
  BY ZenonT(60), <1>2, CountingFacts, UpdateMoves
<1>5. "RequestStateCid" \in RequestKinds /\ {} \subseteq net /\ c.waiting \subseteq cst[r].waiting
  BY <1>1 DEF RequestKinds
<1> QED
  BY <1>1, <1>3, <1>4, <1>5, MovesAsk

LEMMA ReceiveRequestSeqCount ==
  ASSUME Counting, NEW r \in Correct, NEW m \in net, ReceiveRequestSeq(r, m)
  PROVE  CountStep
<1> DEFINE a == SeqAnswer(r, cst[r], m)
<1>1. Update(r, cst[r], running[r], {a}, {m}) /\ m.to = r /\ m.kind \in RequestKinds
  BY ZenonT(60) DEF ReceiveRequestSeq, RequestKinds
<1>2. a.kind \in ReplyKinds /\ a.from = r /\ a.to = m.from /\ a.cst = m.cst
  BY DEF SeqAnswer, Reply, ReplyKinds
<1> HIDE DEF a
<1>3. Moves(r, cst[r], {a}, {m})
  BY ZenonT(60), <1>1, CountingFacts, UpdateMoves
<1> QED
  BY <1>1, <1>2, <1>3, MovesAnswer

\* A message is dropped.
LEMMA DropCount ==
  ASSUME Counting, NEW r \in Correct, NEW m \in net, Update(r, cst[r], running[r], {}, {m})
  PROVE  CountStep
<1>1. Moves(r, cst[r], {}, {m})
  BY ZenonT(60), CountingFacts, UpdateMoves
<1>2. {m} \subseteq net /\ cst[r].count <= cst[r].count
  BY CountingFacts
<1> QED
  BY <1>1, <1>2, CountingFacts, MovesFewer

\* A request for the state is kept.
LEMMA KeepCount ==
  ASSUME Counting, NEW r \in Correct, NEW m \in net, m.to = r, m.kind \in RequestKinds,
         Moves(r, Keep(cst[r], {[from |-> m.from, cst |-> m.cst]}), {}, {m}),
         cst[r].phase = "WaitingCheckpoint" \/ ~ Has(cst[r])
  PROVE  CountStep
<1> DEFINE c == cst[r]
           q == [from |-> m.from, cst |-> m.cst]
           k == Keep(c, {q})
           a == KeptRequest(q, r)
<1>1. TypeInv /\ TypeInv' /\ Exchanges /\ Addressed /\ Resting /\ IsResting(c) /\ c \in CstType
  BY DEF Counting, TypeInv, Resting
<1>2. m \in Open /\ {m} \subseteq net /\ q \in [from : Node, cst : Nat] /\ m.kind # "Kept"
  BY <1>1, Arrives
<1>3. a.cst = m.cst /\ a.kind = "Kept"
  BY DEF KeptRequest
<1>4. \A s \in Correct, n \in Node : IsExchange(a, s, n) => IsExchange(m, s, n)
  BY ZenonT(60), KeptIsExchange
<1>5. Moves(r, k, {}, {m})
  OBVIOUS
<1> HIDE DEF q
<1>6. IsResting(k)
  BY <1>1, <1>2, KeepRests
<1>7. k.waiting = c.waiting \cup {q} /\ k.count = c.count /\ k.currSeq = c.currSeq
  BY <1>1, <1>2, KeepFields
<1> HIDE DEF k
<1>8. Addressed' /\ Resting'
  <2>1. Addressed /\ Resting /\ \A x \in {} : x.from = r
    BY ZenonT(60), <1>1
  <2> QED
    BY <1>5, <1>6, <2>1, MovesRests
<1>9. \A s \in Correct : cst'[s].currSeq = cst[s].currSeq /\ cst'[s].count = cst[s].count
  BY ZenonT(60), <1>5, <1>7 DEF Moves
<1>10. \A x \in Open' : x \in Open \ {m} \/ x = a
  <2> SUFFICES ASSUME NEW x \in Open', x \notin Open \ {m}
               PROVE  x = a
    OBVIOUS
  <2>1. \E p \in k.waiting : x = KeptRequest(p, r)
    BY <1>1, <1>2, <1>5, MovesOpen
  <2>2. \A p \in c.waiting : KeptRequest(p, r) \in Open \ {m}
    BY <1>1, <1>2, KeptOpen
  <2> QED
    BY ZenonT(60), <1>7, <2>1, <2>2
<1> HIDE DEF a
<1>11. m \notin Open'
  BY <1>2, <1>3, <1>10
<1>12. Exchanges'
  BY ZenonT(60), <1>1, <1>2, <1>3, <1>4, <1>9, <1>10, <1>11, ExchangesReplace
<1> QED
  BY <1>8, <1>12 DEF CountStep

LEMMA ReceiveRequestStateCount ==
  ASSUME Counting, NEW r \in Correct, NEW m \in net, ReceiveRequestState(r, m)
  PROVE  CountStep
<1> DEFINE c == cst[r]
           q == [from |-> m.from, cst |-> m.cst]
<1>1. m.to = r /\ m.kind \in RequestKinds
  BY ZenonT(60) DEF ReceiveRequestState, RequestKinds
<1>2. CASE c.phase = "WaitingCheckpoint" \/ (c.phase = "Init" /\ ~ Has(c))
  <2>1. Update(r, Keep(c, {q}), running[r], {}, {m})
    BY ZenonT(60), <1>2 DEF ReceiveRequestState
  <2>2. Moves(r, Keep(c, {q}), {}, {m})
    BY ZenonT(60), <2>1, CountingFacts, UpdateMoves
  <2> QED
    BY ZenonT(60), <1>1, <1>2, <2>2, KeepCount
<1>3. CASE c.phase = "Init" /\ Has(c)
  <2> DEFINE a == Reply("ReplyState", r, m.from, m.cst, c.complete)
  <2>1. StateAnswers(r, c, {q}) = {a}
    BY DEF StateAnswers
  <2>2. Update(r, c, running[r], {a}, {m})
    BY ZenonT(60), <1>3, <2>1 DEF ReceiveRequestState
  <2>3. a.kind \in ReplyKinds /\ a.from = r /\ a.to = m.from /\ a.cst = m.cst
    BY DEF Reply, ReplyKinds
  <2> HIDE DEF a
  <2>4. Moves(r, cst[r], {a}, {m})
    BY ZenonT(60), <2>2, CountingFacts, UpdateMoves
  <2> QED
    BY <1>1, <2>3, <2>4, MovesAnswer
<1>4. CASE c.phase \in {"ReceivingCid", "ReceivingState"}
  <2>1. c.phase # "WaitingCheckpoint" /\ c.phase # "Init"
    BY <1>4
  <2>2. Update(r, c, running[r], {}, {m})
    BY ZenonT(60), <1>4, <2>1 DEF ReceiveRequestState
  <2> QED
    BY <2>2, DropCount
<1> QED
  BY <1>2, <1>3, <1>4, CountingFacts DEF Phases

\* Trying again what waits for a checkpoint, with none, keeps the latest ones.
LEMMA PendingRests ==
  ASSUME NEW c \in CstType, IsResting(c), c.phase = "WaitingCheckpoint"
  PROVE  /\ PendingDone(c).waiting \subseteq c.waiting /\ PendingDone(c).count = c.count
         /\ PendingDone(c).currSeq = c.currSeq /\ IsResting(PendingDone(c))
<1> DEFINE d == PendingDone(c)
<1>1. ~ Has(c) /\ c.waiting # {}
  BY DEF IsResting
<1>2. d = [c EXCEPT !.waiting = Latest(@)]
  BY <1>1 DEF PendingDone
<1>3. /\ d.waiting = Latest(c.waiting) /\ d.count = c.count /\ d.currSeq = c.currSeq
      /\ d.phase = "WaitingCheckpoint" /\ d.complete = c.complete
  BY <1>2 DEF CstType
<1> HIDE DEF d
<1>4. PICK q \in c.waiting : \A p \in c.waiting : p.cst <= q.cst
  BY <1>1 DEF IsResting
<1>5. \A p \in c.waiting : p.cst \in Nat
  BY DEF CstType
<1>6. q \in Latest(c.waiting) /\ Latest(c.waiting) \subseteq c.waiting
  BY <1>4, <1>5 DEF Latest
<1>7. ~ Has(d)
  BY <1>1, <1>3 DEF Has
<1>8. IsResting(d)
  BY ZenonT(60), <1>3, <1>4, <1>6, <1>7 DEF IsResting
<1> QED
  BY ZenonT(60), <1>3, <1>6, <1>8 DEF d

LEMMA ReceiveIdleCount ==
  ASSUME Counting, NEW r \in Correct, NEW m \in net, ReceiveIdle(r, m)
  PROVE  CountStep
<1> DEFINE c == cst[r]
<1>1. CASE c.phase = "Init"
  <2>1. Update(r, c, running[r], {}, {m})
    BY ZenonT(60), <1>1 DEF ReceiveIdle
  <2> QED
    BY <2>1, DropCount
<1>2. CASE c.phase = "WaitingCheckpoint"
  <2>1. Update(r, PendingDone(c), running[r], PendingAnswers(r, c), {m})
    BY <1>2 DEF ReceiveIdle
  <2>2. PendingAnswers(r, c) = {}
    BY <1>2, CountingFacts DEF PendingAnswers, IsResting
  <2>3. Moves(r, PendingDone(c), {}, {m})
    BY ZenonT(60), <2>1, <2>2, CountingFacts, UpdateMoves
  <2>4. /\ PendingDone(c).waiting \subseteq c.waiting /\ PendingDone(c).count <= c.count
        /\ PendingDone(c).currSeq = c.currSeq /\ IsResting(PendingDone(c))
    BY <1>2, CountingFacts, PendingRests
  <2>5. {m} \subseteq net
    OBVIOUS
  <2> QED
    BY <2>3, <2>4, <2>5, MovesFewer
<1> QED
  BY ZenonT(60), <1>1, <1>2 DEF ReceiveIdle

LEMMA ReceiveOtherCount ==
  ASSUME Counting, NEW r \in Correct, NEW m \in net, ReceiveOther(r, m)
  PROVE  CountStep
<1>1. Update(r, cst[r], running[r], {}, {m})
  BY DEF ReceiveOther
<1> QED
  BY <1>1, DropCount

(***************************************************************************)
(* A reply to the current request, which leaves the replica with c: it     *)
(* goes on waiting, asks for the state, or stops.                          *)
(***************************************************************************)
IsCounted(r, m, c) ==
  /\ m.kind \in ReplyKinds /\ m.to = r /\ m.cst = cst[r].currSeq
  /\ cst[r].phase \in Receiving /\ c \in CstType /\ c.phase = cst[r].phase
  /\ c.waiting = cst[r].waiting /\ c.currSeq = cst[r].currSeq
  /\ c.count = cst[r].count + 1

LEMMA CountedWaits ==
  ASSUME Counting, NEW r \in Correct, NEW m \in net, NEW c, IsCounted(r, m, c),
         Update(r, c, TRUE, {}, {m})
  PROVE  CountStep
<1>1. Moves(r, c, {}, {m})
  BY ZenonT(60), CountingFacts, UpdateMoves
<1>2. IsResting(c)
  BY ZenonT(60), CountingFacts DEF IsCounted, IsResting, Receiving
<1> QED
  BY <1>1, <1>2, MovesCounted DEF IsCounted

LEMMA CountedAsks ==
  ASSUME Counting, NEW r \in Correct, NEW m \in net, NEW c, IsCounted(r, m, c),
         Update(r, AskForState(c), TRUE, Broadcast("RequestState", r, c.currSeq + 1), {m})
  PROVE  CountStep
<1> DEFINE d == AskForState(c)
<1>1. /\ d.phase = "ReceivingState" /\ d.currSeq = cst[r].currSeq + 1
      /\ d.count = 0 /\ d.waiting = cst[r].waiting
  BY AskTypes, AskFields DEF IsCounted
<1>2. Update(r, d, TRUE, Broadcast("RequestState", r, cst[r].currSeq + 1), {m})
  BY ZenonT(60) DEF IsCounted
<1> HIDE DEF d
<1>3. Moves(r, d, Broadcast("RequestState", r, cst[r].currSeq + 1), {m})
  BY ZenonT(60), <1>2, CountingFacts, UpdateMoves
<1>4. cst[r].waiting = {}
  BY CountingFacts DEF IsCounted, IsResting, Receiving
<1>5. IsResting(d)
  BY ZenonT(60), <1>1, <1>4 DEF IsResting
<1>6. "RequestState" \in RequestKinds /\ {m} \subseteq net
  BY DEF RequestKinds
<1> QED
  BY <1>1, <1>3, <1>5, <1>6, MovesAsk

LEMMA CountedStops ==
  ASSUME Counting, NEW r \in Correct, NEW m \in net, NEW c, IsCounted(r, m, c), NEW d,
         d.phase = "Init", d.count = 0, d.waiting = c.waiting, d.currSeq = c.currSeq,
         Update(r, d, FALSE, {}, {m})
  PROVE  CountStep
<1>1. Moves(r, d, {}, {m})
  BY ZenonT(60), CountingFacts, UpdateMoves
<1>2. c.waiting = {} /\ cst[r].waiting = {}
  BY CountingFacts DEF IsCounted, IsResting, Receiving
<1>3. IsResting(d)
  BY ZenonT(60), <1>2 DEF IsResting
<1>4. {m} \subseteq net /\ d.count <= cst[r].count /\ d.currSeq = cst[r].currSeq
  BY CountingFacts DEF IsCounted
<1> QED
  BY <1>1, <1>2, <1>3, <1>4, MovesFewer

LEMMA CountedReplyFields ==
  ASSUME NEW c \in CstType, NEW m
  PROVE  CountedReply(c, m).count = c.count + 1 /\ CountedReply(c, m).waiting = c.waiting
BY DEF CountedReply, CountedId, CstType

LEMMA ReceiveStateCidCount ==
  ASSUME Counting, NEW r \in Correct, NEW m \in net, ReceiveStateCid(r, m)
  PROVE  CountStep
<1> DEFINE c == CountedReply(cst[r], m)
<1>1. /\ m.kind \in ReplyKinds /\ m.to = r /\ m.cst = cst[r].currSeq
      /\ m.kind = "ReplyStateCid" /\ cst[r].phase = "ReceivingCid"
  BY ZenonT(60) DEF ReceiveStateCid, IsReply, IsCurrent, ReplyKinds
<1>2. m.checkpoint \in Checkpoints \cup {NoCheckpoint}
  BY <1>1 DEF Counting, TypeInv, Requests, Replies, RequestKinds
<1>3. IsCounted(r, m, c)
  BY ZenonT(60), <1>1, <1>2, CountingFacts, CountedReplyType, CountedReplyFields
     DEF IsCounted, Receiving
<1>4. \/ Update(r, c, TRUE, {}, {m})
      \/ \E seq : SeqNoFound(r, c, seq, m)
  <2>1. c.count \in Nat /\ QuorumSize \in Nat
    BY <1>3, CountingFacts, FaultyFinite DEF IsCounted, QuorumSize
  <2>2. c.count < QuorumSize \/ c.count >= QuorumSize
    <3> HIDE DEF c
    <3> QED
      BY <2>1
  <2> QED
    BY ZenonT(60), <2>2 DEF ReceiveStateCid
<1> HIDE DEF c
<1>5. CASE Update(r, c, TRUE, {}, {m})
  BY ZenonT(60), <1>3, <1>5, CountedWaits
<1>6. ASSUME NEW seq, SeqNoFound(r, c, seq, m)
      PROVE  CountStep
  <2> DEFINE d == [c EXCEPT !.phase = "Init", !.count = 0]
  <2>1. \/ Update(r, AskForState(c), TRUE, Broadcast("RequestState", r, c.currSeq + 1), {m})
        \/ Update(r, d, FALSE, {}, {m})
    BY ZenonT(60), <1>6 DEF SeqNoFound
  <2>2. d.phase = "Init" /\ d.count = 0 /\ d.waiting = c.waiting /\ d.currSeq = c.currSeq
    BY <1>3 DEF IsCounted, CstType
  <2> HIDE DEF d
  <2> QED
    BY ZenonT(60), <1>3, <2>1, <2>2, CountedAsks, CountedStops
<1> QED
  BY ZenonT(60), <1>4, <1>5, <1>6

LEMMA ReceiveStateCount ==
  ASSUME Counting, NEW r \in Correct, NEW m \in net, ReceiveState(r, m)
  PROVE  CountStep
<1> DEFINE x == CountedState(cst[r], m.checkpoint)
           c == [x EXCEPT !.count = @ + 1]
           d == [c EXCEPT !.phase = "Init", !.count = 0, !.states = NoneReceived]
<1>1. /\ m.kind \in ReplyKinds /\ m.to = r /\ m.cst = cst[r].currSeq
      /\ m.kind = "ReplyState" /\ cst[r].phase = "ReceivingState"
  BY ZenonT(60) DEF ReceiveState, IsReply, IsCurrent, ReplyKinds
<1>2. m.checkpoint \in Checkpoints
  BY <1>1 DEF Counting, TypeInv, Requests, Replies, RequestKinds
<1>3. \/ Update(r, c, TRUE, {}, {m})
      \/ Update(r, d, FALSE, {}, {m})
      \/ Update(r, AskForState(c), TRUE, Broadcast("RequestState", r, c.currSeq + 1), {m})
  BY ZenonT(60) DEF ReceiveState
<1>4. /\ x \in CstType /\ x.phase = "ReceivingState" /\ x.currSeq = cst[r].currSeq
      /\ x.count = cst[r].count
  BY ZenonT(60), <1>1, <1>2, CountingFacts, CountedStateType
<1>5. x.waiting = cst[r].waiting
  BY CountingFacts DEF CountedState, CstType
<1> HIDE DEF x
<1>6. /\ c \in CstType /\ c.phase = "ReceivingState" /\ c.currSeq = cst[r].currSeq
      /\ c.count = cst[r].count + 1 /\ c.waiting = cst[r].waiting
  BY <1>4, <1>5 DEF CstType
<1> HIDE DEF c
<1>7. IsCounted(r, m, c)
  BY ZenonT(60), <1>1, <1>6 DEF IsCounted, Receiving
<1>8. d.phase = "Init" /\ d.count = 0 /\ d.waiting = c.waiting /\ d.currSeq = c.currSeq
  BY <1>6 DEF CstType
<1> HIDE DEF d
<1> QED
  BY ZenonT(60), <1>3, <1>7, <1>8, CountedWaits, CountedAsks, CountedStops

LEMMA AppStateRequestedCount ==
  ASSUME Counting, NEW r \in Correct, AppStateRequested(r)
  PROVE  CountStep
<1> DEFINE c == [cst[r] EXCEPT !.partial = cst'[r].partial]
<1>1. cst' = [cst EXCEPT ![r] = c] /\ net' = net
  BY DEF AppStateRequested, Counting, TypeInv, CstType
<1>2. /\ c.phase = cst[r].phase /\ c.currSeq = cst[r].currSeq /\ c.count = cst[r].count
      /\ c.waiting = cst[r].waiting /\ c.complete = cst[r].complete
  BY CountingFacts DEF CstType
<1> HIDE DEF c
<1>3. Moves(r, c, {}, {})
  BY <1>1 DEF Moves, Counting, TypeInv
<1>4. IsResting(c)
  BY ZenonT(60), <1>2, CountingFacts DEF IsResting, Has
<1>5. {} \subseteq net /\ c.count <= cst[r].count /\ c.waiting \subseteq cst[r].waiting
  BY <1>2, CountingFacts
<1> QED
  BY <1>2, <1>3, <1>4, <1>5, MovesFewer

\* The requests that wait are answered, the latest of each member, and forgotten.
LEMMA PendingAnswered ==
  ASSUME Counting, NEW r \in Correct, NEW c, NEW d, c.waiting = cst[r].waiting,
         Moves(r, d, StateAnswers(r, c, Latest(c.waiting)), {}), IsResting(d), d.waiting = {},
         d.currSeq = cst[r].currSeq, d.count = cst[r].count
  PROVE  CountStep
<1> DEFINE sends == StateAnswers(r, c, Latest(c.waiting))
<1>1. TypeInv /\ TypeInv' /\ Exchanges /\ Addressed /\ Resting
  BY DEF Counting
<1>2. \A x \in sends : \E q \in cst[r].waiting :
        x = Reply("ReplyState", r, q.from, q.cst, c.complete)
  BY DEF StateAnswers, Latest
<1>3. \A x \in sends : x.from = r
  BY <1>2 DEF Reply
<1> HIDE DEF sends
<1>4. Moves(r, d, sends, {})
  BY DEF sends
<1>5. Addressed' /\ Resting'
  BY <1>1, <1>3, <1>4, MovesRests
<1>6. \A x \in Open' : x \in Open \ {} \/ x \in sends
  <2>1. {} \subseteq net /\ d.waiting \subseteq cst[r].waiting
    OBVIOUS
  <2> QED
    BY <1>1, <1>4, <2>1, MovesOpenSame
<1>7. \A x \in Open' : x.kind = "Kept" => x.to # r
  <2> SUFFICES ASSUME NEW x \in Open', x.kind = "Kept", x.to = r
               PROVE  FALSE
    OBVIOUS
  <2>1. x \notin net'
    BY <1>1 DEF TypeInv, Requests, Replies, RequestKinds
  <2>2. PICK n \in Correct : \E q \in cst'[n].waiting : x = KeptRequest(q, n)
    BY <2>1 DEF Open
  <2>3. n = r
    BY <2>2 DEF KeptRequest
  <2> QED
    BY <1>4, <2>2, <2>3 DEF Moves
<1>8. \A s \in Correct : cst'[s].currSeq = cst[s].currSeq /\ cst'[s].count <= cst[s].count
  BY <1>1, <1>4, OpenType DEF Moves
<1>9. \A s \in Correct, n \in Node, x \in Open' :
        IsExchange(x, s, n) =>
          x \in Open \/ \E o \in Open \ Open' : IsExchange(o, s, n) /\ o.cst = x.cst
  <2> SUFFICES ASSUME NEW s \in Correct, NEW n \in Node, NEW x \in Open', IsExchange(x, s, n),
                      x \notin Open
               PROVE  \E o \in Open \ Open' : IsExchange(o, s, n) /\ o.cst = x.cst
    OBVIOUS
  <2>1. PICK q \in cst[r].waiting : x = Reply("ReplyState", r, q.from, q.cst, c.complete)
    BY <1>2, <1>6
  <2> DEFINE o == KeptRequest(q, r)
  <2>2. o.kind = "Kept" /\ o.from = q.from /\ o.to = r /\ o.cst = q.cst
    BY DEF KeptRequest
  <2>3. x.kind = "ReplyState" /\ x.from = r /\ x.to = q.from /\ x.cst = q.cst
    BY <2>1 DEF Reply
  <2>4. o \in Open
    BY <1>1, KeptOpen
  <2> HIDE DEF o
  <2>5. o \in Open \ Open'
    BY <1>7, <2>2, <2>4
  <2>6. IsExchange(o, s, n)
    BY <2>2, <2>3 DEF IsExchange, RequestKinds
  <2> QED
    BY ZenonT(60), <2>2, <2>3, <2>5, <2>6
<1>10. \A s \in Correct, n \in Node, m1, m2 \in Open' \ Open :
         IsExchange(m1, s, n) /\ IsExchange(m2, s, n) /\ m1.cst = m2.cst => m1 = m2
  <2> SUFFICES ASSUME NEW s \in Correct, NEW n \in Node, NEW m1 \in Open' \ Open,
                      NEW m2 \in Open' \ Open,
                      IsExchange(m1, s, n), IsExchange(m2, s, n), m1.cst = m2.cst
               PROVE  m1 = m2
    OBVIOUS
  <2>1. PICK q \in cst[r].waiting : m1 = Reply("ReplyState", r, q.from, q.cst, c.complete)
    BY <1>2, <1>6
  <2>2. PICK p \in cst[r].waiting : m2 = Reply("ReplyState", r, p.from, p.cst, c.complete)
    BY <1>2, <1>6
  <2>3. /\ m1.kind = "ReplyState" /\ m1.to = q.from /\ m1.cst = q.cst
        /\ m2.kind = "ReplyState" /\ m2.to = p.from /\ m2.cst = p.cst
    BY ZenonT(60), <2>1, <2>2 DEF Reply
  <2>4. q.from = s /\ p.from = s
    BY ZenonT(60), <2>3 DEF IsExchange, RequestKinds
  <2> QED
    BY ZenonT(60), <2>1, <2>2, <2>3, <2>4
<1>11. Exchanges'
  BY ZenonT(60), <1>1, <1>8, <1>9, <1>10, ExchangesMove
<1> QED
  BY <1>5, <1>11 DEF CountStep

LEMMA StateReceivedFromAppCount ==
  ASSUME Counting, NEW r \in Correct, StateReceivedFromApp(r)
  PROVE  CountStep
<1> DEFINE checkpoint == Checkpoint(cst[r].partial)
           c == [cst[r] EXCEPT !.partial = NoSeq, !.complete = checkpoint]
<1>1. IF c.phase = "WaitingCheckpoint"
        THEN Update(r, PendingDone(c), running[r], PendingAnswers(r, c), {})
        ELSE Update(r, c, running[r], {}, {})
  BY ZenonT(60) DEF StateReceivedFromApp
<1>2. checkpoint # NoCheckpoint
  <2>1. checkpoint.seq # 0
    BY DEF StateReceivedFromApp, NoSeq, Checkpoint
  <2>2. NoCheckpoint.seq = 0
    BY DEF NoCheckpoint
  <2> QED
    BY ZenonT(60), <2>1, <2>2
<1> HIDE DEF checkpoint
<1>3. /\ c.phase = cst[r].phase /\ c.currSeq = cst[r].currSeq /\ c.count = cst[r].count
      /\ c.waiting = cst[r].waiting /\ c.complete = checkpoint
  BY CountingFacts DEF CstType
<1> DEFINE d == [c EXCEPT !.phase = "Init", !.waiting = {}]
<1>4. /\ d.phase = "Init" /\ d.waiting = {} /\ d.currSeq = cst[r].currSeq
      /\ d.count = cst[r].count
  BY CountingFacts DEF CstType
<1> HIDE DEF c
<1>5. Has(c)
  BY <1>2, <1>3 DEF Has
<1>6. CASE c.phase = "WaitingCheckpoint"
  <2>1. Update(r, d, running[r], StateAnswers(r, c, Latest(c.waiting)), {})
    BY ZenonT(60), <1>1, <1>5, <1>6 DEF PendingDone, PendingAnswers
  <2> HIDE DEF d
  <2>2. Moves(r, d, StateAnswers(r, c, Latest(c.waiting)), {})
    BY ZenonT(60), <2>1, CountingFacts, UpdateMoves
  <2>3. IsResting(d)
    BY ZenonT(60), <1>4 DEF IsResting
  <2> QED
    BY ZenonT(60), <1>3, <1>4, <2>2, <2>3, PendingAnswered
<1>7. CASE c.phase # "WaitingCheckpoint"
  <2>1. Moves(r, c, {}, {})
    BY ZenonT(60), <1>1, <1>7, CountingFacts, UpdateMoves
  <2>2. IsResting(c)
    BY ZenonT(60), <1>3, <1>7, CountingFacts DEF IsResting
  <2>3. {} \subseteq net /\ c.waiting \subseteq cst[r].waiting /\ c.count <= cst[r].count
    BY <1>3, CountingFacts
  <2> QED
    BY <1>3, <2>1, <2>2, <2>3, MovesFewer
<1> QED
  BY <1>6, <1>7

LEMMA FaultyAnswersCount ==
  ASSUME Counting, NEW m \in net, FaultyAnswers(m)
  PROVE  CountStep
<1> DEFINE kept == UNION {{KeptRequest(q, n) : q \in cst[n].waiting} : n \in Correct}
<1>1. TypeInv /\ TypeInv' /\ Exchanges /\ Addressed /\ Resting
  BY DEF Counting
<1>2. m.to \in Faulty /\ cst' = cst
  BY ZenonT(60) DEF FaultyAnswers
<1>3. m.kind \in RequestKinds /\ m.from \in Correct
  BY <1>1, <1>2 DEF Addressed
<1>4. Open = net \cup kept /\ Open' = net' \cup kept
  BY <1>2 DEF Open
<1>5. m \in Open /\ m \notin kept
  <2>1. \A x \in kept : x.kind = "Kept"
    BY DEF KeptRequest
  <2> QED
    BY <1>3, <1>4, <2>1 DEF RequestKinds
<1> HIDE DEF kept
<1>6. Resting'
  BY <1>1, <1>2 DEF Resting
<1>7. \A s \in Correct : /\ cst'[s].currSeq = cst[s].currSeq
                         /\ cst'[s].count = cst[s].count /\ cst'[s].count <= cst[s].count
  BY <1>1, <1>2, OpenType
<1>8. CASE net' = net \ {m}
  <2>1. Addressed'
    BY <1>1, <1>8 DEF Addressed
  <2>2. Open' \subseteq Open
    BY ZenonT(60), <1>4, <1>8
  <2>3. Exchanges'
    BY ZenonT(60), <1>1, <1>7, <2>2, ExchangesShrink
  <2> QED
    BY <1>6, <2>1, <2>3 DEF CountStep
<1>9. ASSUME NEW checkpoint,
             net' = (net \ {m}) \cup
               {Reply(IF m.kind = "RequestState" THEN "ReplyState" ELSE "ReplyStateCid",
                      m.to, m.from, m.cst, checkpoint)}
      PROVE  CountStep
  <2> DEFINE a == Reply(IF m.kind = "RequestState" THEN "ReplyState" ELSE "ReplyStateCid",
                        m.to, m.from, m.cst, checkpoint)
  <2>1. a.kind \in ReplyKinds /\ a.from = m.to /\ a.to = m.from /\ a.cst = m.cst
    BY DEF Reply, ReplyKinds
  <2> HIDE DEF a
  <2>2. net' = (net \ {m}) \cup {a}
    BY <1>9 DEF a
  <2>3. Addressed'
    BY <1>1, <1>3, <2>1, <2>2, FaultyFinite DEF Addressed
  <2>4. m # a
    BY <1>3, <2>1 DEF RequestKinds, ReplyKinds
  <2>5. m \notin Open' /\ \A x \in Open' : x \in Open \/ x = a
    BY ZenonT(60), <1>4, <1>5, <2>2, <2>4
  <2>6. \A s \in Correct, n \in Node : IsExchange(a, s, n) => IsExchange(m, s, n)
    BY <1>3, <2>1 DEF IsExchange, RequestKinds, ReplyKinds
  <2>7. Exchanges'
    BY ZenonT(60), <1>1, <1>5, <1>7, <2>1, <2>5, <2>6, ExchangesReplace
  <2> QED
    BY <1>6, <2>3, <2>7 DEF CountStep
<1> QED
  BY ZenonT(60), <1>8, <1>9 DEF FaultyAnswers

-----------------------------------------------------------------------------
LEMMA CountInit ==
  ASSUME Init
  PROVE  CountInv
<1>1. TransferInv
  BY InitInv
<1>2. /\ \A m \in net : m.kind = "RequestState" /\ m.from \in Faulty /\ m.to \in Correct
      /\ \A r \in Correct : cst[r].waiting = {} /\ cst[r].phase = "Init" /\ cst[r].count = 0
  BY StateTransferAssumption DEF Init, Request
<1>3. Addressed
  BY <1>2, FaultyFinite DEF Addressed
<1>4. Resting
  BY <1>2 DEF Resting, IsResting
<1>5. Open = net
  BY ZenonT(60), <1>2 DEF Open
<1>6. \A r \in Correct, n \in Node, m \in Open : ~ IsExchange(m, r, n)
  BY <1>2, <1>5, FaultyFinite DEF IsExchange, ReplyKinds
<1>7. NumbersFresh /\ AskedOnce
  BY <1>6 DEF NumbersFresh, AskedOnce
<1>8. FewReplies
  <2> SUFFICES ASSUME NEW r \in Correct
               PROVE  cst[r].count + Cardinality(ToAnswer(Open, r, cst[r].currSeq))
                        <= Cardinality(Node \ {r})
    BY DEF FewReplies
  <2>1. ToAnswer(Open, r, cst[r].currSeq) = {}
    BY <1>6 DEF ToAnswer
  <2>2. Cardinality(ToAnswer(Open, r, cst[r].currSeq)) = 0
    BY <2>1, FS_EmptySet
  <2>3. cst[r].count = 0
    BY <1>2
  <2>4. Cardinality(Node \ {r}) \in Nat
    BY NodeFinite DEF Correct
  <2> QED
    BY <2>2, <2>3, <2>4
<1> QED
  BY <1>1, <1>3, <1>4, <1>7, <1>8 DEF CountInv, Exchanges

LEMMA CountNext ==
  ASSUME CountInv, [Next]_vars
  PROVE  CountInv'
<1>1. TransferInv'
  BY NextInv DEF CountInv
<1>2. Counting
  BY <1>1 DEF CountInv, TransferInv, Counting
<1>3. ASSUME NEW r \in Correct, RequestLatestState(r)
      PROVE  CountStep
  BY <1>2, <1>3, RequestLatestStateCount
<1>4. ASSUME NEW r \in Correct, NEW m \in net, Receive(r, m)
      PROVE  CountStep
  BY <1>2, <1>4, ReceiveRequestSeqCount, ReceiveRequestStateCount, ReceiveIdleCount,
     ReceiveOtherCount, ReceiveStateCidCount, ReceiveStateCount DEF Receive
<1>5. ASSUME NEW r \in Correct, AppStateRequested(r)
      PROVE  CountStep
  BY <1>2, <1>5, AppStateRequestedCount
<1>6. ASSUME NEW r \in Correct, StateReceivedFromApp(r)
      PROVE  CountStep
  BY <1>2, <1>6, StateReceivedFromAppCount
<1>7. ASSUME NEW m \in net, FaultyAnswers(m)
      PROVE  CountStep
  BY <1>2, <1>7, FaultyAnswersCount
<1>8. ASSUME UNCHANGED vars
      PROVE  CountStep
  <2>1. UNCHANGED <<cst, net>>
    BY <1>8 DEF vars
  <2>2. Addressed' /\ Resting' /\ Open' \subseteq Open
    BY <2>1 DEF CountInv, Addressed, Resting, Open
  <2>3. \A s \in Correct : cst'[s].currSeq = cst[s].currSeq /\ cst'[s].count <= cst[s].count
    BY <1>2, <2>1, OpenType DEF Counting
  <2>4. Exchanges'
    BY ZenonT(60), <1>2, <2>2, <2>3, ExchangesShrink DEF Counting
  <2> QED
    BY <2>2, <2>4 DEF CountStep
<1>9. CountStep
  BY ZenonT(60), <1>3, <1>4, <1>5, <1>6, <1>7, <1>8 DEF Next
<1> QED
  BY <1>1, <1>9 DEF CountInv, CountStep

LEMMA CountInvHolds == Spec => []CountInv
<1>1. Init => CountInv
  BY CountInit
<1>2. CountInv /\ [Next]_vars => CountInv'
  BY CountNext
<1> QED
  BY <1>1, <1>2, PTL DEF Spec

(***************************************************************************)
(* process_message() counts the replies to the current request and not who *)
(* sent them.  Still no member is counted twice: the counter stays below   *)
(* the number of members, for any number of them and of requests, whatever *)
(* order the replies to successive requests arrive in.                     *)
(***************************************************************************)
THEOREM CountsRepliesHolds == Spec => []CountsReplies
<1>1. CountInv => CountsReplies
  <2> SUFFICES ASSUME CountInv, NEW r \in Correct
               PROVE  cst[r].count < Cardinality(Node)
    BY DEF CountsReplies
  <2>1. TypeInv /\ Exchanges
    BY DEF CountInv, TransferInv
  <2>2. /\ cst[r].count \in Nat /\ cst[r].count <= cst[r].count
        /\ {} \subseteq ToAnswer(Open, r, cst[r].currSeq)
    BY <2>1, OpenType
  <2>3. cst[r].count + Cardinality({}) <= Cardinality(Node \ {r})
    BY ZenonT(60), <2>1, <2>2, FewerToAnswer
  <2>4. /\ Cardinality({}) = 0
        /\ Cardinality(Node) \in Nat /\ Cardinality(Node \ {r}) = Cardinality(Node) - 1
    BY FS_EmptySet, NodeFinite DEF Correct
  <2> QED
    BY <2>2, <2>3, <2>4
<1> QED
  BY <1>1, CountInvHolds, PTL

(***************************************************************************)
(* process_request_state() keeps a request only for want of a checkpoint:  *)
(* requests wait exactly in the phase WaitingCheckpoint, in which there is *)
(* none, whatever replies and requests arrive in between.                  *)
(***************************************************************************)
THEOREM WaitsForCheckpointOnlyHolds == Spec => []WaitsForCheckpointOnly
<1>1. CountInv => WaitsForCheckpointOnly
  BY DEF CountInv, Resting, IsResting, WaitsForCheckpointOnly
<1> QED
  BY <1>1, CountInvHolds, PTL
=============================================================================
