------------------------ MODULE ConsensusQueueProofs ------------------------
(***************************************************************************)
(* What waits in the queues of a Consensus struct: every message waits at  *)
(* the place of its own kind, view and instance; for any size of the       *)
(* window, any messages and any sequence of decisions, view changes and    *)
(* state transfers.                                                        *)
(*                                                                         *)
(* FiledInv adds that queues are sequences, that the TboQueue stands where *)
(* the window ends (WindowInv), and that messages in flight are well       *)
(* formed.  Installing a view sorts a queue of any length, and looks for   *)
(* the furthest instance in it; both are shown to do what is needed by the *)
(* least counterexample (LeastElement).                                    *)
(***************************************************************************)
EXTENDS ConsensusProofs, WellFoundedInduction

USE SMTT(120)

(***************************************************************************)
(* Least elements, which stand in for induction over the length of a       *)
(* sequence.                                                               *)
(***************************************************************************)
Below == {p \in Nat \X Nat : p[1] < p[2]}

LEMMA LeastElement ==
  ASSUME NEW T, T \subseteq Nat, T # {}
  PROVE  \E x \in T : \A y \in T : x <= y
<1>1. IsWellFoundedOn(Below, Nat)
  BY NatLessThanWellFounded DEF OpToRel, Below
<1>2. PICK x \in T : \A y \in T : ~ (<<y, x>> \in Below)
  BY ZenonT(60), <1>1, WFMin
<1>3. ASSUME NEW y \in T
      PROVE  x <= y
  <2>1. x \in Nat /\ y \in Nat /\ (y < x => <<y, x>> \in Below)
    BY DEF Below
  <2> QED
    BY <1>2, <2>1
<1> QED
  BY <1>3

(***************************************************************************)
(* Queues of messages.                                                     *)
(***************************************************************************)
\* q is a sequence of messages of kind k, view v and instance s.
Filed(q, k, v, s) ==
  \E S : q \in Seq(S) /\ \A m \in S : m.kind = k /\ m.view = v /\ m.seq = s

\* q is a sequence of messages of view v.
OfView(q, v) ==
  \E S : q \in Seq(S) /\ \A m \in S : m.kind \in Kinds /\ m.view = v /\ m.seq \in Nat

LEMMA FiledEmpty ==
  ASSUME NEW k, NEW v, NEW s
  PROVE  Filed(<< >>, k, v, s) /\ OfView(<< >>, v)
<1>1. PICK S : S = {}
  BY ZenonT(60)
<1>2. << >> \in Seq(S)
  OBVIOUS
<1>3. \A m \in S : FALSE
  BY <1>1
<1> QED
  BY ZenonT(60), <1>2, <1>3 DEF Filed, OfView

LEMMA AppendIn ==
  ASSUME NEW S, NEW q \in Seq(S), NEW m
  PROVE  Append(q, m) \in Seq(S \cup {m})
<1>1. q \in Seq(S \cup {m})
  OBVIOUS
<1> QED
  BY <1>1

LEMMA FiledAppend ==
  ASSUME NEW k, NEW v, NEW s, NEW q, Filed(q, k, v, s), NEW m,
         m.kind = k, m.view = v, m.seq = s
  PROVE  Filed(Append(q, m), k, v, s)
<1>1. PICK S : q \in Seq(S) /\ \A o \in S : o.kind = k /\ o.view = v /\ o.seq = s
  BY ZenonT(60) DEF Filed
<1>2. Append(q, m) \in Seq(S \cup {m})
  BY <1>1, AppendIn
<1>3. \A o \in S \cup {m} : o.kind = k /\ o.view = v /\ o.seq = s
  BY ZenonT(60), <1>1
<1> QED
  BY ZenonT(60), <1>2, <1>3 DEF Filed

LEMMA OfViewAppend ==
  ASSUME NEW v, NEW q, OfView(q, v), NEW m, m.kind \in Kinds, m.view = v, m.seq \in Nat
  PROVE  OfView(Append(q, m), v)
<1>1. PICK S : q \in Seq(S) /\ \A o \in S : o.kind \in Kinds /\ o.view = v /\ o.seq \in Nat
  BY ZenonT(60) DEF OfView
<1>2. Append(q, m) \in Seq(S \cup {m})
  BY <1>1, AppendIn
<1>3. \A o \in S \cup {m} : o.kind \in Kinds /\ o.view = v /\ o.seq \in Nat
  BY ZenonT(60), <1>1
<1> QED
  BY ZenonT(60), <1>2, <1>3 DEF OfView

LEMMA FiledTail ==
  ASSUME NEW k, NEW v, NEW s, NEW q, Filed(q, k, v, s), q # << >>
  PROVE  Filed(Tail(q), k, v, s) /\ Head(q).kind = k /\ Head(q).view = v /\ Head(q).seq = s
<1>1. PICK S : q \in Seq(S) /\ \A o \in S : o.kind = k /\ o.view = v /\ o.seq = s
  BY ZenonT(60) DEF Filed
<1>2. Tail(q) \in Seq(S) /\ Head(q) \in S
  BY <1>1
<1> QED
  BY ZenonT(60), <1>1, <1>2 DEF Filed

LEMMA FiledAll ==
  ASSUME NEW k, NEW v, NEW s, NEW q, Filed(q, k, v, s)
  PROVE  AllFor(q, k, v, s)
<1>1. PICK S : q \in Seq(S) /\ \A o \in S : o.kind = k /\ o.view = v /\ o.seq = s
  BY ZenonT(60) DEF Filed
<1>2. \A j \in DOMAIN q : q[j] \in S
  BY <1>1
<1> QED
  BY ZenonT(60), <1>1, <1>2 DEF AllFor

\* Queues for consecutive instances, and for consecutive views.
FiledQueues(queues, k, v, base) ==
  /\ Len(queues) \in Nat /\ queues = [i \in 1..Len(queues) |-> queues[i]]
  /\ \A i \in 1..Len(queues) : Filed(queues[i], k, v, base + i - 1)

FiledViews(queues, v) ==
  /\ Len(queues) \in Nat /\ queues = [i \in 1..Len(queues) |-> queues[i]]
  /\ \A i \in 1..Len(queues) : OfView(queues[i], v + i)

\* A sequence given by its elements.
LEMMA LenOf ==
  ASSUME NEW n \in Nat, NEW q, q = [j \in 1..n |-> q[j]]
  PROVE  Len(q) = n /\ q \in Seq({q[j] : j \in 1..n})
OBVIOUS

LEMMA PutIs ==
  ASSUME NEW queues, Len(queues) \in Nat, NEW i \in Nat \ {0}, NEW m
  PROVE  LET p == Put(queues, i, m)
             old(j) == IF j <= Len(queues) THEN queues[j] ELSE << >>
         IN  /\ Len(p) \in Nat /\ p = [j \in 1..Len(p) |-> p[j]]
             /\ \A j \in 1..Len(p) : \/ j = i /\ p[j] = Append(old(j), m)
                                     \/ j # i /\ p[j] = old(j)
<1> DEFINE n == Larger(Len(queues), i)
           old(j) == IF j <= Len(queues) THEN queues[j] ELSE << >>
           p == [j \in 1..n |-> IF j = i THEN Append(old(j), m) ELSE old(j)]
<1>1. n \in Nat
  BY DEF Larger
<1>2. Put(queues, i, m) = p
  BY DEF Put
<1> HIDE DEF n, old
<1>3. p = [j \in 1..n |-> p[j]]
  OBVIOUS
<1>4. \A j \in 1..n : \/ j = i /\ p[j] = Append(old(j), m)
                      \/ j # i /\ p[j] = old(j)
  BY ZenonT(60)
<1> HIDE DEF p
<1>5. Len(p) = n
  BY <1>1, <1>3, LenOf
<1> QED
  BY ZenonT(60), <1>1, <1>2, <1>3, <1>4, <1>5 DEF old

LEMMA DropIs ==
  ASSUME NEW queues, Len(queues) \in Nat, queues = [j \in 1..Len(queues) |-> queues[j]],
         NEW n \in Nat
  PROVE  LET p == DropQueues(queues, n)
         IN  /\ Len(p) \in Nat /\ p = [j \in 1..Len(p) |-> p[j]]
             /\ \A j \in 1..Len(p) : n + j \in 1..Len(queues) /\ p[j] = queues[n + j]
<1> DEFINE S == {queues[j] : j \in 1..Len(queues)}
           p == SubSeq(queues, n + 1, Len(queues))
           w == IF n + 1 <= Len(queues) THEN Len(queues) - n ELSE 0
<1>1. queues \in Seq(S)
  BY LenOf
<1>2. w \in Nat /\ \A j \in 1..w : n + j \in 1..Len(queues)
  OBVIOUS
<1>3. \A j \in (n + 1)..Len(queues) : queues[j] \in S
  OBVIOUS
<1> HIDE DEF S
<1>4. p \in Seq(S) /\ Len(p) = w /\ \A j \in 1..w : p[j] = queues[n + j]
  BY <1>1, <1>3
<1> HIDE DEF p, w
<1>5. p = [j \in 1..w |-> p[j]]
  BY <1>4
<1> QED
  BY ZenonT(60), <1>2, <1>4, <1>5 DEF DropQueues, p

(***************************************************************************)
(* What Sorted() selects: messages of the sequence, of that kind and       *)
(* instance.  Step(f, n) is the recursion Sorted is defined by.            *)
(***************************************************************************)
LEMMA SortedIs ==
  ASSUME NEW messages, Len(messages) \in Nat, NEW k, NEW seq
  PROVE  Sorted(messages, k, seq) \in
           Seq({messages[j] : j \in {i \in 1..Len(messages) :
                                       messages[i].kind = k /\ messages[i].seq = seq}})
<1> DEFINE N == Len(messages)
           Takes(n) == messages[n].kind = k /\ messages[n].seq = seq
           S == {messages[j] : j \in {i \in 1..N : Takes(i)}}
           Step(f, n) == IF n = 0 THEN << >>
                           ELSE IF Takes(n) THEN Append(f[n - 1], messages[n])
                                            ELSE f[n - 1]
           Fits(f, n) == f = [i \in 0..n |-> Step(f, i)]
<1>1. \A n \in 0..N : \E f : Fits(f, n)
  <2> DEFINE T == {n \in 0..N : ~ \E f : Fits(f, n)}
  <2> SUFFICES ASSUME T # {} PROVE FALSE
    BY ZenonT(60)
  <2> HIDE DEF Fits
  <2>1. T \subseteq Nat
    OBVIOUS
  <2>2. PICK x \in T : \A y \in T : x <= y
    <3> HIDE DEF T
    <3> QED
      BY ZenonT(60), <2>1, LeastElement
  <2>3. x \in 0..N /\ ~ \E f : Fits(f, x)
    BY ZenonT(60)
  <2>4. x # 0
    <3> DEFINE f == [i \in 0..0 |-> << >>]
    <3>1. \A i \in 0..0 : Step(f, i) = << >>
      OBVIOUS
    <3> HIDE DEF Step
    <3>2. Fits(f, 0)
      BY <3>1 DEF Fits
    <3> HIDE DEF f
    <3> QED
      BY ZenonT(60), <2>3, <3>2
  <2>5. x - 1 \in 0..N /\ x - 1 \notin T
    BY <2>2, <2>3, <2>4
  <2>6. PICK f : Fits(f, x - 1)
    BY ZenonT(60), <2>5
  <2> DEFINE g == [i \in 0..x |-> IF i = x THEN Step(f, x) ELSE f[i]]
  <2>7. ASSUME NEW i \in 0..x
        PROVE  g[i] = Step(g, i)
    <3>1. i # 0 => i - 1 \in 0..x /\ i - 1 # x
      BY <2>3
    <3>2. i # 0 => g[i - 1] = f[i - 1]
      <4> HIDE DEF Step
      <4> QED
        BY <3>1
    <3>3. i # x => f[i] = Step(f, i)
      <4>1. i # x => i \in 0..(x - 1)
        BY <2>3
      <4> HIDE DEF Step
      <4> QED
        BY ZenonT(60), <2>6, <4>1 DEF Fits
    <3>4. g[i] = IF i = x THEN Step(f, x) ELSE f[i]
      <4> HIDE DEF Step
      <4> QED
        OBVIOUS
    <3>5. g[i] = Step(f, i)
      <4> HIDE DEF Step, g
      <4> QED
        BY <3>3, <3>4
    <3> HIDE DEF g, Takes
    <3>6. Step(g, i) = Step(f, i)
      BY ZenonT(60), <3>2
    <3> QED
      BY <3>5, <3>6
  <2>8. g = [i \in 0..x |-> g[i]]
    <3> HIDE DEF Step
    <3> QED
      OBVIOUS
  <2> HIDE DEF g, Step
  <2>9. Fits(g, x)
    BY <2>7, <2>8 DEF Fits
  <2> QED
    BY ZenonT(60), <2>3, <2>9
<1> DEFINE sorted == CHOOSE f : Fits(f, N)
<1>2. Fits(sorted, N)
  <2>1. N \in 0..N
    OBVIOUS
  <2> HIDE DEF Fits
  <2> QED
    BY ZenonT(60), <1>1, <2>1
<1>3. Sorted(messages, k, seq) = sorted[N]
  BY ZenonT(60) DEF Sorted
<1> HIDE DEF sorted
<1>4. \A n \in 0..N : sorted[n] = Step(sorted, n)
  <2> HIDE DEF Step
  <2> QED
    BY ZenonT(60), <1>2
<1>5. \A n \in 0..N : sorted[n] \in Seq(S)
  <2> DEFINE T == {n \in 0..N : sorted[n] \notin Seq(S)}
  <2> SUFFICES ASSUME T # {} PROVE FALSE
    BY ZenonT(60)
  <2>1. T \subseteq Nat
    OBVIOUS
  <2>2. PICK x \in T : \A y \in T : x <= y
    <3> HIDE DEF T
    <3> QED
      BY ZenonT(60), <2>1, LeastElement
  <2>3. x \in 0..N /\ sorted[x] \notin Seq(S)
    BY ZenonT(60)
  <2>4. sorted[x] = Step(sorted, x)
    BY ZenonT(60), <1>4, <2>3
  <2>5. x # 0
    <3> HIDE DEF S
    <3> QED
      BY <2>3, <2>4
  <2>6. x - 1 \in 0..N /\ x - 1 \notin T /\ x \in 1..N
    BY <2>2, <2>3, <2>5
  <2>7. sorted[x - 1] \in Seq(S)
    BY ZenonT(60), <2>6
  <2>8. Takes(x) => messages[x] \in S
    BY ZenonT(60), <2>6
  <2> HIDE DEF S, T, Takes
  <2> QED
    BY <2>3, <2>4, <2>5, <2>7, <2>8
<1>6. N \in 0..N
  OBVIOUS
<1> HIDE DEF S
<1>7. Sorted(messages, k, seq) \in Seq(S)
  BY ZenonT(60), <1>3, <1>5, <1>6
<1> QED
  BY <1>7 DEF S

\* A sequence of integers is bounded, and a bounded set has a highest element.
LEMMA Bounded ==
  ASSUME NEW N \in Nat, NEW f, \A j \in 1..N : f[j] \in Int
  PROVE  \E b \in Nat : \A j \in 1..N : f[j] <= b
<1> DEFINE Bounds(n, b) == \A j \in 1..n : f[j] <= b
           T == {n \in 0..N : ~ \E b \in Nat : Bounds(n, b)}
<1>1. ASSUME T # {} PROVE FALSE
  <2>1. T \subseteq Nat
    OBVIOUS
  <2>2. PICK x \in T : \A y \in T : x <= y
    <3> HIDE DEF T
    <3> QED
      BY ZenonT(60), <1>1, <2>1, LeastElement
  <2>3. x \in 0..N /\ ~ \E b \in Nat : Bounds(x, b)
    BY ZenonT(60)
  <2>4. x # 0
    <3>1. Bounds(0, 0)
      OBVIOUS
    <3> HIDE DEF Bounds
    <3> QED
      BY <2>3, <3>1
  <2>5. x - 1 \in 0..N /\ x - 1 \notin T /\ x \in 1..N
    <3>1. x \in 0..N
      BY ZenonT(60), <2>3
    <3> HIDE DEF T
    <3> QED
      BY <2>2, <2>4, <3>1
  <2>6. PICK b \in Nat : Bounds(x - 1, b)
    BY ZenonT(60), <2>5
  <2>7. PICK a \in Nat : b <= a /\ f[x] <= a
    <3>1. f[x] \in Int
      BY <2>5
    <3>2. CASE f[x] <= b
      BY <3>2
    <3>3. CASE f[x] > b
      <4>1. f[x] \in Nat /\ b <= f[x]
        BY <3>1, <3>3
      <4> QED
        BY <4>1
    <3> QED
      BY <3>1, <3>2, <3>3
  <2>8. Bounds(x, a)
    <3> SUFFICES ASSUME NEW j \in 1..x PROVE f[j] <= a
      OBVIOUS
    <3>1. CASE j = x
      BY <2>7, <3>1
    <3>2. CASE j # x
      <4>1. j \in 1..(x - 1) /\ j \in 1..N
        BY <2>5, <3>2
      <4>2. f[j] <= b /\ f[j] \in Int
        BY ZenonT(60), <2>6, <4>1
      <4> QED
        BY <2>7, <4>2
    <3> QED
      BY <3>1, <3>2
  <2> HIDE DEF Bounds
  <2> QED
    BY <2>3, <2>8
<1>2. N \in 0..N /\ N \notin T
  <2> HIDE DEF T
  <2> QED
    BY <1>1
<1> HIDE DEF Bounds
<1>3. \E b \in Nat : Bounds(N, b)
  BY ZenonT(60), <1>2
<1> QED
  BY <1>3 DEF Bounds

LEMMA HighestIs ==
  ASSUME NEW S, S \subseteq Nat, NEW b \in Nat, \A x \in S : x <= b
  PROVE  Highest(S) \in Nat
<1>1. CASE S = {}
  BY <1>1 DEF Highest
<1>2. CASE S # {}
  <2> DEFINE U == {u \in Nat : \A x \in S : x <= u}
  <2>1. U \subseteq Nat /\ U # {}
    OBVIOUS
  <2>2. PICK u \in U : \A y \in U : u <= y
    <3> HIDE DEF U
    <3> QED
      BY ZenonT(60), <2>1, LeastElement
  <2>3. u \in Nat /\ \A x \in S : x <= u
    OBVIOUS
  <2>4. u \in S
    <3> SUFFICES ASSUME u \notin S PROVE FALSE
      OBVIOUS
    <3>1. PICK x \in S : x \in Nat
      BY ZenonT(60), <1>2
    <3>2. u - 1 \in Nat
      BY <2>3, <3>1
    <3>3. \A y \in S : y <= u - 1
      BY <2>3
    <3>4. u - 1 \in U
      BY <3>2, <3>3
    <3> HIDE DEF U
    <3> QED
      BY <2>2, <2>3, <3>4
  <2>5. \E x \in S : \A y \in S : y <= x
    <3>1. \A y \in S : y <= u
      BY <2>3
    <3> HIDE DEF U
    <3> QED
      BY ZenonT(60), <2>4, <3>1
  <2>6. Highest(S) = CHOOSE x \in S : \A y \in S : y <= x
    BY ZenonT(60), <1>2 DEF Highest
  <2>7. Highest(S) \in S
    <3> DEFINE h == CHOOSE x \in S : \A y \in S : y <= x
    <3>1. h \in S
      BY ZenonT(60), <2>5
    <3>2. Highest(S) = h
      BY ZenonT(60), <2>6
    <3> HIDE DEF h
    <3> QED
      BY <3>1, <3>2
  <2> QED
    BY ZenonT(60), <2>7
<1> QED
  BY <1>1, <1>2

(***************************************************************************)
(* The messages that a struct keeps are in the queues they belong to.      *)
(***************************************************************************)
FiledDecision(d, v, s) == \A k \in Kinds : Filed(d.queue[k], k, v, s)

IsMessage(m) == m.kind \in Kinds /\ m.view \in Nat /\ m.seq \in Nat

IsFiled(c) ==
  /\ c.view.seq \in Nat
  /\ \A i \in 1..Watermark : FiledDecision(c.decisions[i], c.view.seq, c.seqNo + i - 1)
  /\ \A k \in Kinds : FiledQueues(c.tbo.queue[k], k, c.view.seq, c.seqNo + Watermark)
  /\ c.tbo.queue = [k \in Kinds |-> c.tbo.queue[k]]
  /\ FiledViews(c.viewQueue, c.view.seq)

FiledInv ==
  /\ WakeInv /\ IsFiled(consensus) /\ consensus.guard.view.seq \in Nat
  /\ \A m \in net : IsMessage(m)

-----------------------------------------------------------------------------
LEMMA InitDecisionFiled ==
  ASSUME NEW v, NEW s, NEW view, NEW queue, \A k \in Kinds : Filed(queue[k], k, v, s)
  PROVE  FiledDecision(InitDecision(s, view, queue), v, s)
<1>1. InitDecision(s, view, queue).queue = queue
  BY ZenonT(60) DEF InitDecision
<1> QED
  BY ZenonT(60), <1>1 DEF FiledDecision

LEMMA SameQueueFiled ==
  ASSUME NEW d, NEW v, NEW s, FiledDecision(d, v, s), NEW e, e.queue = d.queue
  PROVE  FiledDecision(e, v, s)
BY ZenonT(60) DEF FiledDecision

LEMMA EnqueueFiled ==
  ASSUME NEW d, IsDecision(d), Awake(d), NEW v, NEW s, FiledDecision(d, v, s),
         NEW m, m.kind \in Kinds, m.view = v, m.seq = s
  PROVE  FiledDecision(Enqueue(d, m), v, s)
<1> DEFINE q == [d.queue EXCEPT ![m.kind] = Append(d.queue[m.kind], m)]
           e == [d EXCEPT !.queue = q, !.getQueue = TRUE]
<1>1. Enqueue(d, m) = e
  BY DEF Enqueue
<1>2. ASSUME NEW k \in Kinds
      PROVE  Filed(q[k], k, v, s)
  <2>1. d.queue = [o \in Kinds |-> d.queue[o]]
    BY ZenonT(60) DEF Awake
  <2>2. q[k] = IF k = m.kind THEN Append(d.queue[k], m) ELSE d.queue[k]
    BY <2>1
  <2> HIDE DEF q
  <2>3. Filed(d.queue[k], k, v, s)
    BY ZenonT(60) DEF FiledDecision
  <2> QED
    BY <2>2, <2>3, FiledAppend
<1> HIDE DEF q
<1>3. e.queue = q
  BY DEF IsDecision
<1> HIDE DEF e
<1> QED
  BY ZenonT(60), <1>1, <1>2, <1>3 DEF FiledDecision

LEMMA PollQueues ==
  ASSUME NEW d, IsDecision(d)
  PROVE  /\ AfterTryPropose(d).queue = d.queue
         /\ AfterRecv(d).queue = d.queue
         /\ SkipInitPhase(d).queue = d.queue
<1>1. AfterTryPropose(d).queue = d.queue
  BY DEF AfterTryPropose, IsDecision
<1>2. AfterRecv(d).queue = d.queue
  BY ZenonT(60) DEF AfterRecv, IsDecision
<1>3. SkipInitPhase(d).queue = d.queue
  BY ZenonT(60) DEF SkipInitPhase, IsDecision
<1> QED
  BY <1>1, <1>2, <1>3

LEMMA AfterNextMessageFiled ==
  ASSUME NEW d, IsDecision(d), Awake(d), NEW v, NEW s, FiledDecision(d, v, s), PollFindsMessage(d)
  PROVE  /\ FiledDecision(AfterNextMessage(d), v, s)
         /\ NextMessage(d).kind \in Kinds /\ NextMessage(d).view = v /\ NextMessage(d).seq = s
<1> DEFINE a == AwaitedKind(d.phase)
           q == [d.queue EXCEPT ![a] = Tail(d.queue[a])]
           e == [d EXCEPT !.queue = q]
<1>1. a \in Kinds /\ d.queue[a] # << >>
  BY ZenonT(60), AwaitedIs DEF PollFindsMessage
<1>2. AfterNextMessage(d) = e /\ NextMessage(d) = Head(d.queue[a])
  BY DEF AfterNextMessage, NextMessage
<1> HIDE DEF a
<1>3. d.queue = [o \in Kinds |-> d.queue[o]]
  BY ZenonT(60) DEF Awake
<1>4. /\ Filed(Tail(d.queue[a]), a, v, s) /\ Head(d.queue[a]).kind = a
      /\ Head(d.queue[a]).view = v /\ Head(d.queue[a]).seq = s
  <2>1. Filed(d.queue[a], a, v, s)
    BY ZenonT(60), <1>1 DEF FiledDecision
  <2> QED
    BY <1>1, <2>1, FiledTail
<1>5. ASSUME NEW k \in Kinds
      PROVE  Filed(q[k], k, v, s)
  <2>1. q[k] = IF k = a THEN Tail(d.queue[k]) ELSE d.queue[k]
    BY <1>3
  <2> HIDE DEF q
  <2>2. Filed(d.queue[k], k, v, s)
    BY ZenonT(60) DEF FiledDecision
  <2> QED
    BY <1>4, <2>1, <2>2
<1> HIDE DEF q
<1>6. e.queue = q
  BY DEF IsDecision
<1> HIDE DEF e
<1>7. FiledDecision(e, v, s)
  BY ZenonT(60), <1>5, <1>6 DEF FiledDecision
<1> QED
  BY <1>1, <1>2, <1>4, <1>7
-----------------------------------------------------------------------------
(***************************************************************************)
(* The operations of the struct misfile nothing.                           *)
(***************************************************************************)
LEMMA FiledPut ==
  ASSUME NEW c, IsWindow(c), IsFiled(c), NEW i \in 1..Watermark,
         NEW d, FiledDecision(d, c.view.seq, c.seqNo + i - 1),
         NEW e, e.decisions = [c.decisions EXCEPT ![i] = d], e.seqNo = c.seqNo,
         e.view = c.view, e.tbo = c.tbo, e.viewQueue = c.viewQueue
  PROVE  IsFiled(e)
<1>1. ASSUME NEW j \in 1..Watermark
      PROVE  FiledDecision(e.decisions[j], c.view.seq, c.seqNo + j - 1)
  <2>1. e.decisions[j] = IF j = i THEN d ELSE c.decisions[j]
    BY DEF IsWindow, AreDecisions
  <2>2. FiledDecision(c.decisions[j], c.view.seq, c.seqNo + j - 1)
    BY ZenonT(60) DEF IsFiled
  <2> QED
    BY <2>1, <2>2
<1> QED
  BY ZenonT(60), <1>1 DEF IsFiled

LEMMA FiledKept ==
  ASSUME NEW c, IsFiled(c),
         NEW e, e.decisions = c.decisions, e.seqNo = c.seqNo,
         e.view = c.view, e.tbo = c.tbo, e.viewQueue = c.viewQueue
  PROVE  IsFiled(e)
BY ZenonT(60) DEF IsFiled

LEMMA PutFiled ==
  ASSUME NEW queues, NEW k, NEW v, NEW base \in Int, FiledQueues(queues, k, v, base),
         NEW i \in Nat \ {0}, NEW m, m.kind = k, m.view = v, m.seq = base + i - 1
  PROVE  FiledQueues(Put(queues, i, m), k, v, base)
<1> DEFINE p == Put(queues, i, m)
           old(j) == IF j <= Len(queues) THEN queues[j] ELSE << >>
<1>1. Len(queues) \in Nat
  BY ZenonT(60) DEF FiledQueues
<1>2. /\ Len(p) \in Nat /\ p = [j \in 1..Len(p) |-> p[j]]
      /\ \A j \in 1..Len(p) : \/ j = i /\ p[j] = Append(old(j), m)
                              \/ j # i /\ p[j] = old(j)
  BY <1>1, PutIs
<1> HIDE DEF p
<1>3. ASSUME NEW j \in 1..Len(p)
      PROVE  Filed(old(j), k, v, base + j - 1)
  <2>1. CASE j <= Len(queues)
    <3>1. j \in 1..Len(queues)
      BY <1>1, <1>2, <2>1
    <3> QED
      BY ZenonT(60), <2>1, <3>1 DEF FiledQueues
  <2>2. CASE ~ (j <= Len(queues))
    BY ZenonT(60), <2>2, FiledEmpty
  <2> QED
    BY <2>1, <2>2
<1> HIDE DEF old
<1>4. ASSUME NEW j \in 1..Len(p)
      PROVE  Filed(p[j], k, v, base + j - 1)
  <2>1. CASE j = i /\ p[j] = Append(old(j), m)
    BY <1>3, <2>1, FiledAppend
  <2>2. CASE j # i /\ p[j] = old(j)
    BY <1>3, <2>2
  <2> QED
    BY ZenonT(60), <1>2, <2>1, <2>2
<1>5. FiledQueues(p, k, v, base)
  BY ZenonT(60), <1>2, <1>4 DEF FiledQueues
<1> QED
  BY <1>5 DEF p

LEMMA PutOfView ==
  ASSUME NEW queues, NEW v, FiledViews(queues, v),
         NEW i \in Nat \ {0}, NEW m, m.kind \in Kinds, m.view = v + i, m.seq \in Nat
  PROVE  FiledViews(Put(queues, i, m), v)
<1> DEFINE p == Put(queues, i, m)
           old(j) == IF j <= Len(queues) THEN queues[j] ELSE << >>
<1>1. Len(queues) \in Nat
  BY ZenonT(60) DEF FiledViews
<1>2. /\ Len(p) \in Nat /\ p = [j \in 1..Len(p) |-> p[j]]
      /\ \A j \in 1..Len(p) : \/ j = i /\ p[j] = Append(old(j), m)
                              \/ j # i /\ p[j] = old(j)
  BY <1>1, PutIs
<1> HIDE DEF p
<1>3. ASSUME NEW j \in 1..Len(p)
      PROVE  OfView(old(j), v + j)
  <2>1. CASE j <= Len(queues)
    <3>1. j \in 1..Len(queues)
      BY <1>1, <1>2, <2>1
    <3> QED
      BY ZenonT(60), <2>1, <3>1 DEF FiledViews
  <2>2. CASE ~ (j <= Len(queues))
    BY ZenonT(60), <2>2, FiledEmpty
  <2> QED
    BY <2>1, <2>2
<1> HIDE DEF old
<1>4. ASSUME NEW j \in 1..Len(p)
      PROVE  OfView(p[j], v + j)
  <2>1. CASE j = i /\ p[j] = Append(old(j), m)
    BY <1>3, <2>1, OfViewAppend
  <2>2. CASE j # i /\ p[j] = old(j)
    BY <1>3, <2>2
  <2> QED
    BY ZenonT(60), <1>2, <2>1, <2>2
<1>5. FiledViews(p, v)
  BY ZenonT(60), <1>2, <1>4 DEF FiledViews
<1> QED
  BY <1>5 DEF p

LEMMA DropFiled ==
  ASSUME NEW queues, NEW k, NEW v, NEW base \in Int, FiledQueues(queues, k, v, base), NEW n \in Nat
  PROVE  FiledQueues(DropQueues(queues, n), k, v, base + n)
<1> DEFINE p == DropQueues(queues, n)
<1>1. /\ Len(p) \in Nat /\ p = [j \in 1..Len(p) |-> p[j]]
      /\ \A j \in 1..Len(p) : n + j \in 1..Len(queues) /\ p[j] = queues[n + j]
  BY ZenonT(60), DropIs DEF FiledQueues
<1> HIDE DEF p
<1>2. ASSUME NEW j \in 1..Len(p)
      PROVE  Filed(p[j], k, v, (base + n) + j - 1)
  <2>1. n + j \in 1..Len(queues) /\ p[j] = queues[n + j]
    BY ZenonT(60), <1>1
  <2>2. Filed(queues[n + j], k, v, base + (n + j) - 1)
    BY ZenonT(60), <2>1 DEF FiledQueues
  <2>3. base + (n + j) - 1 = (base + n) + j - 1
    BY <1>1
  <2> QED
    BY <2>1, <2>2, <2>3
<1>3. FiledQueues(p, k, v, base + n)
  BY ZenonT(60), <1>1, <1>2 DEF FiledQueues
<1> QED
  BY <1>3 DEF p

LEMMA DropOfView ==
  ASSUME NEW queues, NEW v \in Nat, FiledViews(queues, v), NEW n \in Nat
  PROVE  FiledViews(DropQueues(queues, n), v + n)
<1> DEFINE p == DropQueues(queues, n)
<1>1. /\ Len(p) \in Nat /\ p = [j \in 1..Len(p) |-> p[j]]
      /\ \A j \in 1..Len(p) : n + j \in 1..Len(queues) /\ p[j] = queues[n + j]
  BY ZenonT(60), DropIs DEF FiledViews
<1> HIDE DEF p
<1>2. ASSUME NEW j \in 1..Len(p)
      PROVE  OfView(p[j], (v + n) + j)
  <2>1. n + j \in 1..Len(queues) /\ p[j] = queues[n + j]
    BY ZenonT(60), <1>1
  <2>2. OfView(queues[n + j], v + (n + j))
    BY ZenonT(60), <2>1 DEF FiledViews
  <2>3. v + (n + j) = (v + n) + j
    BY <1>1
  <2> QED
    BY <2>1, <2>2, <2>3
<1>3. FiledViews(p, v + n)
  BY ZenonT(60), <1>1, <1>2 DEF FiledViews
<1> QED
  BY <1>3 DEF p

LEMMA FrontFiled ==
  ASSUME NEW tbo, NEW k \in Kinds, NEW v, NEW base \in Int,
         FiledQueues(tbo.queue[k], k, v, base), NEW i \in Nat \ {0}
  PROVE  Filed(Front(tbo, i)[k], k, v, base + i - 1)
<1>1. Front(tbo, i)[k] = IF i <= Len(tbo.queue[k]) THEN tbo.queue[k][i] ELSE << >>
  BY DEF Front
<1>2. CASE i <= Len(tbo.queue[k])
  <2>1. Len(tbo.queue[k]) \in Nat
    BY ZenonT(60) DEF FiledQueues
  <2>2. i \in 1..Len(tbo.queue[k])
    BY <1>2, <2>1
  <2>3. Front(tbo, i)[k] = tbo.queue[k][i]
    BY <1>1, <1>2
  <2> QED
    BY ZenonT(60), <2>2, <2>3 DEF FiledQueues
<1>3. CASE ~ (i <= Len(tbo.queue[k]))
  <2>1. Front(tbo, i)[k] = << >>
    BY <1>1, <1>3
  <2> QED
    BY <2>1, FiledEmpty
<1> QED
  BY <1>2, <1>3

LEMMA StoreForLaterFiled ==
  ASSUME NEW c, IsWindow(c), IsFiled(c), NEW m, IsMessage(m)
  PROVE  IsFiled(StoreForLater(c, m))
<1> DEFINE e == StoreForLater(c, m)
           v == c.view.seq
<1>1. /\ e.decisions = c.decisions /\ e.seqNo = c.seqNo /\ e.view = c.view
      /\ \/ e.tbo = c.tbo /\ e.viewQueue = c.viewQueue
         \/ /\ FromLaterView(c, m) /\ e.tbo = c.tbo
            /\ e.viewQueue = Put(c.viewQueue, m.view - v, m)
         \/ /\ BeyondWindow(c, m) /\ e.tbo = TboQueue(c.tbo, m)
            /\ e.viewQueue = c.viewQueue
  BY StoreForLaterShape
<1> HIDE DEF e
<1>2. /\ v \in Nat /\ FiledViews(c.viewQueue, v)
      /\ \A k \in Kinds : FiledQueues(c.tbo.queue[k], k, v, c.seqNo + Watermark)
      /\ c.tbo.queue = [k \in Kinds |-> c.tbo.queue[k]]
      /\ \A i \in 1..Watermark : FiledDecision(c.decisions[i], v, c.seqNo + i - 1)
  BY ZenonT(60) DEF IsFiled
<1>3. m.kind \in Kinds /\ m.view \in Nat /\ m.seq \in Nat
  BY DEF IsMessage
<1>4. CASE e.tbo = c.tbo /\ e.viewQueue = c.viewQueue
  BY <1>1, <1>4, FiledKept DEF e
<1>5. CASE FromLaterView(c, m) /\ e.tbo = c.tbo /\ e.viewQueue = Put(c.viewQueue, m.view - v, m)
  <2> DEFINE i == m.view - v
  <2>1. i \in Nat \ {0} /\ m.view = v + i
    BY <1>2, <1>3, <1>5 DEF FromLaterView
  <2> HIDE DEF i
  <2>2. FiledViews(Put(c.viewQueue, i, m), v)
    BY <1>2, <1>3, <2>1, PutOfView
  <2>3. FiledViews(e.viewQueue, v)
    BY <1>5, <2>2 DEF i
  <2> QED
    BY ZenonT(60), <1>1, <1>2, <1>5, <2>3 DEF IsFiled, e
<1>6. CASE BeyondWindow(c, m) /\ e.tbo = TboQueue(c.tbo, m) /\ e.viewQueue = c.viewQueue
  <2> DEFINE base == c.seqNo + Watermark
             i == m.seq - BaseSeq(c.tbo) + 1
             q == c.tbo.queue[m.kind]
             p == [c.tbo.queue EXCEPT ![m.kind] = Put(q, i, m)]
             t == [c.tbo EXCEPT !.queue = p]
  <2>1. BaseSeq(c.tbo) = base /\ base \in Nat
    BY WatermarkNat DEF BaseSeq, IsWindow
  <2>2. Len(c.decisions) = Watermark
    BY WatermarkNat DEF IsWindow, AreDecisions
  <2>3. m.seq >= base /\ m.view = v
    <3>1. m.view = v /\ m.seq - c.seqNo >= Watermark
      BY ZenonT(60), <1>6, <2>2 DEF BeyondWindow
    <3>2. c.seqNo \in Nat
      BY DEF IsWindow
    <3> QED
      BY <1>3, <3>1, <3>2, WatermarkNat
  <2>4. i \in Nat \ {0} /\ m.seq = base + i - 1 /\ ~ (m.seq < BaseSeq(c.tbo))
    <3> HIDE DEF base
    <3> QED
      BY <1>3, <2>1, <2>3
  <2>5. TboQueue(c.tbo, m) = t
    BY <2>4 DEF TboQueue
  <2> HIDE DEF i, base
  <2>6. FiledQueues(Put(q, i, m), m.kind, v, base)
    <3>1. FiledQueues(q, m.kind, v, base)
      BY ZenonT(60), <1>2, <1>3 DEF base
    <3>2. base \in Int
      BY <2>1
    <3> HIDE DEF q
    <3> QED
      BY <2>3, <2>4, <3>1, <3>2, PutFiled
  <2>7. \A k \in Kinds : p[k] = IF k = m.kind THEN Put(q, i, m) ELSE c.tbo.queue[k]
    <3> HIDE DEF q
    <3> QED
      BY <1>2
  <2>8. p = [k \in Kinds |-> p[k]]
    <3> HIDE DEF q
    <3> QED
      BY ZenonT(60), <1>2, UpdatedShape
  <2> HIDE DEF p
  <2>9. t.queue = p
    BY DEF IsWindow, IsTbo
  <2> HIDE DEF t
  <2>10. \A k \in Kinds : FiledQueues(e.tbo.queue[k], k, v, base)
    <3> SUFFICES ASSUME NEW k \in Kinds PROVE FiledQueues(p[k], k, v, base)
      BY ZenonT(60), <1>6, <2>5, <2>9
    <3>1. p[k] = IF k = m.kind THEN Put(q, i, m) ELSE c.tbo.queue[k]
      BY ZenonT(60), <2>7
    <3>2. FiledQueues(c.tbo.queue[k], k, v, base)
      BY ZenonT(60), <1>2 DEF base
    <3> HIDE DEF q
    <3> QED
      BY <2>6, <3>1, <3>2
  <2>11. e.tbo.queue = [k \in Kinds |-> e.tbo.queue[k]]
    BY ZenonT(60), <1>6, <2>5, <2>8, <2>9
  <2> QED
    BY ZenonT(60), <1>1, <1>2, <1>6, <2>10, <2>11 DEF IsFiled, e, base
<1> QED
  BY ZenonT(60), <1>1, <1>4, <1>5, <1>6

LEMMA AfterAcceptQueue ==
  ASSUME NEW d, IsDecision(d), NEW m, NEW view
  PROVE  AfterAccept(d, m, view).queue = d.queue
<1> DEFINE e == Accept(d, m)
           f == [e EXCEPT !.phase = FollowingPhase(d.phase),
                          !.received = 0,
                          !.getQueue = IF d.phase = "Committing" THEN @ ELSE TRUE]
           g == [e EXCEPT !.received = @ + 1]
<1>1. IsDecision(e) /\ e.queue = d.queue
  <2>1. CASE m.kind = "PrePrepare"
    BY <2>1 DEF Accept, IsDecision
  <2>2. CASE m.kind = "Prepare"
    BY <2>2 DEF Accept, IsDecision
  <2>3. CASE m.kind \notin {"PrePrepare", "Prepare"}
    BY <2>3 DEF Accept, IsDecision
  <2> QED
    BY <2>1, <2>2, <2>3
<1>2. AfterAccept(d, m, view) \in {f, g}
  BY DEF AfterAccept
<1> HIDE DEF e
<1>3. f.queue = d.queue
  BY ZenonT(60), <1>1 DEF IsDecision
<1>4. g.queue = d.queue
  BY <1>1 DEF IsDecision
<1> QED
  BY ZenonT(60), <1>2, <1>3, <1>4

LEMMA InstanceFiled ==
  ASSUME NEW c, IsWindow(c), IsAwake(c), IsFiled(c), NEW i \in 1..Watermark
  PROVE  /\ IsDecision(c.decisions[i]) /\ Awake(c.decisions[i])
         /\ FiledDecision(c.decisions[i], c.view.seq, c.seqNo + i - 1)
BY ZenonT(60) DEF IsAwake, IsFiled, IsWindow, AreDecisions

LEMMA QueueFiled ==
  ASSUME NEW c, IsWindow(c), IsAwake(c), IsFiled(c), NEW m, IsMessage(m)
  PROVE  IsFiled(Queue(c, m))
<1>1. CASE InWindow(c, m)
  <2> DEFINE i == Position(c, m.seq)
             d == Enqueue(c.decisions[i], m)
             signals == c.signalled \cup {m.seq}
             e == [c EXCEPT !.decisions[i] = d, !.signalled = signals]
  <2>1. i \in 1..Watermark /\ m.seq = c.seqNo + i - 1 /\ m.view = c.view.seq /\ m.kind \in Kinds
    BY <1>1, AddresseeIs, WatermarkNat DEF Position, IsWindow, InWindow, IsMessage
  <2>2. FiledDecision(d, c.view.seq, c.seqNo + i - 1)
    <3> HIDE DEF i
    <3> QED
      BY ZenonT(60), <2>1, InstanceFiled, EnqueueFiled
  <2>3. Queue(c, m) = e
    <3> HIDE DEF i
    <3>1. Queue(c, m) = Signal([c EXCEPT !.decisions[i] = d], m.seq)
      BY <1>1 DEF Queue, i
    <3> HIDE DEF d
    <3> QED
      BY <3>1 DEF Signal, IsWindow, IsConsensusStruct
  <2> HIDE DEF i, d
  <2>4. /\ e.decisions = [c.decisions EXCEPT ![i] = d] /\ e.seqNo = c.seqNo
        /\ e.view = c.view /\ e.tbo = c.tbo /\ e.viewQueue = c.viewQueue
    BY PutShape
  <2> HIDE DEF e
  <2>5. IsFiled(e)
    BY ZenonT(60), <2>1, <2>2, <2>4, FiledPut
  <2> QED
    BY <2>3, <2>5
<1>2. CASE ~ InWindow(c, m)
  <2>1. Queue(c, m) = StoreForLater(c, m)
    BY <1>2 DEF Queue
  <2> QED
    BY <2>1, StoreForLaterFiled
<1> QED
  BY <1>1, <1>2

LEMMA ProcessedFiled ==
  ASSUME NEW c, IsWindow(c), IsAwake(c), IsFiled(c), NEW m, IsMessage(m)
  PROVE  IsFiled(Processed(c, m)) /\ \A o \in Votes(c, m) : IsMessage(o)
<1> DEFINE d == AddresseeOf(c, m)
           i == Position(c, m.seq)
           woken == IF VotesSent(d, m, c.view, Self) # {} THEN {d.seq} ELSE {}
           queued == [c EXCEPT !.decisions[i] = Enqueue(d, m), !.signalled = c.signalled \cup {d.seq}]
           accepted == [c EXCEPT !.decisions[i] = AfterAccept(d, m, c.view),
                                 !.signalled = c.signalled \cup woken]
<1>1. \/ Processed(c, m) = StoreForLater(c, m)
      \/ Processed(c, m) = c
      \/ InWindow(c, m) /\ Processed(c, m) = queued
      \/ InWindow(c, m) /\ Accepts(d, m, c.view, Self) /\ Processed(c, m) = accepted
  BY ZenonT(60), ProcessedShape
<1>2. ASSUME Processed(c, m) = StoreForLater(c, m)
      PROVE  IsFiled(Processed(c, m))
  BY <1>2, StoreForLaterFiled
<1>3. ASSUME InWindow(c, m)
      PROVE  /\ i \in 1..Watermark /\ d.seq = c.seqNo + i - 1 /\ d = c.decisions[i]
             /\ IsDecision(d) /\ Awake(d) /\ FiledDecision(d, c.view.seq, c.seqNo + i - 1)
             /\ m.seq = c.seqNo + i - 1 /\ m.view = c.view.seq /\ m.kind \in Kinds /\ d.seq \in Nat
  <2>1. i \in 1..Watermark /\ d.seq = c.seqNo + i - 1 /\ d.seq \in Nat
    BY ZenonT(60), <1>3, AddresseeIs
  <2>2. d = c.decisions[i]
    BY DEF AddresseeOf
  <2>3. m.seq = c.seqNo + i - 1 /\ m.view = c.view.seq /\ m.kind \in Kinds
    BY <1>3 DEF InWindow, IsMessage, Position, IsWindow
  <2> HIDE DEF d, i
  <2> QED
    BY ZenonT(60), <2>1, <2>2, <2>3, InstanceFiled
<1>4. ASSUME InWindow(c, m) /\ Processed(c, m) = queued
      PROVE  IsFiled(Processed(c, m))
  <2> DEFINE f == Enqueue(d, m)
  <2>1. FiledDecision(f, c.view.seq, c.seqNo + i - 1)
    <3> HIDE DEF d, i
    <3> QED
      BY ZenonT(60), <1>3, <1>4, EnqueueFiled
  <2> HIDE DEF f, d, i
  <2>2. /\ queued.decisions = [c.decisions EXCEPT ![i] = f] /\ queued.seqNo = c.seqNo
        /\ queued.view = c.view /\ queued.tbo = c.tbo /\ queued.viewQueue = c.viewQueue
    BY PutShape DEF f
  <2> HIDE DEF queued
  <2>3. IsFiled(queued)
    BY ZenonT(60), <1>3, <1>4, <2>1, <2>2, FiledPut
  <2> QED
    BY <1>4, <2>3
<1>5. ASSUME InWindow(c, m) /\ Accepts(d, m, c.view, Self) /\ Processed(c, m) = accepted
      PROVE  IsFiled(Processed(c, m))
  <2> DEFINE f == AfterAccept(d, m, c.view)
  <2>1. FiledDecision(f, c.view.seq, c.seqNo + i - 1)
    <3> HIDE DEF d, i
    <3>0. IsDecision(d)
      BY ZenonT(60), <1>3, <1>5
    <3>1. f.queue = d.queue
      BY <3>0, AfterAcceptQueue
    <3> HIDE DEF f
    <3> QED
      BY ZenonT(60), <1>3, <1>5, <3>1, SameQueueFiled
  <2> HIDE DEF f, d, i, woken
  <2>2. /\ accepted.decisions = [c.decisions EXCEPT ![i] = f] /\ accepted.seqNo = c.seqNo
        /\ accepted.view = c.view /\ accepted.tbo = c.tbo /\ accepted.viewQueue = c.viewQueue
    BY PutShape DEF f
  <2> HIDE DEF accepted
  <2>3. IsFiled(accepted)
    BY ZenonT(60), <1>3, <1>5, <2>1, <2>2, FiledPut
  <2> QED
    BY <1>5, <2>3
<1>6. \A o \in Votes(c, m) : IsMessage(o)
  <2>1. CASE InWindow(c, m) /\ Accepts(d, m, c.view, Self)
    <3>1. Votes(c, m) = VotesSent(d, m, c.view, Self)
      BY <2>1 DEF Votes
    <3>2. d.seq \in Nat /\ c.view.seq \in Nat
      BY ZenonT(60), <1>3, <2>1 DEF IsFiled
    <3> HIDE DEF d
    <3>3. \A o \in VotesSent(d, m, c.view, Self) :
            o.kind \in {"Prepare", "Commit"} /\ o.view = c.view.seq /\ o.seq = d.seq
      BY DEF VotesSent
    <3> QED
      BY <3>1, <3>2, <3>3 DEF IsMessage, Kinds
  <2>2. CASE ~ (InWindow(c, m) /\ Accepts(d, m, c.view, Self))
    BY <2>2 DEF Votes
  <2> QED
    BY <2>1, <2>2
<1> QED
  BY ZenonT(60), <1>1, <1>2, <1>4, <1>5, <1>6

\* The queues of a TboQueue, the first of which are for instance base.
FiledTbo(tbo, v, base) ==
  /\ \A k \in Kinds : FiledQueues(tbo.queue[k], k, v, base)
  /\ tbo.queue = [k \in Kinds |-> tbo.queue[k]]

LEMMA FiledParts ==
  ASSUME NEW c
  PROVE  IsFiled(c) <=> /\ c.view.seq \in Nat /\ FiledViews(c.viewQueue, c.view.seq)
                        /\ FiledTbo(c.tbo, c.view.seq, c.seqNo + Watermark)
                        /\ \A i \in 1..Watermark :
                             FiledDecision(c.decisions[i], c.view.seq, c.seqNo + i - 1)
BY ZenonT(60) DEF IsFiled, FiledTbo

LEMMA AdvanceFiled ==
  ASSUME NEW tbo, NEW v, NEW base \in Int, FiledTbo(tbo, v, base), NEW n \in Nat
  PROVE  FiledTbo(AdvanceQueue(tbo, n), v, base + n) /\ AdvanceQueue(tbo, n).curr = tbo.curr + n
<1> DEFINE t == AdvanceQueue(tbo, n)
           q == [k \in Kinds |-> DropQueues(tbo.queue[k], n)]
<1>1. t.queue = q /\ t.curr = tbo.curr + n
  BY ZenonT(60) DEF AdvanceQueue
<1> HIDE DEF t
<1>2. ASSUME NEW k \in Kinds
      PROVE  FiledQueues(t.queue[k], k, v, base + n)
  <2>1. t.queue[k] = DropQueues(tbo.queue[k], n)
    BY ZenonT(60), <1>1
  <2>2. FiledQueues(tbo.queue[k], k, v, base)
    BY ZenonT(60) DEF FiledTbo
  <2>3. FiledQueues(DropQueues(tbo.queue[k], n), k, v, base + n)
    BY <2>2, DropFiled
  <2> QED
    BY <2>1, <2>3
<1>3. t.queue = [k \in Kinds |-> t.queue[k]]
  BY ZenonT(60), <1>1
<1> QED
  BY ZenonT(60), <1>1, <1>2, <1>3 DEF FiledTbo, t

LEMMA EmptyFiled ==
  ASSUME NEW seq, NEW v, NEW base
  PROVE  /\ FiledTbo(EmptyTbo(seq), v, base) /\ EmptyTbo(seq).curr = seq
         /\ \A k \in Kinds : Filed(EmptyQueue[k], k, v, base)
<1>1. EmptyTbo(seq).queue = EmptyQueue /\ EmptyTbo(seq).curr = seq
  BY DEF EmptyTbo
<1>2. \A k \in Kinds : EmptyQueue[k] = << >>
  BY DEF EmptyQueue
<1>3. EmptyQueue = [k \in Kinds |-> EmptyQueue[k]]
  BY DEF EmptyQueue
<1>4. \A k : FiledQueues(<< >>, k, v, base)
  <2>1. Len(<< >>) = 0 /\ << >> = [i \in 1..Len(<< >>) |-> << >>[i]]
    OBVIOUS
  <2>2. \A i \in 1..Len(<< >>) : FALSE
    BY <2>1
  <2>3. Len(<< >>) \in Nat
    BY <2>1
  <2> QED
    BY ZenonT(60), <2>1, <2>2, <2>3 DEF FiledQueues
<1> QED
  BY ZenonT(60), <1>1, <1>2, <1>3, <1>4, FiledEmpty DEF FiledTbo

LEMMA NextInstancesFiled ==
  ASSUME NEW c, IsWindow(c), IsFiled(c), NEW n \in 0..Watermark, NEW view
  PROVE  IsFiled(NextInstances(c, n, view))
<1> DEFINE e == NextInstances(c, n, view)
           last == c.seqNo + Watermark - 1
           base == c.seqNo + Watermark
           v == c.view.seq
<1>0. IsNextWindow(e, c, n, view)
  BY ZenonT(60), NextInstancesShape
<1> HIDE DEF e
<1>1. /\ e.seqNo = c.seqNo + n /\ e.view = c.view /\ e.viewQueue = c.viewQueue
      /\ e.tbo = AdvanceQueue(c.tbo, n)
      /\ \A i \in 1..(Watermark - n) : e.decisions[i] = c.decisions[n + i]
      /\ \A j \in 1..n : e.decisions[Watermark - n + j] =
                           InitDecision(last + j, view, Front(c.tbo, j))
  BY ZenonT(60), <1>0 DEF IsNextWindow
<1>2. c.seqNo \in Nat /\ n \in Nat /\ base \in Int /\ e.seqNo + Watermark = base + n
  BY <1>1, WatermarkNat DEF IsWindow
<1>3. /\ v \in Nat /\ FiledViews(c.viewQueue, v) /\ FiledTbo(c.tbo, v, base)
      /\ \A i \in 1..Watermark : FiledDecision(c.decisions[i], v, c.seqNo + i - 1)
  BY ZenonT(60), FiledParts
<1>4. FiledTbo(e.tbo, v, e.seqNo + Watermark)
  <2>1. FiledTbo(AdvanceQueue(c.tbo, n), v, base + n)
    <3> HIDE DEF base, v
    <3> QED
      BY ZenonT(60), <1>2, <1>3, AdvanceFiled
  <2> QED
    BY <1>1, <1>2, <2>1
<1>5. ASSUME NEW i \in 1..Watermark
      PROVE  FiledDecision(e.decisions[i], v, e.seqNo + i - 1)
  <2>1. CASE i <= Watermark - n
    <3>1. n + i \in 1..Watermark /\ i \in 1..(Watermark - n) /\ e.seqNo + i - 1 = c.seqNo + (n + i) - 1
      BY <1>1, <1>2, <2>1, WatermarkNat
    <3>2. e.decisions[i] = c.decisions[n + i]
      BY ZenonT(60), <1>1, <3>1
    <3>3. FiledDecision(c.decisions[n + i], v, c.seqNo + (n + i) - 1)
      BY ZenonT(60), <1>3, <3>1
    <3> QED
      BY ZenonT(60), <3>1, <3>2, <3>3
  <2>2. CASE i > Watermark - n
    <3> DEFINE j == i - (Watermark - n)
    <3>1. /\ j \in 1..n /\ i = Watermark - n + j /\ last + j = e.seqNo + i - 1
          /\ j \in Nat \ {0} /\ last + j = base + j - 1
      BY <1>1, <1>2, <2>2, WatermarkNat
    <3> HIDE DEF j, last, base
    <3>2. e.decisions[Watermark - n + j] = InitDecision(last + j, view, Front(c.tbo, j))
      BY ZenonT(60), <1>1, <3>1
    <3>3. e.decisions[i] = InitDecision(last + j, view, Front(c.tbo, j))
      BY <3>1, <3>2
    <3>4. ASSUME NEW k \in Kinds
          PROVE  Filed(Front(c.tbo, j)[k], k, v, last + j)
      <4>1. FiledQueues(c.tbo.queue[k], k, v, base)
        BY ZenonT(60), <1>3 DEF FiledTbo
      <4>2. Filed(Front(c.tbo, j)[k], k, v, base + j - 1)
        BY ZenonT(60), <1>2, <3>1, <4>1, FrontFiled
      <4> QED
        BY <3>1, <4>2
    <3>5. FiledDecision(e.decisions[i], v, last + j)
      BY ZenonT(60), <3>3, <3>4, InitDecisionFiled
    <3> QED
      BY <3>1, <3>5
  <2>3. i <= Watermark - n \/ i > Watermark - n
    BY WatermarkNat
  <2> QED
    BY <2>1, <2>2, <2>3
<1>6. e.view.seq = v
  BY <1>1
<1>7. IsFiled(e)
  <2> HIDE DEF v, base, last
  <2>1. FiledViews(e.viewQueue, v)
    BY <1>1, <1>3
  <2> QED
    BY ZenonT(60), <1>3, <1>4, <1>5, <1>6, <2>1, FiledParts
<1> QED
  BY <1>7 DEF e

LEMMA RefillFiled ==
  ASSUME NEW c, IsWindow(c), IsFiled(c), NEW seq \in Nat, NEW tbo,
         tbo.curr = seq \/ tbo.curr = seq - Watermark,
         FiledTbo(tbo, c.view.seq, tbo.curr + Watermark)
  PROVE  IsFiled(Refill(c, seq, tbo))
<1> DEFINE n == FromTbo(tbo, seq)
           q(i) == IF i <= n THEN Front(tbo, i) ELSE EmptyQueue
           e == Refill(c, seq, tbo)
           v == c.view.seq
           base == tbo.curr + Watermark
<1>0. IsRefilled(e, c, seq, tbo)
  BY ZenonT(60), RefillShape
<1> HIDE DEF e
<1>1. /\ e.seqNo = seq /\ e.viewQueue = c.viewQueue /\ e.view = c.view
      /\ e.tbo = AdvanceQueue(tbo, n)
      /\ e.decisions = [i \in 1..Watermark |-> InitDecision(seq + i - 1, c.view, q(i))]
  BY ZenonT(60), <1>0 DEF IsRefilled
<1>2. tbo.curr + n = seq /\ n \in {0, Watermark}
  BY FromTboIs
<1> HIDE DEF n
<1>3. /\ base \in Int /\ n \in Nat /\ e.seqNo + Watermark = base + n /\ e.view.seq = v
  BY <1>1, <1>2, WatermarkNat
<1>4. FiledTbo(e.tbo, v, e.seqNo + Watermark)
  <2>1. FiledTbo(AdvanceQueue(tbo, n), v, base + n)
    <3>1. FiledTbo(tbo, v, base)
      OBVIOUS
    <3> HIDE DEF base, v
    <3> QED
      BY ZenonT(60), <1>3, <3>1, AdvanceFiled
  <2> QED
    BY <1>1, <1>3, <2>1
<1>5. ASSUME NEW i \in 1..Watermark
      PROVE  FiledDecision(e.decisions[i], v, e.seqNo + i - 1)
  <2>1. ASSUME NEW k \in Kinds
        PROVE  Filed(q(i)[k], k, v, seq + i - 1)
    <3>1. CASE i <= n
      <4>1. n = Watermark /\ base + i - 1 = seq + i - 1 /\ i \in Nat \ {0}
        BY <1>2, <3>1, WatermarkNat
      <4>2. FiledQueues(tbo.queue[k], k, v, base)
        BY ZenonT(60) DEF FiledTbo
      <4>3. q(i) = Front(tbo, i)
        BY <3>1
      <4> HIDE DEF base, q, v
      <4>4. Filed(Front(tbo, i)[k], k, v, base + i - 1)
        BY ZenonT(60), <1>3, <4>1, <4>2, FrontFiled
      <4> QED
        BY <4>1, <4>3, <4>4
    <3>2. CASE ~ (i <= n)
      <4>1. q(i) = EmptyQueue
        BY <3>2
      <4> HIDE DEF q
      <4> QED
        BY ZenonT(60), <4>1, EmptyFiled
    <3> QED
      BY <3>1, <3>2
  <2> HIDE DEF q
  <2>2. e.decisions[i] = InitDecision(seq + i - 1, c.view, q(i))
    BY ZenonT(60), <1>1
  <2>3. FiledDecision(e.decisions[i], v, seq + i - 1)
    BY ZenonT(60), <2>1, <2>2, InitDecisionFiled
  <2> QED
    BY <1>1, <2>3
<1>6. IsFiled(e)
  <2>1. v \in Nat /\ FiledViews(e.viewQueue, v)
    BY ZenonT(60), <1>1, FiledParts
  <2> HIDE DEF v, base, q
  <2> QED
    BY ZenonT(60), <1>3, <1>4, <1>5, <2>1, FiledParts
<1> QED
  BY <1>6 DEF e

LEMMA InstallSequenceNumberFiled ==
  ASSUME NEW c, IsWindow(c), IsFiled(c), NEW seq \in Nat
  PROVE  IsFiled(InstallSequenceNumber(c, seq))
<1>1. PICK moved :
        /\ IsMovedTo(moved, c, seq)
        /\ InstallSequenceNumber(c, seq) = [moved EXCEPT !.guard = InstallSeqNo(@, seq)]
  BY ZenonT(60), InstallSequenceNumberShape
<1>2. IsWindow(moved)
  BY <1>1, RefillWindow, NextInstancesWindow DEF IsMovedTo
<1>3. IsFiled(moved)
  <2>1. ASSUME NEW tbo, tbo.curr = seq \/ tbo.curr = seq - Watermark,
               \/ tbo = EmptyTbo(seq)
               \/ /\ seq >= c.seqNo + Watermark
                  /\ tbo = AdvanceQueue(c.tbo, seq - c.seqNo - Watermark),
               moved = Refill(c, seq, tbo)
        PROVE  IsFiled(moved)
    <3>1. CASE tbo = EmptyTbo(seq)
      <4>1. FiledTbo(tbo, c.view.seq, tbo.curr + Watermark)
        BY ZenonT(60), <3>1, EmptyFiled
      <4> QED
        BY <2>1, <4>1, RefillFiled
    <3>2. CASE seq >= c.seqNo + Watermark /\ tbo = AdvanceQueue(c.tbo, seq - c.seqNo - Watermark)
      <4> DEFINE n == seq - c.seqNo - Watermark
                 base == c.seqNo + Watermark
      <4>1. n \in Nat /\ base \in Int /\ c.tbo.curr = c.seqNo /\ c.seqNo + n + Watermark = base + n
        BY <3>2, WatermarkNat DEF IsWindow
      <4>2. FiledTbo(c.tbo, c.view.seq, base) /\ tbo = AdvanceQueue(c.tbo, n)
        BY ZenonT(60), <3>2, FiledParts
      <4> HIDE DEF n, base
      <4>3. FiledTbo(tbo, c.view.seq, base + n) /\ tbo.curr = c.tbo.curr + n
        BY ZenonT(60), <4>1, <4>2, AdvanceFiled
      <4>4. FiledTbo(tbo, c.view.seq, tbo.curr + Watermark)
        BY <4>1, <4>3
      <4> QED
        BY <2>1, <4>4, RefillFiled
    <3> QED
      BY <2>1, <3>1, <3>2
  <2>2. ASSUME NEW n \in 0..Watermark, moved = NextInstances(c, n, c.view)
        PROVE  IsFiled(moved)
    BY <2>2, NextInstancesFiled
  <2> QED
    BY ZenonT(60), <1>1, <2>1, <2>2 DEF IsMovedTo
<1> DEFINE g == InstallSeqNo(moved.guard, seq)
           e == [moved EXCEPT !.guard = g]
<1> HIDE DEF g
<1>4. /\ e.decisions = moved.decisions /\ e.seqNo = moved.seqNo /\ e.view = moved.view
      /\ e.tbo = moved.tbo /\ e.viewQueue = moved.viewQueue
  BY <1>2 DEF IsWindow, IsConsensusStruct
<1>5. InstallSequenceNumber(c, seq) = e
  BY <1>1 DEF g
<1> HIDE DEF e
<1> QED
  BY <1>3, <1>4, <1>5, FiledKept

\* What was queued for a view, sorted by kind and instance.
LEMMA SortedFiled ==
  ASSUME NEW early, NEW v, OfView(early, v), NEW k, NEW seq
  PROVE  Filed(Sorted(early, k, seq), k, v, seq)
<1>1. PICK S : early \in Seq(S) /\ \A m \in S : m.kind \in Kinds /\ m.view = v /\ m.seq \in Nat
  BY ZenonT(60) DEF OfView
<1> DEFINE I == {i \in 1..Len(early) : early[i].kind = k /\ early[i].seq = seq}
           T == {early[j] : j \in I}
<1>2. Len(early) \in Nat /\ \A j \in 1..Len(early) : early[j] \in S
  BY <1>1
<1>3. Sorted(early, k, seq) \in Seq(T)
  BY <1>2, SortedIs
<1>4. \A m \in T : m.kind = k /\ m.view = v /\ m.seq = seq
  <2> SUFFICES ASSUME NEW j \in I
               PROVE  early[j].kind = k /\ early[j].view = v /\ early[j].seq = seq
    BY ZenonT(60)
  <2> QED
    BY ZenonT(60), <1>1, <1>2
<1> HIDE DEF T
<1> QED
  BY ZenonT(60), <1>3, <1>4 DEF Filed

\* The furthest instance that something was queued for is a number.
Ahead(early, k, base) ==
  {early[j].seq - base + 1 :
     j \in {i \in DOMAIN early : early[i].kind = k /\ early[i].seq >= base}}

LEMMA AheadIs ==
  ASSUME NEW early, NEW v, OfView(early, v), NEW k, NEW base \in Int
  PROVE  Highest(Ahead(early, k, base)) \in Nat
<1>1. PICK S : early \in Seq(S) /\ \A m \in S : m.kind \in Kinds /\ m.view = v /\ m.seq \in Nat
  BY ZenonT(60) DEF OfView
<1> DEFINE N == Len(early)
           f == [j \in 1..N |-> early[j].seq - base + 1]
           J == {i \in DOMAIN early : early[i].kind = k /\ early[i].seq >= base}
           A == {early[j].seq - base + 1 : j \in J}
<1>2. N \in Nat /\ DOMAIN early = 1..N /\ \A j \in 1..N : early[j] \in S
  BY <1>1
<1>3. \A j \in 1..N : early[j].seq \in Nat
  BY ZenonT(60), <1>1, <1>2
<1> HIDE DEF N
<1>4. \A j \in 1..N : f[j] = early[j].seq - base + 1 /\ f[j] \in Int
  BY <1>3
<1> HIDE DEF f
<1>5. PICK b \in Nat : \A j \in 1..N : f[j] <= b
  BY ZenonT(60), <1>2, <1>4, Bounded
<1>6. \A j \in J : j \in 1..N /\ early[j].seq >= base
  BY <1>2
<1> HIDE DEF J
<1>7. \A x \in A : x \in Nat /\ x <= b
  <2> SUFFICES ASSUME NEW j \in J
               PROVE  early[j].seq - base + 1 \in Nat /\ early[j].seq - base + 1 <= b
    BY ZenonT(60)
  <2>1. j \in 1..N /\ early[j].seq >= base /\ early[j].seq \in Nat
    BY <1>3, <1>6
  <2>2. early[j].seq - base + 1 <= b
    BY <1>4, <1>5, <2>1
  <2> QED
    BY <2>1, <2>2
<1> HIDE DEF A
<1>8. A \subseteq Nat
  BY <1>7
<1>9. Highest(A) \in Nat
  BY ZenonT(60), <1>7, <1>8, HighestIs
<1> QED
  BY <1>9 DEF A, J, Ahead

LEMMA InstallViewFiled ==
  ASSUME NEW c, IsWindow(c), IsFiled(c), NEW view, view.seq \in Nat, view.seq > c.view.seq
  PROVE  IsFiled(InstallView(c, view)) /\ InstallView(c, view).guard.view = view
<1> DEFINE index == view.seq - c.view.seq
           early == IF index <= Len(c.viewQueue) THEN c.viewQueue[index] ELSE << >>
           base  == BaseSeq(c.tbo)
           ahead(k) == {early[j].seq - base + 1 :
                          j \in {i \in DOMAIN early : early[i].kind = k /\ early[i].seq >= base}}
           q(i) == [k \in Kinds |-> Sorted(early, k, c.seqNo + i - 1)]
           r(k) == [j \in 1..Highest(ahead(k)) |-> Sorted(early, k, base + j - 1)]
           t == [k \in Kinds |-> r(k)]
           tbo == [c.tbo EXCEPT !.queue = t]
           e == InstallView(c, view)
           v == view.seq
<1>0. c.view.seq \in Nat /\ FiledViews(c.viewQueue, c.view.seq)
  BY ZenonT(60) DEF IsFiled
<1>1. IsInstalled(e, c, view)
  BY ZenonT(60), <1>0, InstallViewShape
<1> HIDE DEF e
<1>2. /\ e.seqNo = c.seqNo /\ e.view = view /\ e.guard = InstallViewInGuard(c.guard, view)
      /\ e.decisions = [i \in 1..Watermark |-> InitDecision(c.seqNo + i - 1, view, q(i))]
      /\ e.tbo = tbo /\ e.viewQueue = DropQueues(c.viewQueue, index)
  BY ZenonT(60), <1>1 DEF IsInstalled
<1>3. /\ index \in Nat \ {0} /\ c.view.seq + index = v
      /\ base = c.seqNo + Watermark /\ base \in Int
  BY <1>0, WatermarkNat DEF BaseSeq, IsWindow
<1> HIDE DEF index, base
<1>4. OfView(early, v)
  <2>1. CASE index <= Len(c.viewQueue)
    <3>1. Len(c.viewQueue) \in Nat
      BY ZenonT(60), <1>0 DEF FiledViews
    <3>2. index \in 1..Len(c.viewQueue)
      BY <1>3, <2>1, <3>1
    <3>3. OfView(c.viewQueue[index], c.view.seq + index)
      BY ZenonT(60), <1>0, <3>2 DEF FiledViews
    <3> QED
      BY <1>3, <2>1, <3>3
  <2>2. CASE ~ (index <= Len(c.viewQueue))
    <3>1. early = << >>
      BY <2>2
    <3> HIDE DEF early
    <3> QED
      BY <3>1, FiledEmpty
  <2> QED
    BY <2>1, <2>2
<1> HIDE DEF early
<1>5. ASSUME NEW i \in 1..Watermark
      PROVE  FiledDecision(e.decisions[i], v, e.seqNo + i - 1)
  <2>1. \A k \in Kinds : q(i)[k] = Sorted(early, k, c.seqNo + i - 1)
    BY ZenonT(60)
  <2> HIDE DEF q
  <2>2. e.decisions[i] = InitDecision(c.seqNo + i - 1, view, q(i))
    BY ZenonT(60), <1>2
  <2>3. \A k \in Kinds : Filed(q(i)[k], k, v, c.seqNo + i - 1)
    BY ZenonT(60), <1>4, <2>1, SortedFiled
  <2> HIDE DEF v
  <2>4. FiledDecision(e.decisions[i], v, c.seqNo + i - 1)
    BY ZenonT(60), <2>2, <2>3, InitDecisionFiled
  <2> QED
    BY <1>2, <2>4
<1>6. ASSUME NEW k \in Kinds
      PROVE  FiledQueues(r(k), k, v, base)
  <2> DEFINE h == Highest(ahead(k))
             rk == r(k)
  <2>1. h \in Nat
    <3>1. h = Highest(Ahead(early, k, base))
      BY ZenonT(60) DEF Ahead
    <3>2. Highest(Ahead(early, k, base)) \in Nat
      BY ZenonT(60), <1>3, <1>4, AheadIs
    <3> HIDE DEF h
    <3> QED
      BY <3>1, <3>2
  <2>2. \A j \in 1..h : rk[j] = Sorted(early, k, base + j - 1)
    <3> HIDE DEF h
    <3> QED
      BY ZenonT(60) DEF h
  <2>3. rk = [j \in 1..h |-> rk[j]]
    <3> HIDE DEF ahead
    <3> QED
      BY ZenonT(60)
  <2> HIDE DEF h, rk
  <2>4. Len(rk) = h
    BY ZenonT(60), <2>1, <2>3, LenOf
  <2>5. \A j \in 1..h : Filed(rk[j], k, v, base + j - 1)
    BY ZenonT(60), <1>4, <2>2, SortedFiled
  <2>6. FiledQueues(rk, k, v, base)
    BY ZenonT(60), <2>1, <2>3, <2>4, <2>5 DEF FiledQueues
  <2> QED
    BY <2>6 DEF rk
<1> HIDE DEF r
<1>7. FiledTbo(e.tbo, v, base)
  <2>1. t = [k \in Kinds |-> t[k]] /\ \A k \in Kinds : t[k] = r(k)
    BY ZenonT(60)
  <2> HIDE DEF t
  <2>2. tbo.queue = t
    BY DEF IsWindow, IsTbo
  <2> HIDE DEF tbo
  <2> QED
    BY ZenonT(60), <1>2, <1>6, <2>1, <2>2 DEF FiledTbo
<1>8. FiledViews(e.viewQueue, v)
  <2>1. FiledViews(DropQueues(c.viewQueue, index), c.view.seq + index)
    BY <1>0, <1>3, DropOfView
  <2> QED
    BY <1>2, <1>3, <2>1
<1>9. IsFiled(e)
  <2> HIDE DEF q, t, tbo
  <2>1. FiledTbo(e.tbo, v, e.seqNo + Watermark)
    BY <1>2, <1>3, <1>7
  <2>2. e.view.seq = v /\ v \in Nat
    BY <1>2
  <2> HIDE DEF v
  <2> QED
    BY ZenonT(60), <1>5, <1>8, <2>1, <2>2, FiledParts
<1>10. e.guard.view = view
  <2>1. InstallViewInGuard(c.guard, view).view = view
    BY ZenonT(60) DEF InstallViewInGuard, IsGuard, IsWindow
  <2> QED
    BY <1>2, <2>1
<1> QED
  BY <1>9, <1>10 DEF e

LEMMA FinalizeViewChangeFiled ==
  ASSUME NEW c, IsWindow(c), IsFiled(c), NEW view, view.seq \in Nat, view.seq > c.view.seq,
         NEW m, IsMessage(m)
  PROVE  /\ IsFiled(FinalizeViewChange(c, view, m))
         /\ FinalizeViewChange(c, view, m).guard.view = view
         /\ \A o \in FinalizeViewChangeVotes(c, view, m) : IsMessage(o)
<1> DEFINE installed == InstallView(c, view)
           skipped == Skipped(c, view)
           processed == Processed(skipped, m)
           e == FinalizeViewChange(c, view, m)
           d == installed.decisions[1]
<1>0. c.view.seq \in Nat
  BY ZenonT(60) DEF IsFiled
<1>1. IsSkipped(skipped, installed, view)
  BY ZenonT(60), <1>0, SkippedAwake
<1>2. IsFiled(installed) /\ installed.guard.view = view
  BY ZenonT(60), InstallViewFiled
<1>3. FinalizeViewChangeVotes(c, view, m) = Votes(skipped, m)
  BY DEF FinalizeViewChangeVotes, Skipped
<1>4. /\ e.view = view /\ e.decisions = processed.decisions /\ e.seqNo = processed.seqNo
      /\ e.tbo = processed.tbo /\ e.viewQueue = processed.viewQueue
      /\ e.guard = UnlockConsensus(installed.guard)
  <2>1. e.view = view /\ IsUnlocked(e, processed, installed.guard)
    BY ZenonT(60), <1>0, FinalizeViewChangeAwake
  <2> HIDE DEF installed, processed, e
  <2> QED
    BY ZenonT(60), <2>1 DEF IsUnlocked
<1> HIDE DEF installed, skipped, e
<1>5. /\ IsWindow(skipped) /\ IsAwake(skipped) /\ IsWindow(installed)
      /\ skipped.decisions = [installed.decisions EXCEPT ![1] = SkipInitPhase(d)]
      /\ skipped.seqNo = installed.seqNo /\ skipped.view = view /\ installed.view = view
      /\ skipped.tbo = installed.tbo /\ skipped.viewQueue = installed.viewQueue
  BY ZenonT(60), <1>1 DEF IsSkipped
<1>6. 1 \in 1..Watermark
  BY WatermarkNat
<1>7. IsFiled(skipped)
  <2>1. IsDecision(d) /\ FiledDecision(d, installed.view.seq, installed.seqNo + 1 - 1)
    BY ZenonT(60), <1>2, <1>5, <1>6 DEF IsFiled, IsWindow, AreDecisions
  <2> DEFINE f == SkipInitPhase(d)
  <2>2. f.queue = d.queue
    BY <2>1, PollQueues
  <2> HIDE DEF f, d
  <2>3. FiledDecision(f, installed.view.seq, installed.seqNo + 1 - 1)
    BY ZenonT(60), <2>1, <2>2, SameQueueFiled
  <2>4. skipped.decisions = [installed.decisions EXCEPT ![1] = f] /\ skipped.view = installed.view
    BY <1>5 DEF f
  <2> QED
    BY ZenonT(60), <1>2, <1>5, <1>6, <2>3, <2>4, FiledPut
<1>8. IsFiled(processed) /\ \A o \in Votes(skipped, m) : IsMessage(o)
  BY ZenonT(60), <1>5, <1>7, ProcessedFiled
<1>9. processed.view = view
  BY <1>5, ProcessedWindow
<1> HIDE DEF processed
<1>10. IsFiled(e)
  BY <1>4, <1>8, <1>9, FiledKept
<1>11. e.guard.view = view
  <2>1. UnlockConsensus(installed.guard).view = installed.guard.view
    BY ZenonT(60), <1>5 DEF UnlockConsensus, IsGuard, IsWindow
  <2> QED
    BY <1>2, <1>4, <2>1
<1> QED
  BY <1>3, <1>8, <1>10, <1>11 DEF e
-----------------------------------------------------------------------------
(***************************************************************************)
(* The actions misfile nothing.                                            *)
(***************************************************************************)
LEMMA FinalizeAllPossibleFiled ==
  ASSUME NEW c, IsWindow(c), IsFiled(c), FinalizeAllPossible(c)
  PROVE  IsFiled(consensus')
<1>1. PICK n \in 0..Watermark : consensus' = NextInstances(c, n, c.view)
  BY DEF FinalizeAllPossible
<1> QED
  BY <1>1, NextInstancesFiled

\* What FiledInv says of the next state beyond WakeInv.
FiledNext ==
  /\ IsFiled(consensus') /\ consensus'.guard.view.seq \in Nat
  /\ \A m \in net' : IsMessage(m)

LEMMA AdvConsensusFiled ==
  ASSUME NEW c, IsWindow(c), IsAwake(c), IsFiled(c), c.guard.view.seq \in Nat,
         NEW m, IsMessage(m), NEW rest, \A p \in rest : IsMessage(p), AdvConsensus(c, m, rest)
  PROVE  FiledNext
<1> DEFINE next == Processed(c, m)
<1>1. IsWindow(next) /\ next.guard = c.guard
  BY ProcessedWindow
<1>2. IsFiled(next) /\ \A o \in Votes(c, m) : IsMessage(o)
  BY ZenonT(60), ProcessedFiled
<1>3. /\ FinalizeAllPossible(next) \/ consensus' = next
      /\ net' = rest \cup Votes(c, m)
  BY DEF AdvConsensus
<1> HIDE DEF next
<1>4. IsFiled(consensus') /\ consensus'.guard = c.guard
  BY <1>1, <1>2, <1>3, FinalizeAllPossibleFiled, FinalizeAllPossibleWindow
<1>5. \A o \in net' : IsMessage(o)
  BY ZenonT(60), <1>2, <1>3
<1> QED
  BY <1>4, <1>5 DEF FiledNext

LEMMA PollKeepsFiled ==
  ASSUME FiledInv, NEW s, Poll(s)
  PROVE  FiledNext
<1> DEFINE i == Position(consensus, s)
           d == Polled(consensus, s)
           v == consensus.view.seq
<1>0. /\ IsWindow(consensus) /\ IsAwake(consensus) /\ IsFiled(consensus) /\ WindowInv
      /\ consensus.guard.view.seq \in Nat /\ v \in Nat /\ \A m \in net : IsMessage(m)
  BY ZenonT(60) DEF FiledInv, WakeInv, WindowInv
<1>1. ASSUME IsNextSignal(consensus, s), s >= consensus.seqNo
      PROVE  /\ i \in 1..Watermark /\ IsDecision(d) /\ Awake(d) /\ d = consensus.decisions[i]
             /\ s = consensus.seqNo + i - 1 /\ s \in Nat /\ d.seq = consensus.seqNo + i - 1
             /\ FiledDecision(d, v, consensus.seqNo + i - 1)
  <2>1. s \in Nat /\ i \in 1..Watermark /\ d.seq = consensus.seqNo + i - 1
    BY <1>0, <1>1, PolledIs
  <2>2. d = consensus.decisions[i]
    BY DEF Polled
  <2>3. s = consensus.seqNo + i - 1
    BY <1>0, <2>1 DEF Position, IsWindow
  <2> HIDE DEF i, d
  <2> QED
    BY ZenonT(60), <1>0, <2>1, <2>2, <2>3, InstanceFiled
<1>2. CASE PollStale(s)
  <2> DEFINE e == Unsignal(consensus, s)
  <2>1. consensus' = e /\ net' = net
    BY <1>2 DEF PollStale
  <2>2. /\ e.decisions = consensus.decisions /\ e.seqNo = consensus.seqNo
        /\ e.view = consensus.view /\ e.tbo = consensus.tbo /\ e.viewQueue = consensus.viewQueue
        /\ e.guard = consensus.guard
    BY <1>0 DEF Unsignal, IsWindow, IsConsensusStruct
  <2> HIDE DEF e
  <2>3. IsFiled(e)
    BY <1>0, <2>2, FiledKept
  <2> QED
    BY <1>0, <2>1, <2>2, <2>3 DEF FiledNext
<1>3. CASE PollTryPropose(s)
  <2> DEFINE f == AfterTryPropose(d)
             g == IF Self \in consensus.view.leaders THEN MakeSeqAvailable(consensus.guard, s)
                                                     ELSE consensus.guard
             e == [consensus EXCEPT !.decisions[i] = f, !.guard = g]
  <2>1. IsNextSignal(consensus, s) /\ s >= consensus.seqNo /\ net' = net
    BY <1>3 DEF PollTryPropose
  <2>2. consensus' = e
    BY <1>3 DEF PollTryPropose, Polled
  <2>3. FiledDecision(f, v, consensus.seqNo + i - 1)
    <3>1. IsDecision(d) /\ FiledDecision(d, v, consensus.seqNo + i - 1)
      BY ZenonT(60), <1>1, <2>1
    <3> HIDE DEF d, i, v
    <3>2. f.queue = d.queue
      BY <3>1, PollQueues
    <3> HIDE DEF f
    <3> QED
      BY ZenonT(60), <3>1, <3>2, SameQueueFiled
  <2>4. g.view = consensus.guard.view
    <3>1. MakeSeqAvailable(consensus.guard, s).view = consensus.guard.view
      BY ZenonT(60), <1>0 DEF MakeSeqAvailable, IsGuard, IsWindow
    <3> QED
      BY <3>1
  <2>5. i \in 1..Watermark
    BY <1>1, <2>1
  <2> HIDE DEF f, g, i, d
  <2>6. /\ e.decisions = [consensus.decisions EXCEPT ![i] = f] /\ e.seqNo = consensus.seqNo
        /\ e.view = consensus.view /\ e.tbo = consensus.tbo /\ e.viewQueue = consensus.viewQueue
        /\ e.guard = g
    BY <1>0 DEF IsWindow, IsConsensusStruct
  <2> HIDE DEF e
  <2>7. IsFiled(e)
    BY ZenonT(60), <1>0, <2>3, <2>5, <2>6, FiledPut
  <2> QED
    BY <1>0, <2>1, <2>2, <2>4, <2>6, <2>7 DEF FiledNext
<1>4. CASE PollNextMessage(s)
  <2> DEFINE f == AfterNextMessage(d)
             m == NextMessage(d)
             e == [consensus EXCEPT !.decisions[i] = f]
  <2>1. IsNextSignal(consensus, s) /\ s >= consensus.seqNo /\ PollFindsMessage(d)
    BY <1>4 DEF PollNextMessage
  <2>2. AdvConsensus(e, m, net)
    BY <1>4 DEF PollNextMessage, Polled
  <2>3. Awake(f) /\ IsDecision(f) /\ f.seq = consensus.seqNo + i - 1
    <3> HIDE DEF d, i
    <3> QED
      BY ZenonT(60), <1>1, <2>1, PollAwake, PollIs
  <2>4. /\ FiledDecision(f, v, consensus.seqNo + i - 1)
        /\ m.kind \in Kinds /\ m.view = v /\ m.seq = consensus.seqNo + i - 1
    <3> DEFINE t == consensus.seqNo + i - 1
    <3>1. IsDecision(d) /\ Awake(d) /\ FiledDecision(d, v, t)
      BY ZenonT(60), <1>1, <2>1
    <3> HIDE DEF d, i, v, t
    <3>2. /\ FiledDecision(AfterNextMessage(d), v, t)
          /\ NextMessage(d).kind \in Kinds /\ NextMessage(d).view = v /\ NextMessage(d).seq = t
      BY <2>1, <3>1, AfterNextMessageFiled
    <3> QED
      BY <3>2 DEF t
  <2>5. i \in 1..Watermark /\ consensus.seqNo + i - 1 \in Nat
    BY <1>1, <2>1
  <2>6. IsMessage(m)
    <3> HIDE DEF m, i, v
    <3> QED
      BY ZenonT(60), <1>0, <2>4, <2>5 DEF IsMessage
  <2> HIDE DEF f, i, d, m
  <2>7. /\ e.decisions = [consensus.decisions EXCEPT ![i] = f] /\ e.seqNo = consensus.seqNo
        /\ e.view = consensus.view /\ e.tbo = consensus.tbo /\ e.viewQueue = consensus.viewQueue
        /\ e.guard = consensus.guard /\ e.signalled = consensus.signalled
    BY <1>0 DEF IsWindow, IsConsensusStruct
  <2>8. IsWindow(e)
    BY <1>0, <2>3, <2>5, PutDecision
  <2> HIDE DEF e
  <2>9. IsFiled(e)
    BY ZenonT(60), <1>0, <2>4, <2>5, <2>7, FiledPut
  <2>10. IsAwake(e)
    <3>1. consensus.seqNo + i - 1 \in e.signalled
      BY <1>1, <2>1, <2>7 DEF IsNextSignal
    <3> QED
      BY ZenonT(60), <1>0, <2>3, <2>5, <2>7, <3>1, AwakePut
  <2>11. e.guard.view.seq \in Nat
    BY <1>0, <2>7
  <2> QED
    BY ZenonT(60), <1>0, <2>2, <2>6, <2>8, <2>9, <2>10, <2>11, AdvConsensusFiled
<1>5. CASE PollRecv(s)
  <2> DEFINE u == Unsignal(consensus, s)
             f == AfterRecv(d)
             e == [u EXCEPT !.decisions[i] = f]
  <2>1. IsNextSignal(consensus, s) /\ s >= consensus.seqNo /\ net' = net
    BY <1>5 DEF PollRecv
  <2>2. /\ IsWindow(u) /\ u.seqNo = consensus.seqNo /\ u.decisions = consensus.decisions
        /\ u.view = consensus.view /\ u.tbo = consensus.tbo /\ u.viewQueue = consensus.viewQueue
        /\ u.guard = consensus.guard
    <3>1. IsWindow(u)
      BY <1>0, UnsignalWindow
    <3> QED
      BY <1>0, <3>1 DEF Unsignal, IsWindow, IsConsensusStruct
  <2>3. consensus' = e
    BY <1>5, <2>2 DEF PollRecv, Polled
  <2>4. FiledDecision(f, v, consensus.seqNo + i - 1)
    <3>1. IsDecision(d) /\ FiledDecision(d, v, consensus.seqNo + i - 1)
      BY ZenonT(60), <1>1, <2>1
    <3> HIDE DEF d, i, v
    <3>2. f.queue = d.queue
      BY <3>1, PollQueues
    <3> HIDE DEF f
    <3> QED
      BY ZenonT(60), <3>1, <3>2, SameQueueFiled
  <2>5. i \in 1..Watermark
    BY <1>1, <2>1
  <2> HIDE DEF u, f, i, d
  <2>6. /\ e.decisions = [consensus.decisions EXCEPT ![i] = f] /\ e.seqNo = consensus.seqNo
        /\ e.view = consensus.view /\ e.tbo = consensus.tbo /\ e.viewQueue = consensus.viewQueue
        /\ e.guard = consensus.guard
    BY <2>2 DEF IsWindow, IsConsensusStruct
  <2> HIDE DEF e
  <2>7. IsFiled(e)
    BY ZenonT(60), <1>0, <2>4, <2>5, <2>6, FiledPut
  <2> QED
    BY <1>0, <2>1, <2>3, <2>6, <2>7 DEF FiledNext
<1> QED
  BY <1>2, <1>3, <1>4, <1>5 DEF Poll

LEMMA ViewChangedFiled ==
  ASSUME FiledInv, NEW v \in 1..MaxView, NEW proof, NEW m, IsMessage(m), ViewChanged(v, proof, m)
  PROVE  FiledNext
<1> DEFINE c == IF CatchesUp(proof) THEN NextInstances(consensus, 1, View(v)) ELSE consensus
<1>0. IsWindow(consensus) /\ IsFiled(consensus) /\ \A o \in net : IsMessage(o)
  BY ZenonT(60) DEF FiledInv, WakeInv, WindowInv
<1>1. IsWindow(c) /\ c.view = consensus.view /\ IsFiled(c)
  <2>1. 1 \in 0..Watermark
    BY WatermarkNat
  <2> QED
    BY <1>0, <2>1, NextInstancesWindow, NextInstancesFiled
<1> DEFINE view == View(v)
<1>2. /\ consensus' = FinalizeViewChange(c, view, m) /\ v > consensus.view.seq
      /\ net' = net \cup FinalizeViewChangeVotes(c, view, m)
  BY DEF ViewChanged
<1> HIDE DEF c
<1>3. view.seq = v /\ v \in Nat
  BY WindowAssumption DEF View
<1> HIDE DEF view
<1>4. view.seq \in Nat /\ view.seq > c.view.seq
  BY <1>1, <1>2, <1>3
<1>5. /\ IsFiled(FinalizeViewChange(c, view, m))
      /\ FinalizeViewChange(c, view, m).guard.view = view
      /\ \A o \in FinalizeViewChangeVotes(c, view, m) : IsMessage(o)
  BY ZenonT(60), <1>1, <1>4, FinalizeViewChangeFiled
<1>6. \A o \in net' : IsMessage(o)
  BY ZenonT(60), <1>0, <1>2, <1>5
<1> QED
  BY <1>2, <1>4, <1>5, <1>6 DEF FiledNext

LEMMA InitFiled ==
  ASSUME Init
  PROVE  FiledInv
<1> DEFINE decisions == [i \in 1..Watermark |-> InitDecision(i - 1, View(0), EmptyQueue)]
<1>1. consensus = [seqNo |-> 0, view |-> View(0), decisions |-> decisions,
                   signalled |-> 0..(Watermark - 1), tbo |-> EmptyTbo(0),
                   viewQueue |-> << >>, guard |-> InitGuard(View(0))]
  BY DEF Init
<1>2. ASSUME NEW i \in 1..Watermark
      PROVE  FiledDecision(decisions[i], 0, 0 + i - 1)
  <2>1. decisions[i] = InitDecision(i - 1, View(0), EmptyQueue) /\ 0 + i - 1 = i - 1
    OBVIOUS
  <2> HIDE DEF decisions
  <2>2. FiledDecision(decisions[i], 0, i - 1)
    BY ZenonT(60), <2>1, EmptyFiled, InitDecisionFiled
  <2> QED
    BY <2>1, <2>2
<1> HIDE DEF decisions
<1>3. /\ consensus.seqNo = 0 /\ consensus.decisions = decisions /\ consensus.view.seq = 0
      /\ consensus.tbo = EmptyTbo(0) /\ consensus.viewQueue = << >>
      /\ consensus.guard = InitGuard(View(0))
  BY <1>1 DEF View
<1>4. consensus.guard.view.seq = 0
  <2>1. InitGuard(View(0)).view = View(0)
    BY ZenonT(60) DEF InitGuard
  <2> QED
    BY <1>3, <2>1 DEF View
<1>5. FiledViews(<< >>, 0)
  <2>1. Len(<< >>) = 0 /\ << >> = [i \in 1..Len(<< >>) |-> << >>[i]]
    OBVIOUS
  <2>2. \A i \in 1..Len(<< >>) : FALSE
    BY <2>1
  <2>3. Len(<< >>) \in Nat
    BY <2>1
  <2> QED
    BY ZenonT(60), <2>1, <2>2, <2>3 DEF FiledViews
<1>6. IsFiled(consensus)
  <2>1. 0 \in Nat
    OBVIOUS
  <2> QED
    BY ZenonT(60), <1>2, <1>3, <1>5, <2>1, EmptyFiled, FiledParts
<1>7. \A m \in net : IsMessage(m)
  <2> DEFINE Proposals(p) == {PrePrepare(p.view, p.seq, b) : b \in Batch}
             VotesFor(p) == {Vote(p.kind, r, p.view, p.seq, digest) :
                               r \in Peers, digest \in Digest(p.view)}
             Sent(p) == IF p.kind = "PrePrepare" THEN Proposals(p) ELSE VotesFor(p)
  <2>1. net = UNION {Sent(p) : p \in PeerSends}
    BY DEF Init, PeerMessage
  <2>2. ASSUME NEW p \in PeerSends, NEW m \in Sent(p)
        PROVE  IsMessage(m)
    <3>1. p.seq \in Nat /\ p.view \in Nat /\ p.kind \in Kinds
      BY WindowAssumption
    <3>2. \A o \in Proposals(p) : IsMessage(o)
      BY <3>1 DEF PrePrepare, IsMessage, Kinds
    <3>3. \A o \in VotesFor(p) : IsMessage(o)
      BY <3>1 DEF Vote, IsMessage
    <3> QED
      BY <2>2, <3>2, <3>3
  <2> HIDE DEF Sent
  <2> QED
    BY <2>1, <2>2
<1> QED
  BY <1>4, <1>6, <1>7, InitAwake DEF FiledInv

LEMMA NextFiled ==
  ASSUME FiledInv, [Next]_vars
  PROVE  FiledInv'
<1>0. /\ WakeInv /\ WindowInv /\ IsWindow(consensus) /\ IsAwake(consensus) /\ IsFiled(consensus)
      /\ consensus.view.seq \in Nat /\ consensus.guard.view.seq \in Nat
      /\ \A m \in net : IsMessage(m)
  BY ZenonT(60) DEF FiledInv, WakeInv, WindowInv
<1>1. WakeInv'
  BY <1>0, NextAwake
<1> SUFFICES FiledNext
  BY ZenonT(60), <1>1
     DEF FiledInv, FiledNext, IsFiled, FiledDecision, FiledQueues, FiledViews, Filed, OfView,
         IsMessage
<1>2. ASSUME NEW s, Poll(s)
      PROVE  FiledNext
  BY <1>2, PollKeepsFiled
<1>3. CASE PollDecided
  <2>1. FinalizeAllPossible(consensus) /\ net' = net
    BY <1>3 DEF PollDecided
  <2> QED
    BY <1>0, <2>1, FinalizeAllPossibleFiled, FinalizeAllPossibleWindow DEF FiledNext
<1>4. ASSUME NEW m \in net, Receive(m)
      PROVE  FiledNext
  <2>1. AdvConsensus(consensus, m, net \ {m})
    BY <1>4 DEF Receive
  <2>2. IsMessage(m) /\ \A p \in net \ {m} : IsMessage(p)
    BY ZenonT(60), <1>0
  <2> QED
    BY ZenonT(60), <1>0, <2>1, <2>2, AdvConsensusFiled
<1>5. ASSUME NEW m \in net, QueueOffContext(m)
      PROVE  FiledNext
  <2>1. consensus' = Queue(consensus, m) /\ net' = net \ {m}
    BY <1>5 DEF QueueOffContext
  <2>2. IsMessage(m) /\ m.seq \in Nat /\ \A p \in net' : IsMessage(p)
    BY ZenonT(60), <1>0, <2>1 DEF IsMessage
  <2>3. IsFiled(Queue(consensus, m)) /\ Queue(consensus, m).guard = consensus.guard
    BY <1>0, <2>2, QueueFiled, QueueWindow
  <2> QED
    BY <1>0, <2>1, <2>2, <2>3 DEF FiledNext
<1>6. ASSUME NEW s \in consensus.guard.seqs, Propose(s)
      PROVE  FiledNext
  <2> DEFINE g == TakeSeqNo(consensus.guard, s)
             e == [consensus EXCEPT !.guard = g]
             w == consensus.guard.view.seq
  <2>1. consensus' = e
    BY <1>6 DEF Propose
  <2>2. PICK b \in Batch : net' = net \cup {PrePrepare(w, s, b)}
    BY <1>6 DEF Propose
  <2>3. s \in Nat
    BY <1>0 DEF IsWindow, IsGuard
  <2>4. IsMessage(PrePrepare(w, s, b))
    BY <1>0, <2>3 DEF PrePrepare, IsMessage, Kinds
  <2>5. \A m \in net' : IsMessage(m)
    BY ZenonT(60), <1>0, <2>2, <2>4
  <2>6. g.view = consensus.guard.view
    BY ZenonT(60), <1>0 DEF TakeSeqNo, IsGuard, IsWindow
  <2> HIDE DEF g
  <2>7. /\ e.decisions = consensus.decisions /\ e.seqNo = consensus.seqNo
        /\ e.view = consensus.view /\ e.tbo = consensus.tbo /\ e.viewQueue = consensus.viewQueue
        /\ e.guard = g
    BY <1>0 DEF IsWindow, IsConsensusStruct
  <2> HIDE DEF e
  <2>8. IsFiled(e)
    BY <1>0, <2>7, FiledKept
  <2> QED
    BY <1>0, <2>1, <2>5, <2>6, <2>7, <2>8 DEF FiledNext
<1>7. ASSUME NEW seq \in InstallSeq, StateInstalled(seq)
      PROVE  FiledNext
  <2>1. consensus' = InstallSequenceNumber(consensus, seq) /\ seq \in Nat /\ net' = net
    BY <1>7, WindowAssumption DEF StateInstalled
  <2> QED
    BY <1>0, <2>1, InstallSequenceNumberFiled, InstallSequenceNumberGuard DEF FiledNext
<1>8. ASSUME NEW v \in 1..MaxView, ViewInstalled(v)
      PROVE  FiledNext
  <2> DEFINE view == View(v)
  <2>1. consensus' = InstallView(consensus, view) /\ v > consensus.view.seq /\ net' = net
    BY <1>8 DEF ViewInstalled
  <2>2. view.seq = v /\ v \in Nat
    BY WindowAssumption DEF View
  <2> HIDE DEF view
  <2>3. view.seq \in Nat /\ view.seq > consensus.view.seq
    BY <2>1, <2>2
  <2>4. IsFiled(InstallView(consensus, view)) /\ InstallView(consensus, view).guard.view = view
    BY ZenonT(60), <1>0, <2>3, InstallViewFiled
  <2> QED
    BY <1>0, <2>1, <2>3, <2>4 DEF FiledNext
<1>9. ASSUME NEW v \in 1..MaxView, NEW proof, NEW f \in 0..MaxSeq, NEW b,
             ViewChanged(v, proof, PrePrepare(v, f, b))
      PROVE  FiledNext
  <2> DEFINE m == PrePrepare(v, f, b)
  <2>1. IsMessage(m)
    BY WindowAssumption DEF PrePrepare, IsMessage, Kinds
  <2>2. ViewChanged(v, proof, m)
    BY <1>9
  <2> HIDE DEF m
  <2> QED
    BY <2>1, <2>2, ViewChangedFiled
<1>10. CASE UNCHANGED vars
  BY <1>0, <1>10 DEF vars, FiledNext
<1>11. CASE Run
  BY ZenonT(60), <1>2, <1>3, <1>4, <1>11 DEF Run
<1>12. CASE Next
  BY ZenonT(60), <1>5, <1>6, <1>7, <1>8, <1>9, <1>11, <1>12 DEF Next
<1> QED
  BY <1>10, <1>12

(***************************************************************************)
(* Nothing is misfiled: every message that waits in an instance, in the    *)
(* TboQueue or in the queue of later views waits at the place of its own   *)
(* kind, view and instance, for any window, any messages and any sequence  *)
(* of decisions, view changes and state transfers that moved the queues.   *)
(***************************************************************************)
THEOREM NothingMisfiledHolds == Spec => []NothingMisfiled
<1>1. Init => FiledInv
  BY InitFiled
<1>2. FiledInv /\ [Next]_vars => FiledInv'
  BY NextFiled
<1>3. FiledInv => NothingMisfiled
  <2> SUFFICES ASSUME FiledInv
               PROVE  NothingMisfiled
    OBVIOUS
  <2> DEFINE c == consensus
             v == c.view.seq
  <2>1. DOMAIN c.decisions = 1..Watermark /\ c.seqNo \in Nat
    BY DEF FiledInv, WakeInv, WindowInv, IsWindow, AreDecisions
  <2>2. /\ \A i \in 1..Watermark : FiledDecision(c.decisions[i], v, c.seqNo + i - 1)
        /\ \A k \in Kinds : FiledQueues(c.tbo.queue[k], k, v, c.seqNo + Watermark)
        /\ FiledViews(c.viewQueue, v)
    BY ZenonT(60) DEF FiledInv, IsFiled
  <2>3. ASSUME NEW i \in DOMAIN c.decisions, NEW k \in Kinds
        PROVE  AllFor(c.decisions[i].queue[k], k, v, c.seqNo + i - 1)
    BY ZenonT(60), <2>1, <2>2, FiledAll DEF FiledDecision
  <2>4. ASSUME NEW k \in Kinds, NEW i \in DOMAIN c.tbo.queue[k]
        PROVE  AllFor(c.tbo.queue[k][i], k, v, c.seqNo + Watermark + i - 1)
    <3> DEFINE q == c.tbo.queue[k]
    <3>1. /\ q = [j \in 1..Len(q) |-> q[j]]
          /\ \A j \in 1..Len(q) : Filed(q[j], k, v, (c.seqNo + Watermark) + j - 1)
      BY ZenonT(60), <2>2 DEF FiledQueues
    <3>2. i \in 1..Len(q)
      <4> HIDE DEF q
      <4>1. DOMAIN q = 1..Len(q)
        BY ZenonT(60), <3>1
      <4> QED
        BY <4>1 DEF q
    <3> QED
      BY ZenonT(60), <3>1, <3>2, FiledAll
  <2>5. ASSUME NEW i \in DOMAIN c.viewQueue, NEW j \in DOMAIN c.viewQueue[i]
        PROVE  c.viewQueue[i][j].view = v + i
    <3> DEFINE q == c.viewQueue
    <3>1. /\ q = [o \in 1..Len(q) |-> q[o]]
          /\ \A o \in 1..Len(q) : OfView(q[o], v + o)
      BY ZenonT(60), <2>2 DEF FiledViews
    <3>2. i \in 1..Len(q)
      <4> HIDE DEF q
      <4>1. DOMAIN q = 1..Len(q)
        BY ZenonT(60), <3>1
      <4> QED
        BY <4>1 DEF q
    <3>3. PICK S : q[i] \in Seq(S) /\ \A m \in S : m.kind \in Kinds /\ m.view = v + i /\ m.seq \in Nat
      BY ZenonT(60), <3>1, <3>2 DEF OfView
    <3>4. q[i][j] \in S
      BY <3>3
    <3> QED
      BY ZenonT(60), <3>3, <3>4
  <2> QED
    BY ZenonT(60), <2>3, <2>4, <2>5 DEF NothingMisfiled
<1> QED
  BY <1>1, <1>2, <1>3, PTL DEF Spec
=============================================================================
