-------------------------- MODULE ViewChangeProofs --------------------------
(***************************************************************************)
(* The synchronizers, for any number of replicas, views and messages of    *)
(* the other nodes: where their queues stand, the STOPs they count, when   *)
(* they are looked at again, and the votes with which they add a node.     *)
(***************************************************************************)
EXTENDS ViewChange, FiniteSetTheorems, TLAPS

USE ZenonT(60)

\* A sequence over a set is one over any larger set.
LEMMA SeqGrows ==
  ASSUME NEW S, NEW T, S \subseteq T
  PROVE  Seq(S) \subseteq Seq(T)
BY SMTT(120)

-----------------------------------------------------------------------------
(***************************************************************************)
(* The queues.                                                             *)
(***************************************************************************)
QueueNames == {"stop", "stopData", "sync"}

\* Queues of kind q whose first is for the view after v.
AlignedQueues(queues, q, v) ==
  \E M : /\ queues \in Seq(Seq(M))
         /\ \A i \in DOMAIN queues : \A j \in DOMAIN queues[i] :
              QueueFor(queues[i][j]) = q /\ queues[i][j].view = v + i

LEMMA PutAligned ==
  ASSUME NEW queues, NEW q, NEW v \in Int, AlignedQueues(queues, q, v),
         NEW m, QueueFor(m) = q, m.view \in Int, m.view > v
  PROVE  AlignedQueues(Put(queues, m.view - v, m), q, v)
<1>1. PICK M : /\ queues \in Seq(Seq(M))
               /\ \A i \in DOMAIN queues : \A j \in DOMAIN queues[i] :
                    QueueFor(queues[i][j]) = q /\ queues[i][j].view = v + i
  BY DEF AlignedQueues
<1> DEFINE n == m.view - v
           N == M \cup {m}
           old(j) == IF j <= Len(queues) THEN queues[j] ELSE << >>
           new(j) == IF j = n THEN Append(old(j), m) ELSE old(j)
           len == Larger(Len(queues), n)
           put == [j \in 1..len |-> new(j)]
<1>2. n \in Nat \ {0} /\ Len(queues) \in Nat /\ len \in Nat /\ Len(queues) <= len
  BY SMTT(120), <1>1 DEF Larger
<1>3. ASSUME NEW j \in 1..len
      PROVE  /\ old(j) \in Seq(N)
             /\ \A k \in DOMAIN old(j) : QueueFor(old(j)[k]) = q /\ old(j)[k].view = v + j
  <2>1. CASE j <= Len(queues)
    <3>1. j \in 1..Len(queues) /\ old(j) = queues[j]
      BY SMTT(120), <2>1, <1>2
    <3>2. queues[j] \in Seq(M)
      BY SMTT(120), <3>1, <1>1
    <3>3. queues[j] \in Seq(N)
      BY <3>2, SeqGrows
    <3>4. j \in DOMAIN queues
      BY SMTT(120), <3>1, <1>1
    <3> QED
      BY SMTT(120), <3>1, <3>3, <3>4, <1>1
  <2>2. CASE ~ (j <= Len(queues))
    BY SMTT(120), <2>2
  <2> QED
    BY <2>1, <2>2
<1>4. ASSUME NEW j \in 1..len
      PROVE  /\ new(j) \in Seq(N)
             /\ \A k \in DOMAIN new(j) : QueueFor(new(j)[k]) = q /\ new(j)[k].view = v + j
  <2>1. CASE j = n
    <3> DEFINE o == old(j)
    <3>1. o \in Seq(N) /\ m \in N
      BY <1>3
    <3>2. \A k \in DOMAIN o : QueueFor(o[k]) = q /\ o[k].view = v + j
      BY <1>3
    <3>3. new(j) = Append(o, m)
      BY <2>1
    <3>4. m.view = v + j
      BY SMTT(120), <2>1
    <3> HIDE DEF o, N
    <3>5. Append(o, m) \in Seq(N)
      BY SMTT(120), <3>1
    <3>6. ASSUME NEW k \in DOMAIN Append(o, m)
          PROVE  Append(o, m)[k] = m \/ (k \in DOMAIN o /\ Append(o, m)[k] = o[k])
      BY SMTT(120), <3>1
    <3> HIDE DEF new
    <3> QED
      BY SMTT(120), <3>2, <3>3, <3>4, <3>5, <3>6
  <2>2. CASE j # n
    BY <2>2, <1>3
  <2> QED
    BY <2>1, <2>2
<1>5. put = Put(queues, m.view - v, m)
  BY DEF Put
<1> HIDE DEF new, old, n, len
<1>6. put \in Seq(Seq(N))
  BY SMTT(120), <1>2, <1>4
<1>7. \A i \in DOMAIN put : \A j \in DOMAIN put[i] : QueueFor(put[i][j]) = q /\ put[i][j].view = v + i
  BY <1>4
<1> HIDE DEF put, N
<1> QED
  BY <1>5, <1>6, <1>7 DEF AlignedQueues

LEMMA DropAligned ==
  ASSUME NEW queues, NEW q, NEW v \in Int, AlignedQueues(queues, q, v), NEW n \in Nat
  PROVE  AlignedQueues(DropQueues(queues, n), q, v + n)
<1>1. PICK M : /\ queues \in Seq(Seq(M))
               /\ \A i \in DOMAIN queues : \A j \in DOMAIN queues[i] :
                    QueueFor(queues[i][j]) = q /\ queues[i][j].view = v + i
  BY DEF AlignedQueues
<1> DEFINE rest == SubSeq(queues, n + 1, Len(queues))
<1>2. Len(queues) \in Nat
  BY SMTT(120), <1>1
<1>3. \A i \in (n + 1)..Len(queues) : queues[i] \in Seq(M)
  BY SMTT(120), <1>1, <1>2
<1>4. /\ rest \in Seq(Seq(M))
      /\ Len(rest) = IF n + 1 <= Len(queues) THEN Len(queues) - (n + 1) + 1 ELSE 0
      /\ \A i \in 1..(Len(queues) - (n + 1) + 1) : rest[i] = queues[n + 1 + i - 1]
  BY SMTT(120), <1>2, <1>3
<1>5. ASSUME NEW i \in DOMAIN rest
      PROVE  n + i \in DOMAIN queues /\ rest[i] = queues[n + i]
  <2> HIDE DEF rest
  <2>1. i \in 1..Len(rest)
    BY SMTT(120), <1>4
  <2>2. n + 1 <= Len(queues) /\ i \in 1..(Len(queues) - n) /\ n + i \in 1..Len(queues)
    BY SMTT(120), <1>2, <1>4, <2>1
  <2>3. rest[i] = queues[n + i]
    BY SMTT(120), <1>2, <1>4, <2>2
  <2> QED
    BY SMTT(120), <1>1, <2>2, <2>3
<1>6. \A i \in DOMAIN rest : \A j \in DOMAIN rest[i] :
        QueueFor(rest[i][j]) = q /\ rest[i][j].view = (v + n) + i
  <2> HIDE DEF rest
  <2> SUFFICES ASSUME NEW i \in DOMAIN rest, NEW j \in DOMAIN rest[i]
               PROVE  QueueFor(rest[i][j]) = q /\ rest[i][j].view = (v + n) + i
    OBVIOUS
  <2>1. QueueFor(rest[i][j]) = q /\ rest[i][j].view = v + (n + i)
    BY SMTT(120), <1>1, <1>5
  <2>2. i \in Int
    BY SMTT(120), <1>4
  <2> QED
    BY SMTT(120), <2>1, <2>2
<1> QED
  BY <1>4, <1>6 DEF AlignedQueues, DropQueues

LEMMA TailAligned ==
  ASSUME NEW queues, NEW q, NEW v \in Int, AlignedQueues(queues, q, v),
         Len(queues) > 0, queues[1] # << >>
  PROVE  /\ AlignedQueues([queues EXCEPT ![1] = Tail(@)], q, v)
         /\ QueueFor(Head(queues[1])) = q /\ Head(queues[1]).view = v + 1
<1>1. PICK M : /\ queues \in Seq(Seq(M))
               /\ \A i \in DOMAIN queues : \A j \in DOMAIN queues[i] :
                    QueueFor(queues[i][j]) = q /\ queues[i][j].view = v + i
  BY DEF AlignedQueues
<1>2. 1 \in DOMAIN queues /\ queues[1] \in Seq(M)
  BY SMTT(120), <1>1
<1> DEFINE first == queues[1]
<1>3. /\ Tail(first) \in Seq(M) /\ Len(Tail(first)) = Len(first) - 1
      /\ \A i \in 1..Len(Tail(first)) : Tail(first)[i] = first[i + 1]
  BY SMTT(120), <1>2
<1>4. Len(first) \in Nat \ {0} /\ DOMAIN first = 1..Len(first) /\ Head(first) = first[1]
  BY SMTT(120), <1>2
<1>5. QueueFor(Head(first)) = q /\ Head(first).view = v + 1
  <2>1. 1 \in DOMAIN first
    BY SMTT(120), <1>4
  <2> QED
    BY <1>1, <1>2, <1>4, <2>1
<1>6. ASSUME NEW j \in DOMAIN Tail(first)
      PROVE  QueueFor(Tail(first)[j]) = q /\ Tail(first)[j].view = v + 1
  <2> HIDE DEF first
  <2>1. j \in 1..Len(Tail(first)) /\ Tail(first)[j] = first[j + 1]
    BY SMTT(120), <1>3
  <2>2. j + 1 \in DOMAIN first
    BY SMTT(120), <1>3, <1>4, <2>1
  <2> QED
    BY <1>1, <1>2, <2>1, <2>2 DEF first
<1> DEFINE rest == [queues EXCEPT ![1] = Tail(first)]
<1>7. rest \in Seq(Seq(M)) /\ DOMAIN rest = DOMAIN queues
  BY SMTT(120), <1>1, <1>2, <1>3
<1>8. \A i \in DOMAIN rest : \A j \in DOMAIN rest[i] :
        QueueFor(rest[i][j]) = q /\ rest[i][j].view = v + i
  <2> SUFFICES ASSUME NEW i \in DOMAIN queues, NEW j \in DOMAIN rest[i]
               PROVE  QueueFor(rest[i][j]) = q /\ rest[i][j].view = v + i
    BY <1>7
  <2>1. CASE i = 1
    BY <1>6, <2>1
  <2>2. CASE i # 1
    BY <1>1, <2>2
  <2> QED
    BY <2>1, <2>2
<1> QED
  BY <1>5, <1>7, <1>8 DEF AlignedQueues
-----------------------------------------------------------------------------
(***************************************************************************)
(* The operations of a synchronizer: they leave its queues where they are, *)
(* or move them with its view.                                             *)
(***************************************************************************)
SyncFields == {"view", "next", "phase", "count", "stopped", "adding", "addingNode",
               "collects", "queue", "signalled", "finalizing"}

IsSync(s) ==
  /\ s = [field \in SyncFields |-> s[field]]
  /\ s.queue = [q \in QueueNames |-> s.queue[q]]
  /\ s.view.seq \in Int /\ s.next.seq \in Int
  /\ \A q \in QueueNames : AlignedQueues(s.queue[q], q, s.view.seq)

HaveViews(messages) == \A m \in messages : m.view \in Int

IsResult(res) == IsSync(res.sync) /\ HaveViews(res.sends)

LEMMA SameQueues ==
  ASSUME NEW s, IsSync(s), NEW t, t = [field \in SyncFields |-> t[field]],
         t.view = s.view, t.queue = s.queue, t.next.seq \in Int
  PROVE  IsSync(t)
BY DEF IsSync

LEMMA SyncQueueSync ==
  ASSUME NEW s, IsSync(s), NEW m, m.view \in Int
  PROVE  IsSync(SyncQueue(s, m)) /\ SyncQueue(s, m) =
           [field \in SyncFields |-> IF field = "queue" THEN SyncQueue(s, m).queue ELSE s[field]]
<1>1. CASE m.view <= s.view.seq
  <2>1. SyncQueue(s, m) = s
    BY <1>1 DEF SyncQueue
  <2> QED
    BY <2>1 DEF IsSync
<1>2. CASE ~ (m.view <= s.view.seq)
  <2> DEFINE q == QueueFor(m)
             put == Put(s.queue[q], m.view - s.view.seq, m)
             t == [s EXCEPT !.queue = [@ EXCEPT ![q] = put]]
  <2>1. SyncQueue(s, m) = t
    BY <1>2 DEF SyncQueue
  <2>2. q \in QueueNames
    BY DEF QueueFor, QueueNames
  <2>3. AlignedQueues(put, q, s.view.seq)
    <3>1. s.view.seq \in Int /\ m.view > s.view.seq /\ AlignedQueues(s.queue[q], q, s.view.seq)
      BY SMTT(120), <1>2, <2>2 DEF IsSync
    <3> QED
      BY <3>1, PutAligned
  <2> HIDE DEF put, q
  <2>4. t.queue = [s.queue EXCEPT ![q] = put]
    BY DEF IsSync, SyncFields
  <2>5. /\ t = [field \in SyncFields |-> IF field = "queue" THEN t.queue ELSE s[field]]
        /\ t = [field \in SyncFields |-> t[field]]
    BY DEF IsSync, SyncFields
  <2> HIDE DEF t
  <2>6. t.view = s.view /\ t.next = s.next
    BY <2>5 DEF SyncFields
  <2>7. t.queue = [k \in QueueNames |-> t.queue[k]]
    BY <2>4 DEF IsSync
  <2>8. \A k \in QueueNames : AlignedQueues(t.queue[k], k, t.view.seq)
    BY <2>2, <2>3, <2>4, <2>6 DEF IsSync
  <2>9. IsSync(t)
    BY <2>5, <2>6, <2>7, <2>8 DEF IsSync
  <2> QED
    BY <2>1, <2>5, <2>9
<1> QED
  BY <1>1, <1>2

LEMMA InstallInTboSync ==
  ASSUME NEW s, IsSync(s), NEW view, view.seq \in Int
  PROVE  IsSync(InstallInTbo(s, view)) /\ InstallInTbo(s, view) =
           [field \in SyncFields |-> IF field \in {"view", "queue"}
                                       THEN InstallInTbo(s, view)[field] ELSE s[field]]
<1>1. CASE view.seq <= s.view.seq
  <2>1. InstallInTbo(s, view) = s
    BY <1>1 DEF InstallInTbo
  <2> QED
    BY <2>1 DEF IsSync
<1>2. CASE ~ (view.seq <= s.view.seq)
  <2> DEFINE n == view.seq - s.view.seq
             queue == [q \in DOMAIN s.queue |-> DropQueues(s.queue[q], n)]
             t == [s EXCEPT !.view = view, !.queue = queue]
  <2>1. InstallInTbo(s, view) = t
    BY <1>2 DEF InstallInTbo, IsSync, SyncFields
  <2>2. n \in Nat /\ s.view.seq + n = view.seq /\ s.view.seq \in Int
    BY SMTT(120), <1>2 DEF IsSync
  <2> HIDE DEF n
  <2>3. ASSUME NEW q \in QueueNames
        PROVE  AlignedQueues(queue[q], q, view.seq)
    <3>1. queue[q] = DropQueues(s.queue[q], n)
      BY DEF IsSync
    <3>2. AlignedQueues(DropQueues(s.queue[q], n), q, s.view.seq + n)
      BY <2>2, DropAligned DEF IsSync
    <3> QED
      BY <2>2, <3>1, <3>2
  <2>4. queue = [q \in QueueNames |-> queue[q]]
    BY DEF IsSync
  <2> HIDE DEF queue
  <2>5. /\ t = [field \in SyncFields |-> IF field \in {"view", "queue"} THEN t[field] ELSE s[field]]
        /\ t = [field \in SyncFields |-> t[field]]
        /\ t.view = view /\ t.queue = queue /\ t.next = s.next
    BY DEF IsSync, SyncFields
  <2> HIDE DEF t
  <2>6. IsSync(t)
    BY <2>3, <2>4, <2>5 DEF IsSync
  <2> QED
    BY <2>1, <2>5, <2>6
<1> QED
  BY <1>1, <1>2

LEMMA AfterPollSync ==
  ASSUME NEW s, IsSync(s), CanProcess(s, PolledQueue(s))
  PROVE  /\ IsSync(AfterPoll(s)) /\ PolledMessage(s).view = s.view.seq + 1
         /\ AfterPoll(s) = [field \in SyncFields |->
                              IF field \in {"phase", "count", "queue"} THEN AfterPoll(s)[field]
                                                                       ELSE s[field]]
<1> DEFINE q == PolledQueue(s)
           rest == [s.queue[q] EXCEPT ![1] = Tail(@)]
           t == [s EXCEPT !.queue = [@ EXCEPT ![q] = rest]]
<1>1. q \in QueueNames
  BY DEF PolledQueue, QueueNames
<1>2. s.view.seq \in Int /\ AlignedQueues(s.queue[q], q, s.view.seq)
  BY <1>1 DEF IsSync
<1>3. AlignedQueues(rest, q, s.view.seq) /\ Head(s.queue[q][1]).view = s.view.seq + 1
  BY <1>2, TailAligned DEF CanProcess
<1>4. t = [s EXCEPT !.queue[PolledQueue(s)][1] = Tail(@)]
  OBVIOUS
<1> HIDE DEF rest, q
<1>5. t.queue = [s.queue EXCEPT ![q] = rest]
  BY DEF IsSync, SyncFields
<1>6. /\ t = [field \in SyncFields |-> IF field = "queue" THEN t.queue ELSE s[field]]
      /\ t = [field \in SyncFields |-> t[field]]
  BY DEF IsSync, SyncFields
<1> HIDE DEF t
<1>7. t.view = s.view /\ t.next = s.next
  BY <1>6 DEF SyncFields
<1>8. t.queue = [k \in QueueNames |-> t.queue[k]]
  BY <1>5 DEF IsSync
<1>9. \A k \in QueueNames : AlignedQueues(t.queue[k], k, t.view.seq)
  BY <1>1, <1>3, <1>5, <1>7 DEF IsSync
<1>10. IsSync(t)
  BY <1>6, <1>7, <1>8, <1>9 DEF IsSync
<1>11. PolledMessage(s).view = s.view.seq + 1
  BY <1>3 DEF PolledMessage, q
<1>12. CASE s.phase # "Init"
  <2>1. AfterPoll(s) = t
    BY <1>4, <1>12 DEF AfterPoll
  <2> QED
    BY <1>6, <1>10, <1>11, <2>1
<1>13. CASE s.phase = "Init"
  <2>1. PICK phase : AfterPoll(s) = EnterPhase(t, phase, 0)
    BY <1>4, <1>13 DEF AfterPoll
  <2> DEFINE u == EnterPhase(t, phase, 0)
  <2>2. /\ u = [field \in SyncFields |-> IF field \in {"phase", "count", "queue"} THEN u[field]
                                                                                 ELSE s[field]]
        /\ u = [field \in SyncFields |-> u[field]]
        /\ u.view = t.view /\ u.queue = t.queue /\ u.next = t.next
    BY <1>6 DEF EnterPhase, SyncFields
  <2> HIDE DEF u
  <2>3. IsSync(u)
    BY <1>10, <2>2, SameQueues DEF IsSync
  <2> QED
    BY <1>11, <2>1, <2>2, <2>3 DEF u
<1> QED
  BY <1>12, <1>13
\* A synchronizer that differs in fields other than its view and its queues.
LEMMA StoppingQuorumSync ==
  ASSUME NEW self, NEW s, IsSync(s), NEW next, next.seq \in Int, NEW last
  PROVE  IsResult(StoppingQuorum(self, s, next, last))
<1> DEFINE res == StoppingQuorum(self, s, next, last)
<1>1. PICK phase : res.sync = EnterPhase([s EXCEPT !.next = next, !.stopped = {}], phase, 0)
  BY DEF StoppingQuorum, Result
<1>2. \A m \in res.sends : m.view = next.seq
  BY SMTT(120) DEF StoppingQuorum, Result
<1> HIDE DEF res
<1> DEFINE t == EnterPhase([s EXCEPT !.next = next, !.stopped = {}], phase, 0)
<1>3. /\ t = [field \in SyncFields |-> t[field]]
      /\ t.view = s.view /\ t.queue = s.queue /\ t.next = next
  BY DEF IsSync, SyncFields, EnterPhase
<1> HIDE DEF t
<1>4. IsSync(t)
  BY <1>3, SameQueues
<1> QED
  BY <1>1, <1>2, <1>4 DEF IsResult, HaveViews, t, res

LEMMA UnchangedResult ==
  ASSUME NEW s, IsSync(s), NEW status, NEW last
  PROVE  IsResult(Result(s, status, {}, last))
BY DEF IsResult, HaveViews, Result

LEMMA ProcessStopSync ==
  ASSUME NEW self, NEW s, IsSync(s), NEW last, NEW m
  PROVE  IsResult(ProcessStop(self, s, last, m))
<1> DEFINE t == [s EXCEPT !.stopped = @ \cup {m}, !.count = @ + 1]
           u == [t EXCEPT !.phase = "Stopping2"]
           res == ProcessStop(self, s, last, m)
<1>1. /\ t = [field \in SyncFields |-> t[field]]
      /\ t.view = s.view /\ t.queue = s.queue /\ t.next = s.next
  BY DEF IsSync, SyncFields
<1>2. \/ res = Result(u, "Running", Stops(self, s), last)
      \/ res = StoppingQuorum(self, t, NextView(s.view), last)
      \/ \E status : res = Result(t, status, {}, last)
  BY DEF ProcessStop
<1> HIDE DEF t, res
<1>3. /\ u = [field \in SyncFields |-> u[field]]
      /\ u.view = s.view /\ u.queue = s.queue /\ u.next = s.next
  BY <1>1 DEF SyncFields
<1> HIDE DEF u
<1>4. IsSync(t) /\ IsSync(u)
  BY <1>1, <1>3, SameQueues DEF IsSync
<1>5. HaveViews(Stops(self, s))
  BY SMTT(120) DEF HaveViews, Stops, IsSync
<1>6. NextView(s.view).seq \in Int
  BY SMTT(120) DEF NextView, Peek, NewViewInfo, IsSync
<1>7. CASE res = Result(u, "Running", Stops(self, s), last)
  BY SMTT(120), <1>4, <1>5, <1>7 DEF IsResult, Result, res
<1>8. CASE res = StoppingQuorum(self, t, NextView(s.view), last)
  BY <1>4, <1>6, <1>8, StoppingQuorumSync DEF res
<1>9. CASE \E status : res = Result(t, status, {}, last)
  BY <1>4, <1>9, UnchangedResult DEF res
<1> QED
  BY <1>2, <1>7, <1>8, <1>9

LEMMA ProcessStoppingSync ==
  ASSUME NEW self, NEW s, IsSync(s), NEW last, NEW m, m.view \in Int
  PROVE  IsResult(ProcessStopping(self, s, last, m))
<1> DEFINE res == ProcessStopping(self, s, last, m)
<1>1. \/ \E t \in {s, SyncQueue(s, m)} : \E status : res = Result(t, status, {}, last)
      \/ res = ProcessStop(self, s, last, m)
  BY DEF ProcessStopping
<1>2. IsSync(SyncQueue(s, m)) /\ IsResult(ProcessStop(self, s, last, m))
  BY SyncQueueSync, ProcessStopSync
<1> HIDE DEF res
<1> QED
  BY <1>1, <1>2, UnchangedResult DEF res

LEMMA ProcessJoinSync ==
  ASSUME NEW self, NEW s, IsSync(s), NEW last, NEW m
  PROVE  IsResult(ProcessJoin(self, s, last, m))
<1> DEFINE t == [s EXCEPT !.adding = @ \cup {[node |-> m.node, voter |-> m.from]}, !.count = @ + 1]
           u == [t EXCEPT !.addingNode = m.node]
           next == NextViewWithNewNode(s.view, MostVoted(t))
           res == ProcessJoin(self, s, last, m)
<1>1. /\ t = [field \in SyncFields |-> t[field]]
      /\ t.view = s.view /\ t.queue = s.queue /\ t.next = s.next
  BY DEF IsSync, SyncFields
<1>2. \/ \E phase \in {"ViewStopping", "ViewStopping2", "Panicked"} :
           res = Result([t EXCEPT !.phase = phase], "Running", {}, last)
      \/ res = StoppingQuorum(self, u, next, last)
  <2>1. \/ res = Result([t EXCEPT !.phase = "ViewStopping2"], "Running", {}, last)
        \/ res = StoppingQuorum(self, u, next, last)
        \/ res = Result(IF t.count >= Len(s.view.members) THEN Panic(t)
                          ELSE [t EXCEPT !.phase = "ViewStopping"], "Running", {}, last)
    <3> HIDE DEF t, next
    <3> QED
      BY SMTT(120) DEF ProcessJoin, t, next
  <2> HIDE DEF t, res, next
  <2> QED
    BY <2>1 DEF Panic
<1>3. next.seq \in Int
  BY SMTT(120) DEF NextViewWithNewNode, FromQuorum, IsSync
<1> HIDE DEF t, res, next
<1>4. ASSUME NEW phase
      PROVE  IsSync([t EXCEPT !.phase = phase])
  <2> DEFINE w == [t EXCEPT !.phase = phase]
  <2>1. /\ w = [field \in SyncFields |-> w[field]]
        /\ w.view = s.view /\ w.queue = s.queue /\ w.next = s.next
    BY <1>1 DEF SyncFields
  <2> HIDE DEF w
  <2>2. IsSync(w)
    BY <2>1, SameQueues DEF IsSync
  <2> QED
    BY <2>2 DEF w
<1>5. IsSync(u)
  <2>1. /\ u = [field \in SyncFields |-> u[field]]
        /\ u.view = s.view /\ u.queue = s.queue /\ u.next = s.next
    BY <1>1 DEF SyncFields
  <2> HIDE DEF u
  <2> QED
    BY <2>1, SameQueues DEF IsSync
<1>6. CASE \E phase : res = Result([t EXCEPT !.phase = phase], "Running", {}, last)
  <2>1. PICK phase : res = Result([t EXCEPT !.phase = phase], "Running", {}, last)
    BY <1>6
  <2>2. IsSync([t EXCEPT !.phase = phase])
    BY <1>4
  <2> QED
    BY <2>1, <2>2, UnchangedResult DEF res
<1>7. CASE res = StoppingQuorum(self, u, next, last)
  <2> HIDE DEF u
  <2> QED
    BY <1>3, <1>5, <1>7, StoppingQuorumSync DEF res
<1> QED
  BY <1>2, <1>6, <1>7

LEMMA ProcessViewStoppingSync ==
  ASSUME NEW self, NEW s, IsSync(s), NEW last, NEW m, m.view \in Int
  PROVE  IsResult(ProcessViewStopping(self, s, last, m))
<1> DEFINE res == ProcessViewStopping(self, s, last, m)
           t == SyncQueue(s, m)
           u == EnterPhase(t, "Stopping", 0)
<1>1. \/ \E status : res = Result(t, status, {}, last)
      \/ res = Result(u, "Running", {}, last)
      \/ res = ProcessJoin(self, s, last, m)
  BY DEF ProcessViewStopping
<1>2. IsSync(t) /\ IsResult(ProcessJoin(self, s, last, m))
  BY SyncQueueSync, ProcessJoinSync
<1> HIDE DEF t
<1>3. /\ u = [field \in SyncFields |-> u[field]]
      /\ u.view = t.view /\ u.queue = t.queue /\ u.next = t.next
  BY <1>2 DEF EnterPhase, SyncFields, IsSync
<1> HIDE DEF u, res
<1>4. IsSync(u)
  BY <1>2, <1>3, SameQueues DEF IsSync
<1> QED
  BY <1>1, <1>2, <1>4, UnchangedResult DEF res

LEMMA FinalizeSync ==
  ASSUME NEW s, IsSync(s), NEW last, NEW state, NEW proof, NEW sends, HaveViews(sends)
  PROVE  IsResult(Finalize(s, last, state, proof, sends))
<1> DEFINE res == Finalize(s, last, state, proof, sends)
           transfer == [s EXCEPT !.finalizing = state, !.phase = "SyncingState"]
           panic == Panic(s)
           installed == InstallInTbo(s, s.next)
           advanced == AdvanceView(s)
           done(a) == [EnterPhase(advanced, "Init", 0) EXCEPT !.adding = a, !.addingNode = NoNode]
<1>1. /\ transfer = [field \in SyncFields |-> transfer[field]]
      /\ transfer.view = s.view /\ transfer.queue = s.queue /\ transfer.next = s.next
  BY DEF IsSync, SyncFields
<1>2. /\ panic = [field \in SyncFields |-> panic[field]]
      /\ panic.view = s.view /\ panic.queue = s.queue /\ panic.next = s.next
  BY DEF IsSync, SyncFields, Panic
<1>3. IsSync(advanced)
  <2>1. CASE s.next = NoView
    BY <2>1 DEF AdvanceView
  <2>2. CASE s.next # NoView
    <3>1. IsSync(installed)
      BY SMTT(120), InstallInTboSync DEF IsSync
    <3>2. advanced = [installed EXCEPT !.next = NoView]
      BY <2>2 DEF AdvanceView
    <3> HIDE DEF advanced, installed
    <3>3. /\ advanced = [field \in SyncFields |-> advanced[field]]
          /\ advanced.view = installed.view /\ advanced.queue = installed.queue
          /\ advanced.next = NoView
      BY <3>1, <3>2 DEF SyncFields, IsSync
    <3>4. NoView.seq \in Int
      BY SMTT(120) DEF NoView, NewViewInfo
    <3> QED
      BY <3>1, <3>3, <3>4, SameQueues
  <2> QED
    BY <2>1, <2>2
<1>4. \E status, newLast : \/ res = Result(transfer, status, sends, newLast)
                           \/ res = Result(s, status, sends, newLast)
                           \/ res = Result(panic, status, sends, newLast)
                           \/ \E a : res = Result(done(a), status, sends, newLast)
  <2>1. PICK a : a = IF s.addingNode = NoNode THEN EnterPhase(advanced, "Init", 0).adding ELSE {}
    OBVIOUS
  <2>2. EnterPhase(advanced, "Init", 0) = [field \in SyncFields |->
                                            EnterPhase(advanced, "Init", 0)[field]]
    BY <1>3 DEF EnterPhase, IsSync
  <2>3. [EnterPhase(advanced, "Init", 0) EXCEPT
            !.adding = IF s.addingNode = NoNode THEN @ ELSE {}, !.addingNode = NoNode] = done(a)
    BY <2>1
  <2> HIDE DEF transfer, panic, advanced, done
  <2> QED
    BY <2>3 DEF Finalize, panic, transfer, advanced
<1> HIDE DEF advanced, res, transfer, panic
<1>5. ASSUME NEW a PROVE IsSync(done(a))
  <2> DEFINE d == done(a)
  <2>1. /\ d = [field \in SyncFields |-> d[field]]
        /\ d.view = advanced.view /\ d.queue = advanced.queue /\ d.next = advanced.next
    BY <1>3 DEF EnterPhase, SyncFields, IsSync
  <2> HIDE DEF d, done
  <2>2. IsSync(d)
    BY <1>3, <2>1, SameQueues DEF IsSync
  <2> QED
    BY <2>2 DEF d
<1>6. IsSync(transfer) /\ IsSync(panic)
  BY <1>1, <1>2, SameQueues DEF IsSync
<1> HIDE DEF done
<1>7. \E t, status, newLast : res = Result(t, status, sends, newLast) /\ IsSync(t)
  BY <1>4, <1>5, <1>6
<1> QED
  BY SMTT(120), <1>7 DEF IsResult, Result, res
LEMMA ProcessStoppingDataSync ==
  ASSUME NEW self, NEW s, IsSync(s), NEW last, NEW m, m.view \in Int, NEW sound, NEW empty
  PROVE  IsResult(ProcessStoppingData(self, s, last, m, sound, empty))
<1> DEFINE res == ProcessStoppingData(self, s, last, m, sound, empty)
           t == [s EXCEPT !.collects = @ \cup {m}]
           u == [t EXCEPT !.count = @ + 1]
           state == [proof |-> HighestProof(t.collects), sound |-> sound, empty |-> empty]
           syncs == Syncs(self, s.next, state)
<1>1. \/ \E v \in {s, SyncQueue(s, m), u} : res = Result(v, "Running", {}, last)
      \/ res = Finalize(t, last, state, state.proof, syncs)
  <2>1. \/ res = Result(SyncQueue(s, m), "Running", {}, last)
        \/ res = Result(IF Leader(Peek(s.next, m.view)) = self THEN SyncQueue(s, m) ELSE s,
                        "Running", {}, last)
        \/ res = Result(s, "Running", {}, last)
        \/ res = Result(u, "Running", {}, last)
        \/ res = Finalize(t, last, state, state.proof, syncs)
    <3> HIDE DEF t, u, state
    <3> QED
      BY DEF ProcessStoppingData, t, u, state
  <2> HIDE DEF res, t, u, state
  <2> QED
    BY <2>1
<1>2. /\ t = [field \in SyncFields |-> t[field]]
      /\ t.view = s.view /\ t.queue = s.queue /\ t.next = s.next
  BY DEF IsSync, SyncFields
<1>3. HaveViews(syncs)
  <2> HIDE DEF state
  <2> QED
    BY SMTT(120) DEF HaveViews, Syncs, IsSync
<1> HIDE DEF t, res, state, syncs
<1>4. /\ u = [field \in SyncFields |-> u[field]]
      /\ u.view = s.view /\ u.queue = s.queue /\ u.next = s.next
  BY <1>2 DEF SyncFields
<1> HIDE DEF u
<1>5. IsSync(t) /\ IsSync(u) /\ IsSync(SyncQueue(s, m))
  BY <1>2, <1>4, SameQueues, SyncQueueSync DEF IsSync
<1>6. CASE \E v \in {s, SyncQueue(s, m), u} : res = Result(v, "Running", {}, last)
  BY <1>5, <1>6, UnchangedResult DEF res
<1>7. CASE res = Finalize(t, last, state, state.proof, syncs)
  BY <1>3, <1>5, <1>7, FinalizeSync DEF res
<1> QED
  BY <1>1, <1>6, <1>7

LEMMA ProcessSyncingSync ==
  ASSUME NEW s, IsSync(s), NEW last, NEW m, m.view \in Int
  PROVE  IsResult(ProcessSyncing(s, last, m))
<1> DEFINE res == ProcessSyncing(s, last, m)
           state == [proof |-> m.proof, sound |-> m.sound, empty |-> m.empty]
<1>1. \/ \E t \in {s, SyncQueue(s, m)} : res = Result(t, "Running", {}, last)
      \/ res = Finalize(s, last, state, m.proof, {})
  <2> HIDE DEF state
  <2> QED
    BY DEF ProcessSyncing, state
<1>2. IsSync(SyncQueue(s, m)) /\ HaveViews({})
  BY SyncQueueSync DEF HaveViews
<1> HIDE DEF res, state
<1>3. CASE \E t \in {s, SyncQueue(s, m)} : res = Result(t, "Running", {}, last)
  BY <1>2, <1>3, UnchangedResult DEF res
<1>4. CASE res = Finalize(s, last, state, m.proof, {})
  BY <1>2, <1>4, FinalizeSync DEF res
<1> QED
  BY <1>1, <1>3, <1>4

LEMMA PanicSync ==
  ASSUME NEW s, IsSync(s)
  PROVE  IsSync(Panic(s)) /\ IsSync(SignalQueues(s)) /\ IsSync([s EXCEPT !.signalled = FALSE])
<1> DEFINE p == Panic(s)
           t == SignalQueues(s)
           u == [s EXCEPT !.signalled = FALSE]
<1>1. p = [field \in SyncFields |-> p[field]] /\ p.view = s.view /\ p.queue = s.queue /\ p.next = s.next
  BY DEF IsSync, SyncFields, Panic
<1>2. t = [field \in SyncFields |-> t[field]] /\ t.view = s.view /\ t.queue = s.queue /\ t.next = s.next
  BY DEF IsSync, SyncFields, SignalQueues
<1>3. u = [field \in SyncFields |-> u[field]] /\ u.view = s.view /\ u.queue = s.queue /\ u.next = s.next
  BY DEF IsSync, SyncFields
<1> HIDE DEF p, t, u
<1>4. IsSync(p) /\ IsSync(t) /\ IsSync(u)
  BY <1>1, <1>2, <1>3, SameQueues DEF IsSync
<1> QED
  BY <1>4 DEF p, t, u

LEMMA ProcessMessageSync ==
  ASSUME NEW self, NEW s, IsSync(s), NEW last, NEW m, m.view \in Int, NEW sound, NEW empty
  PROVE  IsResult(ProcessMessage(self, s, last, m, sound, empty))
<1> DEFINE res == ProcessMessage(self, s, last, m, sound, empty)
<1>1. \/ res = Result(SyncQueue(s, m), "Nil", {}, last)
      \/ res = ProcessStopping(self, s, last, m)
      \/ res = ProcessViewStopping(self, s, last, m)
      \/ res = ProcessStoppingData(self, s, last, m, sound, empty)
      \/ res = ProcessSyncing(s, last, m)
      \/ res = Result(Panic(s), "Running", {}, last)
  BY DEF ProcessMessage
<1>2. IsResult(Result(SyncQueue(s, m), "Nil", {}, last))
  BY SyncQueueSync, UnchangedResult
<1>3. IsResult(Result(Panic(s), "Running", {}, last))
  BY PanicSync, UnchangedResult
<1> HIDE DEF res
<1> QED
  BY <1>1, <1>2, <1>3, ProcessStoppingSync, ProcessViewStoppingSync, ProcessStoppingDataSync,
     ProcessSyncingSync DEF res

LEMMA ResumeViewChangeSync ==
  ASSUME NEW s, IsSync(s), NEW last
  PROVE  IsResult(ResumeViewChange(s, last))
<1> DEFINE t == [s EXCEPT !.finalizing = NoState]
<1>1. t = [field \in SyncFields |-> t[field]] /\ t.view = s.view /\ t.queue = s.queue /\ t.next = s.next
  BY DEF IsSync, SyncFields
<1>2. \/ ResumeViewChange(s, last) = Result(s, "Nil", {}, last)
      \/ ResumeViewChange(s, last) = Finalize(t, last, s.finalizing, NoDecision, {})
  BY DEF ResumeViewChange
<1> HIDE DEF t
<1>3. IsSync(t) /\ HaveViews({})
  BY <1>1, SameQueues DEF IsSync, HaveViews
<1> QED
  BY <1>2, <1>3, FinalizeSync, UnchangedResult

LEMMA BeginViewChangeSync ==
  ASSUME NEW self, NEW s, IsSync(s), NEW last
  PROVE  IsResult(BeginViewChange(self, s, last))
<1> DEFINE res == BeginViewChange(self, s, last)
           t == [s EXCEPT !.phase = "Stopping2"]
           u == EnterPhase(s, "Stopping2", 0)
           w == EnterPhase(ClearState(s), "Stopping2", 0)
<1>1. \/ \E v \in {t, u, w} : res = Result(v, "Running", Stops(self, s), last)
      \/ res = Result(s, "Running", {}, last)
  <2> HIDE DEF t, u, w
  <2> QED
    BY DEF BeginViewChange, t, u, w
<1>2. t = [field \in SyncFields |-> t[field]] /\ t.view = s.view /\ t.queue = s.queue /\ t.next = s.next
  BY DEF IsSync, SyncFields
<1>3. u = [field \in SyncFields |-> u[field]] /\ u.view = s.view /\ u.queue = s.queue /\ u.next = s.next
  BY DEF IsSync, SyncFields, EnterPhase
<1>4. w = [field \in SyncFields |-> w[field]] /\ w.view = s.view /\ w.queue = s.queue /\ w.next = s.next
  BY DEF IsSync, SyncFields, EnterPhase, ClearState
<1> HIDE DEF t, u, w, res
<1>5. IsSync(t) /\ IsSync(u) /\ IsSync(w)
  BY <1>2, <1>3, <1>4, SameQueues DEF IsSync
<1>6. HaveViews(Stops(self, s))
  BY SMTT(120) DEF HaveViews, Stops, IsSync
<1>7. CASE \E v \in {t, u, w} : res = Result(v, "Running", Stops(self, s), last)
  BY SMTT(120), <1>5, <1>6, <1>7 DEF IsResult, Result, res
<1>8. CASE res = Result(s, "Running", {}, last)
  BY <1>8, UnchangedResult DEF res
<1> QED
  BY <1>1, <1>7, <1>8

LEMMA StartJoinQuorumSync ==
  ASSUME NEW self, NEW s, IsSync(s), NEW node, NEW last
  PROVE  IsResult(StartJoinQuorum(self, s, node, last))
<1> DEFINE w == EnterPhase(ClearState(s), "ViewStopping2", 0)
<1>1. w = [field \in SyncFields |-> w[field]] /\ w.view = s.view /\ w.queue = s.queue /\ w.next = s.next
  BY DEF IsSync, SyncFields, EnterPhase, ClearState
<1>2. \/ StartJoinQuorum(self, s, node, last) = Result(s, "Nil", {}, last)
      \/ StartJoinQuorum(self, s, node, last) = Result(w, "Nil", JoinStops(self, s, node), last)
  BY DEF StartJoinQuorum
<1> HIDE DEF w
<1>3. IsSync(w)
  BY <1>1, SameQueues DEF IsSync
<1>4. HaveViews(JoinStops(self, s, node))
  BY SMTT(120) DEF HaveViews, JoinStops, IsSync
<1>5. CASE StartJoinQuorum(self, s, node, last) = Result(w, "Nil", JoinStops(self, s, node), last)
  BY SMTT(120), <1>3, <1>4, <1>5 DEF IsResult, Result
<1> QED
  BY <1>2, <1>5, UnchangedResult

LEMMA AttemptJoinQuorumSync ==
  ASSUME NEW self, NEW s, IsSync(s)
  PROVE  IsSync(AttemptJoinQuorum(self, s))
<1> DEFINE next == NextViewWithNewNode(s.view, self)
           t(phase) == EnterPhase([s EXCEPT !.next = next, !.addingNode = self], phase, 0)
<1>1. PICK phase : AttemptJoinQuorum(self, s) = t(phase)
  BY DEF AttemptJoinQuorum
<1>2. next.seq \in Int
  BY SMTT(120) DEF NextViewWithNewNode, FromQuorum, IsSync
<1> HIDE DEF next
<1> DEFINE u == t(phase)
<1>3. u = [field \in SyncFields |-> u[field]] /\ u.view = s.view /\ u.queue = s.queue /\ u.next = next
  BY DEF IsSync, SyncFields, EnterPhase
<1> HIDE DEF u, t
<1>4. IsSync(u)
  BY <1>2, <1>3, SameQueues
<1> QED
  BY <1>1, <1>4 DEF u

LEMMA ReceiveViewSync ==
  ASSUME NEW self, NEW s, IsSync(s), NEW view, view.seq \in Int
  PROVE  IsSync(ReceiveView(self, s, view))
<1> DEFINE t == InstallInTbo(s, PreviousView(view))
           u(phase) == [EnterPhase(t, phase, 0) EXCEPT !.next = view]
<1>1. \/ \E phase \in {"StoppingData", "Syncing"} : ReceiveView(self, s, view) = u(phase)
      \/ ReceiveView(self, s, view) = InstallInTbo(t, view)
  <2> HIDE DEF t
  <2> QED
    BY DEF ReceiveView, t
<1>2. PreviousView(view).seq \in Int
  BY SMTT(120) DEF PreviousView, Peek, NewViewInfo
<1>3. IsSync(t)
  BY <1>2, InstallInTboSync
<1> HIDE DEF t
<1>4. IsSync(InstallInTbo(t, view))
  BY <1>3, InstallInTboSync
<1>5. ASSUME NEW phase PROVE IsSync(u(phase))
  <2> DEFINE w == u(phase)
  <2>1. w = [field \in SyncFields |-> w[field]] /\ w.view = t.view /\ w.queue = t.queue /\ w.next = view
    BY <1>3 DEF IsSync, SyncFields, EnterPhase
  <2> HIDE DEF w, u
  <2>2. IsSync(w)
    BY <1>3, <2>1, SameQueues
  <2> QED
    BY <2>2 DEF w
<1> HIDE DEF u
<1> QED
  BY <1>1, <1>4, <1>5
-----------------------------------------------------------------------------
(***************************************************************************)
(* All the replicas.                                                       *)
(***************************************************************************)
AlignedInv ==
  /\ sync = [r \in Correct |-> sync[r]]
  /\ \A r \in Correct : IsSync(sync[r])
  /\ HaveViews(net)

LEMMA AlignedImplies == AlignedInv => QueuesAligned
<1> SUFFICES ASSUME AlignedInv, NEW r \in Correct, NEW q \in DOMAIN sync[r].queue,
                    NEW i \in DOMAIN sync[r].queue[q], NEW j \in DOMAIN sync[r].queue[q][i]
             PROVE  /\ QueueFor(sync[r].queue[q][i][j]) = q
                    /\ sync[r].queue[q][i][j].view = sync[r].view.seq + i
  BY DEF QueuesAligned
<1>1. q \in QueueNames
  BY DEF AlignedInv, IsSync
<1>2. AlignedQueues(sync[r].queue[q], q, sync[r].view.seq)
  BY <1>1 DEF AlignedInv, IsSync
<1> QED
  BY <1>2 DEF AlignedQueues

LEMMA EmptyAligned ==
  ASSUME NEW q, NEW v
  PROVE  AlignedQueues(<< >>, q, v)
<1>1. << >> \in Seq(Seq({}))
  BY SMTT(120)
<1>2. \A i \in DOMAIN << >> : FALSE
  BY SMTT(120)
<1> QED
  BY <1>1, <1>2 DEF AlignedQueues

LEMMA InitAligned == Init => AlignedInv
<1> SUFFICES ASSUME Init PROVE AlignedInv
  OBVIOUS
<1> DEFINE s == InitSync(FromQuorum(0, Members))
<1>1. /\ s = [field \in SyncFields |-> s[field]]
      /\ s.queue = [stop |-> << >>, stopData |-> << >>, sync |-> << >>]
      /\ s.view.seq = 0 /\ s.next.seq = -1
  BY DEF InitSync, SyncFields, FromQuorum, NoView, NewViewInfo
<1> HIDE DEF s
<1>2. s.queue = [q \in QueueNames |-> s.queue[q]] /\ \A q \in QueueNames : s.queue[q] = << >>
  BY SMTT(120), <1>1 DEF QueueNames
<1>3. IsSync(s)
  BY SMTT(120), <1>1, <1>2, EmptyAligned DEF IsSync
<1>4. sync = [r \in Correct |-> s]
  BY DEF Init, s
<1>5. HaveViews(net)
  BY SMTT(120), ViewChangeAssumption DEF Init, HaveViews
<1> QED
  BY <1>3, <1>4, <1>5 DEF AlignedInv

LEMMA UpdateAligned ==
  ASSUME AlignedInv, NEW r \in Correct, NEW s, IsSync(s), NEW newMode, NEW last,
         NEW newNet, HaveViews(newNet), Update(r, s, newMode, last, newNet)
  PROVE  AlignedInv'
<1>1. sync' = [sync EXCEPT ![r] = s] /\ net' \subseteq newNet
  BY DEF Update
<1>2. HaveViews(net')
  BY <1>1 DEF HaveViews
<1>3. /\ sync' = [k \in Correct |-> sync'[k]]
      /\ \A k \in Correct : sync'[k] = IF k = r THEN s ELSE sync[k]
  BY <1>1 DEF AlignedInv
<1>4. \A k \in Correct : IsSync(sync'[k])
  BY <1>3 DEF AlignedInv
<1> QED
  BY <1>2, <1>3, <1>4 DEF AlignedInv, HaveViews, IsSync, AlignedQueues

\* A step that leaves r with the result of an operation.
LEMMA ResultAligned ==
  ASSUME AlignedInv, NEW r \in Correct, NEW res, IsResult(res), NEW s, IsSync(s), NEW newMode,
         NEW rest, rest \subseteq net, Update(r, s, newMode, res.last, rest \cup res.sends)
  PROVE  AlignedInv'
<1>1. HaveViews(rest \cup res.sends)
  BY DEF AlignedInv, IsResult, HaveViews
<1> QED
  BY <1>1, UpdateAligned
LEMMA NextAligned ==
  ASSUME AlignedInv, [Next]_vars
  PROVE  AlignedInv'
<1>1. ASSUME NEW r \in Correct, NEW m \in net, NEW o \in Outcomes,
             ReceiveNormal(r, m, o) \/ ReceiveSync(r, m, o)
      PROVE  AlignedInv'
  <2>1. PICK res : res = ProcessMessage(r, sync[r], lastExec[r], m, o.sound, o.empty)
    OBVIOUS
  <2>2. IsResult(res)
    BY <2>1, ProcessMessageSync DEF AlignedInv, HaveViews
  <2>3. IsSync(SignalQueues(res.sync)) /\ IsSync(Panic(res.sync))
    BY <2>2, PanicSync DEF IsResult
  <2>4. PICK s \in {SignalQueues(res.sync), Panic(res.sync)} :
          Update(r, s, ModeAfter(r, res.status), res.last, (net \ {m}) \cup res.sends)
    BY <1>1, <2>1 DEF ReceiveNormal, ReceiveSync
  <2>5. IsSync(s) /\ net \ {m} \subseteq net
    BY <2>3
  <2> QED
    BY <2>2, <2>4, <2>5, ResultAligned
<1>2. ASSUME NEW r \in Correct, NEW o \in Outcomes, PollMessage(r, o)
      PROVE  AlignedInv'
  <2>1. PICK res : res = ProcessMessage(r, AfterPoll(sync[r]), lastExec[r],
                                        PolledMessage(sync[r]), o.sound, o.empty)
    OBVIOUS
  <2>2. IsSync(sync[r]) /\ CanProcess(sync[r], PolledQueue(sync[r]))
    BY <1>2 DEF AlignedInv, PollMessage
  <2>3. IsSync(AfterPoll(sync[r])) /\ PolledMessage(sync[r]).view \in Int
    BY SMTT(120), <2>2, AfterPollSync DEF IsSync
  <2>4. IsResult(res)
    BY <2>1, <2>3, ProcessMessageSync
  <2>5. IsSync(SignalQueues(res.sync))
    BY <2>4, PanicSync DEF IsResult
  <2>6. Update(r, SignalQueues(res.sync), ModeAfter(r, res.status), res.last, net \cup res.sends)
    BY <1>2, <2>1 DEF PollMessage
  <2> QED
    BY <2>4, <2>5, <2>6, ResultAligned
<1>3. ASSUME NEW r \in Correct, PollNothing(r)
      PROVE  AlignedInv'
  <2>1. IsSync([sync[r] EXCEPT !.signalled = FALSE])
    BY PanicSync DEF AlignedInv
  <2>2. Update(r, [sync[r] EXCEPT !.signalled = FALSE], mode[r], lastExec[r], net)
    BY <1>3 DEF PollNothing
  <2> QED
    BY <2>1, <2>2, UpdateAligned DEF AlignedInv
<1>4. ASSUME NEW r \in Correct, PollResume(r)
      PROVE  AlignedInv'
  <2>1. PICK res : res = ResumeViewChange(sync[r], lastExec[r])
    OBVIOUS
  <2>2. IsResult(res)
    BY <2>1, ResumeViewChangeSync DEF AlignedInv
  <2>3. Update(r, res.sync, "Normal", res.last, net \cup res.sends)
    BY <1>4, <2>1 DEF PollResume
  <2> QED
    BY <2>2, <2>3, ResultAligned DEF IsResult
<1>5. ASSUME NEW r \in Correct, NEW m \in net, QueueOffContext(r, m)
      PROVE  AlignedInv'
  <2>1. IsSync(SignalQueues(SyncQueue(sync[r], m)))
    BY SyncQueueSync, PanicSync DEF AlignedInv, HaveViews
  <2>2. Update(r, SignalQueues(SyncQueue(sync[r], m)), mode[r], lastExec[r], net \ {m})
    BY <1>5 DEF QueueOffContext
  <2>3. HaveViews(net \ {m})
    BY DEF AlignedInv, HaveViews
  <2> QED
    BY <2>1, <2>2, <2>3, UpdateAligned
<1>6. ASSUME NEW r \in Correct, Timeout(r)
      PROVE  AlignedInv'
  <2>1. PICK res : res = BeginViewChange(r, sync[r], lastExec[r])
    OBVIOUS
  <2>2. IsResult(res)
    BY <2>1, BeginViewChangeSync DEF AlignedInv
  <2>3. Update(r, res.sync, "Sync", res.last, net \cup res.sends)
    BY <1>6, <2>1 DEF Timeout
  <2> QED
    BY <2>2, <2>3, ResultAligned DEF IsResult
<1>7. ASSUME NEW r \in Correct, NEW j \in JoinRequests, AttemptQuorumNodeJoin(r, j.node)
      PROVE  AlignedInv'
  <2>1. PICK res : res = StartJoinQuorum(r, sync[r], j.node, lastExec[r])
    OBVIOUS
  <2>2. IsResult(res)
    BY <2>1, StartJoinQuorumSync DEF AlignedInv
  <2>3. Update(r, res.sync, mode[r], res.last, net \cup res.sends)
    BY <1>7, <2>1 DEF AttemptQuorumNodeJoin
  <2> QED
    BY <2>2, <2>3, ResultAligned DEF IsResult
<1>8. ASSUME NEW r \in Correct, JoiningQuorum(r)
      PROVE  AlignedInv'
  <2>1. IsSync(AttemptJoinQuorum(r, sync[r]))
    BY AttemptJoinQuorumSync DEF AlignedInv
  <2>2. Update(r, AttemptJoinQuorum(r, sync[r]), "Sync", lastExec[r], net)
    BY <1>8 DEF JoiningQuorum
  <2> QED
    BY <2>1, <2>2, UpdateAligned DEF AlignedInv
<1>9. ASSUME NEW r \in Correct, NEW i \in InstallViews, InstallView(r, i.seq)
      PROVE  AlignedInv'
  <2>1. PICK view : view = Peek(sync[r].view, i.seq)
    OBVIOUS
  <2>2. view.seq \in Int
    BY SMTT(120), <2>1, ViewChangeAssumption DEF Peek, NewViewInfo
  <2>3. IsSync(ReceiveView(r, sync[r], view))
    BY <2>2, ReceiveViewSync DEF AlignedInv
  <2>4. \E newMode : Update(r, ReceiveView(r, sync[r], view), newMode, lastExec[r], net)
    BY <1>9, <2>1 DEF InstallView
  <2> QED
    BY <2>3, <2>4, UpdateAligned DEF AlignedInv
<1>10. CASE UNCHANGED vars
  <2>1. sync' = sync /\ net' = net
    BY <1>10 DEF vars
  <2> QED
    BY <2>1 DEF AlignedInv
<1> QED
  BY <1>1, <1>2, <1>3, <1>4, <1>5, <1>6, <1>7, <1>8, <1>9, <1>10 DEF Next, Step

(***************************************************************************)
(* Every message of a queue of a synchronizer is for the view the queue    *)
(* stands for: the queues of STOPs, STOP-DATA and SYNCs move with the view *)
(* however a view change, a join or a state transfer moves it, whatever    *)
(* the other nodes send.                                                   *)
(***************************************************************************)
THEOREM QueuesAlignedHolds == Spec => []QueuesAligned
<1>1. Init => AlignedInv
  BY InitAligned
<1>2. AlignedInv /\ [Next]_vars => AlignedInv'
  BY NextAligned
<1>3. AlignedInv => QueuesAligned
  BY AlignedImplies
<1> QED
  BY <1>1, <1>2, <1>3, PTL DEF Spec
-----------------------------------------------------------------------------
(***************************************************************************)
(* The STOPs that are counted.  A synchronizer that is not stopping has    *)
(* none, so that it starts to count from nothing.                          *)
(***************************************************************************)
StopPhases == {"Stopping", "Stopping2"}

Stoppers(s) == {m.from : m \in s.stopped}

Counted(s) ==
  /\ IsFiniteSet(Stoppers(s))
  /\ s.phase \in StopPhases =>
       /\ s.count = Cardinality(Stoppers(s))
       /\ \A m \in s.stopped : m.view = s.view.seq + 1
  /\ s.phase \notin StopPhases => s.stopped = {}

\* A synchronizer that has finished a view change has counted nothing.
CountedResult(res) ==
  /\ Counted(res.sync)
  /\ res.status \in {"Nil", "Running"} \/ res.sync.stopped = {}

LEMMA NothingCounted ==
  ASSUME NEW s, s.stopped = {}, s.phase \notin StopPhases \/ s.count = 0
  PROVE  Counted(s)
<1>1. Stoppers(s) = {}
  BY DEF Stoppers
<1>2. IsFiniteSet(Stoppers(s)) /\ Cardinality(Stoppers(s)) = 0
  BY <1>1, FS_EmptySet
<1> QED
  BY <1>2 DEF Counted

LEMMA SameCount ==
  ASSUME NEW s, Counted(s), NEW t, t.stopped = s.stopped, t.count = s.count, t.view = s.view,
         t.phase \in StopPhases <=> s.phase \in StopPhases
  PROVE  Counted(t)
BY DEF Counted, Stoppers

LEMMA SyncQueueCounted ==
  ASSUME NEW s, IsSync(s), Counted(s), NEW m, m.view \in Int
  PROVE  Counted(SyncQueue(s, m)) /\ SyncQueue(s, m).stopped = s.stopped
<1> DEFINE t == SyncQueue(s, m)
<1>1. t = [field \in SyncFields |-> IF field = "queue" THEN t.queue ELSE s[field]]
  BY SyncQueueSync
<1> HIDE DEF t
<1>2. t.stopped = s.stopped /\ t.count = s.count /\ t.view = s.view /\ t.phase = s.phase
  BY <1>1 DEF SyncFields
<1> QED
  BY <1>2, SameCount DEF t

LEMMA StoppingQuorumCounted ==
  ASSUME NEW self, NEW s, IsSync(s), NEW next, NEW last
  PROVE  CountedResult(StoppingQuorum(self, s, next, last))
<1> DEFINE res == StoppingQuorum(self, s, next, last)
           t(phase) == EnterPhase([s EXCEPT !.next = next, !.stopped = {}], phase, 0)
<1>1. PICK phase \in {"StoppingData", "Syncing"} : res.sync = t(phase)
  BY DEF StoppingQuorum, Result
<1>2. t(phase).stopped = {} /\ t(phase).phase = phase
  BY DEF IsSync, SyncFields, EnterPhase
<1>3. phase \notin StopPhases
  BY DEF StopPhases
<1> HIDE DEF res, t
<1>4. Counted(res.sync) /\ res.sync.stopped = {}
  BY <1>1, <1>2, <1>3, NothingCounted
<1> QED
  BY <1>4 DEF CountedResult, res

LEMMA UnchangedCounted ==
  ASSUME NEW s, Counted(s), NEW status \in {"Nil", "Running"}, NEW sends, NEW last
  PROVE  CountedResult(Result(s, status, sends, last))
BY DEF CountedResult, Result

LEMMA StopCounted ==
  ASSUME NEW s, IsSync(s), Counted(s), s.phase \in StopPhases, NEW m, m.view = s.view.seq + 1,
         ~ HasStopped(s, m.from), NEW t,
         t.stopped = s.stopped \cup {m}, t.count = s.count + 1, t.view = s.view,
         t.phase \in StopPhases
  PROVE  Counted(t)
<1>1. Stoppers(t) = Stoppers(s) \cup {m.from} /\ m.from \notin Stoppers(s)
  BY DEF Stoppers, HasStopped
<1>2. PICK S, x : S = Stoppers(s) /\ x = m.from
  OBVIOUS
<1>3. IsFiniteSet(S) /\ x \notin S
  BY <1>1, <1>2 DEF Counted
<1>4. IsFiniteSet(S \cup {x}) /\ Cardinality(S \cup {x}) = Cardinality(S) + 1
  BY <1>3, FS_AddElement
<1>5. IsFiniteSet(Stoppers(t)) /\ Cardinality(Stoppers(t)) = Cardinality(Stoppers(s)) + 1
  BY <1>1, <1>2, <1>4
<1> QED
  BY <1>5 DEF Counted

LEMMA ProcessStopCounted ==
  ASSUME NEW self, NEW s, IsSync(s), Counted(s), s.phase \in StopPhases, NEW last,
         NEW m, m.view = s.view.seq + 1, ~ HasStopped(s, m.from)
  PROVE  CountedResult(ProcessStop(self, s, last, m))
<1> DEFINE t == [s EXCEPT !.stopped = @ \cup {m}, !.count = @ + 1]
           u == [t EXCEPT !.phase = "Stopping2"]
           res == ProcessStop(self, s, last, m)
<1>1. /\ t = [field \in SyncFields |-> t[field]]
      /\ t.view = s.view /\ t.queue = s.queue /\ t.next = s.next
      /\ t.stopped = s.stopped \cup {m} /\ t.count = s.count + 1 /\ t.phase = s.phase
  BY DEF IsSync, SyncFields
<1>2. \/ res = Result(u, "Running", Stops(self, s), last)
      \/ res = StoppingQuorum(self, t, NextView(s.view), last)
      \/ \E status \in {"Nil", "Running"} : res = Result(t, status, {}, last)
  BY DEF ProcessStop
<1> HIDE DEF t, res
<1>3. /\ u.stopped = s.stopped \cup {m} /\ u.count = s.count + 1 /\ u.view = s.view
      /\ u.phase \in StopPhases
  BY <1>1 DEF SyncFields, StopPhases
<1> HIDE DEF u
<1>4. Counted(t) /\ Counted(u)
  BY <1>1, <1>3, StopCounted
<1>5. IsSync(t)
  BY <1>1, SameQueues DEF IsSync
<1>6. CASE res = Result(u, "Running", Stops(self, s), last)
  BY <1>4, <1>6, UnchangedCounted DEF res
<1>7. CASE res = StoppingQuorum(self, t, NextView(s.view), last)
  BY <1>5, <1>7, StoppingQuorumCounted DEF res
<1>8. CASE \E status \in {"Nil", "Running"} : res = Result(t, status, {}, last)
  BY <1>4, <1>8, UnchangedCounted DEF res
<1> QED
  BY <1>2, <1>6, <1>7, <1>8

LEMMA ProcessStoppingCounted ==
  ASSUME NEW self, NEW s, IsSync(s), Counted(s), s.phase \in StopPhases, NEW last,
         NEW m, m.view \in Int
  PROVE  CountedResult(ProcessStopping(self, s, last, m))
<1> DEFINE res == ProcessStopping(self, s, last, m)
<1>1. \/ \E t \in {s, SyncQueue(s, m)} : res = Result(t, StopStatus(s), {}, last)
      \/ /\ res = ProcessStop(self, s, last, m)
         /\ ForNextChange(s, m) /\ ~ HasStopped(s, m.from)
  BY DEF ProcessStopping
<1>2. Counted(SyncQueue(s, m))
  BY SyncQueueCounted
<1>3. StopStatus(s) \in {"Nil", "Running"}
  BY DEF StopStatus
<1> HIDE DEF res
<1>4. CASE \E t \in {s, SyncQueue(s, m)} : res = Result(t, StopStatus(s), {}, last)
  BY <1>2, <1>3, <1>4, UnchangedCounted DEF res
<1>5. CASE /\ res = ProcessStop(self, s, last, m)
           /\ ForNextChange(s, m) /\ ~ HasStopped(s, m.from)
  BY <1>5, ProcessStopCounted DEF res, ForNextChange
<1> QED
  BY <1>1, <1>4, <1>5
LEMMA ProcessJoinCounted ==
  ASSUME NEW self, NEW s, IsSync(s), s.stopped = {}, NEW last, NEW m
  PROVE  CountedResult(ProcessJoin(self, s, last, m))
<1> DEFINE t == [s EXCEPT !.adding = @ \cup {[node |-> m.node, voter |-> m.from]}, !.count = @ + 1]
           u == [t EXCEPT !.addingNode = m.node]
           next == NextViewWithNewNode(s.view, MostVoted(t))
           res == ProcessJoin(self, s, last, m)
           w(phase) == [t EXCEPT !.phase = phase]
<1>1. /\ t = [field \in SyncFields |-> t[field]]
      /\ t.view = s.view /\ t.queue = s.queue /\ t.next = s.next /\ t.stopped = {}
  BY DEF IsSync, SyncFields
<1>2. \/ \E phase \in {"ViewStopping", "ViewStopping2", "Panicked"} :
           res = Result(w(phase), "Running", {}, last)
      \/ res = StoppingQuorum(self, u, next, last)
  <2>1. \/ res = Result(w("ViewStopping2"), "Running", {}, last)
        \/ res = StoppingQuorum(self, u, next, last)
        \/ res = Result(IF t.count >= Len(s.view.members) THEN Panic(t) ELSE w("ViewStopping"),
                        "Running", {}, last)
    <3> HIDE DEF t, next
    <3> QED
      BY SMTT(120) DEF ProcessJoin, t, next
  <2> HIDE DEF t, res, next
  <2> QED
    BY <2>1 DEF Panic
<1> HIDE DEF t, res, next
<1>3. \A phase : w(phase).stopped = {} /\ w(phase).phase = phase
  BY <1>1 DEF SyncFields
<1> HIDE DEF w
<1>4. IsSync(u)
  <2>1. /\ u = [field \in SyncFields |-> u[field]]
        /\ u.view = s.view /\ u.queue = s.queue /\ u.next = s.next
    BY <1>1 DEF SyncFields
  <2> HIDE DEF u
  <2> QED
    BY <2>1, SameQueues DEF IsSync
<1> HIDE DEF u
<1>5. CASE res = StoppingQuorum(self, u, next, last)
  BY <1>4, <1>5, StoppingQuorumCounted DEF res
<1>6. CASE \E phase \in {"ViewStopping", "ViewStopping2", "Panicked"} :
             res = Result(w(phase), "Running", {}, last)
  <2>1. PICK phase \in {"ViewStopping", "ViewStopping2", "Panicked"} :
          res = Result(w(phase), "Running", {}, last)
    BY <1>6
  <2>2. Counted(w(phase))
    BY <1>3, NothingCounted DEF StopPhases
  <2> QED
    BY <2>1, <2>2, UnchangedCounted DEF res
<1> QED
  BY <1>2, <1>5, <1>6

LEMMA ProcessViewStoppingCounted ==
  ASSUME NEW self, NEW s, IsSync(s), Counted(s), s.stopped = {}, NEW last, NEW m, m.view \in Int
  PROVE  CountedResult(ProcessViewStopping(self, s, last, m))
<1> DEFINE res == ProcessViewStopping(self, s, last, m)
           t == SyncQueue(s, m)
           u == EnterPhase(t, "Stopping", 0)
<1>1. \/ res = Result(t, StopStatus(s), {}, last)
      \/ res = Result(u, "Running", {}, last)
      \/ res = ProcessJoin(self, s, last, m)
  BY DEF ProcessViewStopping
<1>2. IsSync(t) /\ Counted(t) /\ t.stopped = {}
  BY SyncQueueSync, SyncQueueCounted
<1>3. CountedResult(ProcessJoin(self, s, last, m))
  BY ProcessJoinCounted
<1>4. StopStatus(s) \in {"Nil", "Running"}
  BY DEF StopStatus
<1> HIDE DEF t
<1>5. u.stopped = {} /\ u.count = 0
  BY <1>2 DEF EnterPhase, IsSync, SyncFields
<1> HIDE DEF u, res
<1>6. Counted(u)
  BY <1>5, NothingCounted
<1>7. CASE res = Result(t, StopStatus(s), {}, last)
  BY <1>2, <1>4, <1>7, UnchangedCounted DEF res
<1>8. CASE res = Result(u, "Running", {}, last)
  BY <1>6, <1>8, UnchangedCounted DEF res
<1> QED
  BY <1>1, <1>3, <1>7, <1>8 DEF res

LEMMA FinalizeCounted ==
  ASSUME NEW s, IsSync(s), s.stopped = {}, s.phase \notin StopPhases,
         NEW last, NEW state, NEW proof, NEW sends
  PROVE  CountedResult(Finalize(s, last, state, proof, sends))
<1> DEFINE res == Finalize(s, last, state, proof, sends)
           transfer == [s EXCEPT !.finalizing = state, !.phase = "SyncingState"]
           panic == Panic(s)
           installed == InstallInTbo(s, s.next)
           advanced == AdvanceView(s)
           done == [EnterPhase(advanced, "Init", 0) EXCEPT
                      !.adding = IF s.addingNode = NoNode THEN @ ELSE {}, !.addingNode = NoNode]
<1>1. transfer.stopped = {} /\ transfer.phase \notin StopPhases
  BY DEF IsSync, SyncFields, StopPhases
<1>2. panic.stopped = {} /\ panic.phase \notin StopPhases
  BY DEF IsSync, SyncFields, Panic, StopPhases
<1>3. advanced = [field \in SyncFields |-> advanced[field]] /\ advanced.stopped = {}
  <2>1. CASE s.next = NoView
    BY <2>1 DEF AdvanceView, IsSync
  <2>2. CASE s.next # NoView
    <3>1. installed = [field \in SyncFields |-> IF field \in {"view", "queue"} THEN installed[field]
                                                                              ELSE s[field]]
      <4>1. s.next.seq \in Int
        BY DEF IsSync
      <4> QED
        BY <4>1, InstallInTboSync
    <3>2. advanced = [installed EXCEPT !.next = NoView]
      BY <2>2 DEF AdvanceView
    <3> HIDE DEF advanced, installed
    <3> QED
      BY <3>1, <3>2 DEF SyncFields
  <2> QED
    BY <2>1, <2>2
<1>4. \E t \in {transfer, s, panic, done} : \E status, newLast :
        res = Result(t, status, sends, newLast)
  <2> HIDE DEF transfer, panic, done
  <2> QED
    BY DEF Finalize, panic, transfer, advanced, done
<1> HIDE DEF advanced, res, transfer, panic
<1>5. done.stopped = {} /\ done.phase = "Init"
  BY <1>3 DEF EnterPhase, SyncFields
<1> HIDE DEF done
<1>6. PICK t, status, newLast : /\ res = Result(t, status, sends, newLast)
                                /\ t.stopped = {} /\ t.phase \notin StopPhases
  BY <1>1, <1>2, <1>4, <1>5 DEF StopPhases
<1>7. Counted(t)
  BY <1>6, NothingCounted
<1> QED
  BY SMTT(120), <1>6, <1>7 DEF CountedResult, Result, res

LEMMA ProcessStoppingDataCounted ==
  ASSUME NEW self, NEW s, IsSync(s), Counted(s), s.phase = "StoppingData", NEW last,
         NEW m, m.view \in Int, NEW sound, NEW empty
  PROVE  CountedResult(ProcessStoppingData(self, s, last, m, sound, empty))
<1> DEFINE res == ProcessStoppingData(self, s, last, m, sound, empty)
           t == [s EXCEPT !.collects = @ \cup {m}]
           u == [t EXCEPT !.count = @ + 1]
           state == [proof |-> HighestProof(t.collects), sound |-> sound, empty |-> empty]
           syncs == Syncs(self, s.next, state)
<1>1. \/ \E v \in {s, SyncQueue(s, m), u} : res = Result(v, "Running", {}, last)
      \/ res = Finalize(t, last, state, state.proof, syncs)
  <2>1. \/ res = Result(SyncQueue(s, m), "Running", {}, last)
        \/ res = Result(IF Leader(Peek(s.next, m.view)) = self THEN SyncQueue(s, m) ELSE s,
                        "Running", {}, last)
        \/ res = Result(s, "Running", {}, last)
        \/ res = Result(u, "Running", {}, last)
        \/ res = Finalize(t, last, state, state.proof, syncs)
    <3> HIDE DEF t, u, state
    <3> QED
      BY DEF ProcessStoppingData, t, u, state
  <2> HIDE DEF res, t, u, state
  <2> QED
    BY <2>1
<1>2. /\ t = [field \in SyncFields |-> t[field]] /\ t.view = s.view /\ t.queue = s.queue
      /\ t.next = s.next /\ t.stopped = s.stopped /\ t.phase = s.phase
  BY DEF IsSync, SyncFields
<1>3. s.stopped = {} /\ s.phase \notin StopPhases
  BY DEF Counted, StopPhases
<1> HIDE DEF t, res, state, syncs
<1>4. u.stopped = s.stopped /\ u.phase = s.phase
  BY <1>2 DEF SyncFields
<1> HIDE DEF u
<1>5. IsSync(t)
  BY <1>2, SameQueues DEF IsSync
<1>6. Counted(u) /\ Counted(SyncQueue(s, m))
  BY <1>3, <1>4, NothingCounted, SyncQueueCounted
<1>7. CASE \E v \in {s, SyncQueue(s, m), u} : res = Result(v, "Running", {}, last)
  <2>1. PICK v \in {s, SyncQueue(s, m), u} : res = Result(v, "Running", {}, last)
    BY <1>7
  <2>2. Counted(v)
    BY <1>6
  <2> QED
    BY <2>1, <2>2, UnchangedCounted DEF res
<1>8. CASE res = Finalize(t, last, state, state.proof, syncs)
  BY <1>2, <1>3, <1>5, <1>8, FinalizeCounted DEF res
<1> QED
  BY <1>1, <1>7, <1>8

LEMMA ProcessSyncingCounted ==
  ASSUME NEW s, IsSync(s), Counted(s), s.phase = "Syncing", NEW last, NEW m, m.view \in Int
  PROVE  CountedResult(ProcessSyncing(s, last, m))
<1> DEFINE res == ProcessSyncing(s, last, m)
           state == [proof |-> m.proof, sound |-> m.sound, empty |-> m.empty]
<1>1. \/ \E t \in {s, SyncQueue(s, m)} : res = Result(t, "Running", {}, last)
      \/ res = Finalize(s, last, state, m.proof, {})
  <2> HIDE DEF state
  <2> QED
    BY DEF ProcessSyncing, state
<1>2. Counted(SyncQueue(s, m))
  BY SyncQueueCounted
<1>3. s.stopped = {} /\ s.phase \notin StopPhases
  BY DEF Counted, StopPhases
<1> HIDE DEF res, state
<1>4. CASE \E t \in {s, SyncQueue(s, m)} : res = Result(t, "Running", {}, last)
  <2>1. PICK t \in {s, SyncQueue(s, m)} : res = Result(t, "Running", {}, last)
    BY <1>4
  <2> QED
    BY <1>2, <2>1, UnchangedCounted DEF res
<1>5. CASE res = Finalize(s, last, state, m.proof, {})
  BY <1>3, <1>5, FinalizeCounted DEF res
<1> QED
  BY <1>1, <1>4, <1>5

LEMMA PanicCounted ==
  ASSUME NEW s, IsSync(s)
  PROVE  /\ s.stopped = {} => Counted(Panic(s)) /\ Panic(s).stopped = {}
         /\ Counted(s) => Counted(SignalQueues(s)) /\ Counted([s EXCEPT !.signalled = FALSE])
<1> DEFINE p == Panic(s)
           t == SignalQueues(s)
           u == [s EXCEPT !.signalled = FALSE]
<1>1. p.stopped = s.stopped /\ p.phase = "Panicked"
  BY DEF IsSync, SyncFields, Panic
<1>2. t.stopped = s.stopped /\ t.count = s.count /\ t.view = s.view /\ t.phase = s.phase
  BY DEF IsSync, SyncFields, SignalQueues
<1>3. u.stopped = s.stopped /\ u.count = s.count /\ u.view = s.view /\ u.phase = s.phase
  BY DEF IsSync, SyncFields
<1> HIDE DEF p, t, u
<1>4. s.stopped = {} => Counted(p) /\ p.stopped = {}
  BY <1>1, NothingCounted DEF StopPhases
<1>5. Counted(s) => Counted(t) /\ Counted(u)
  BY <1>2, <1>3, SameCount
<1> QED
  BY <1>4, <1>5 DEF p, t, u
LEMMA ProcessMessageCounted ==
  ASSUME NEW self, NEW s, IsSync(s), Counted(s), NEW last, NEW m, m.view \in Int,
         NEW sound, NEW empty
  PROVE  CountedResult(ProcessMessage(self, s, last, m, sound, empty))
<1> DEFINE res == ProcessMessage(self, s, last, m, sound, empty)
<1>1. CASE s.phase = "Init"
  <2>1. res = Result(SyncQueue(s, m), "Nil", {}, last)
    BY <1>1 DEF ProcessMessage
  <2> HIDE DEF res
  <2> QED
    BY <2>1, SyncQueueCounted, UnchangedCounted DEF res
<1>2. CASE s.phase \in {"Stopping", "Stopping2"}
  <2>1. res = ProcessStopping(self, s, last, m)
    BY <1>2 DEF ProcessMessage
  <2> HIDE DEF res
  <2> QED
    BY <1>2, <2>1, ProcessStoppingCounted DEF res, StopPhases
<1>3. CASE s.phase \in {"ViewStopping", "ViewStopping2"}
  <2>1. res = ProcessViewStopping(self, s, last, m)
    BY <1>3 DEF ProcessMessage
  <2>2. s.stopped = {}
    BY <1>3 DEF Counted, StopPhases
  <2> HIDE DEF res
  <2> QED
    BY <2>1, <2>2, ProcessViewStoppingCounted DEF res
<1>4. CASE s.phase = "StoppingData"
  <2>1. res = ProcessStoppingData(self, s, last, m, sound, empty)
    BY <1>4 DEF ProcessMessage
  <2> HIDE DEF res
  <2> QED
    BY <1>4, <2>1, ProcessStoppingDataCounted DEF res
<1>5. CASE s.phase = "Syncing"
  <2>1. res = ProcessSyncing(s, last, m)
    BY <1>5 DEF ProcessMessage
  <2> HIDE DEF res
  <2> QED
    BY <1>5, <2>1, ProcessSyncingCounted DEF res
<1>6. CASE s.phase \notin {"Init", "Stopping", "Stopping2", "ViewStopping", "ViewStopping2",
                           "StoppingData", "Syncing"}
  <2>1. res = Result(Panic(s), "Running", {}, last)
    BY <1>6 DEF ProcessMessage
  <2>2. s.stopped = {}
    BY <1>6 DEF Counted, StopPhases
  <2> HIDE DEF res
  <2> QED
    BY <2>1, <2>2, PanicCounted, UnchangedCounted DEF res
<1> QED
  BY <1>1, <1>2, <1>3, <1>4, <1>5, <1>6

LEMMA AfterPollCounted ==
  ASSUME NEW s, IsSync(s), Counted(s), CanProcess(s, PolledQueue(s))
  PROVE  Counted(AfterPoll(s))
<1> DEFINE t == AfterPoll(s)
<1>1. t = [field \in SyncFields |-> IF field \in {"phase", "count", "queue"} THEN t[field]
                                                                             ELSE s[field]]
  BY AfterPollSync
<1>2. CASE s.phase # "Init"
  <2>1. t = [s EXCEPT !.queue[PolledQueue(s)][1] = Tail(@)]
    BY <1>2 DEF AfterPoll
  <2>2. t.phase = s.phase /\ t.count = s.count
    BY <2>1 DEF IsSync, SyncFields
  <2> HIDE DEF t
  <2>3. t.stopped = s.stopped /\ t.view = s.view
    BY <1>1 DEF SyncFields
  <2>4. Counted(t)
    BY <2>2, <2>3, SameCount
  <2> QED
    BY <2>4 DEF t
<1>3. CASE s.phase = "Init"
  <2> DEFINE u == [s EXCEPT !.queue[PolledQueue(s)][1] = Tail(@)]
  <2>1. PICK phase : t = EnterPhase(u, phase, 0)
    BY <1>3 DEF AfterPoll
  <2>2. u = [field \in SyncFields |-> u[field]]
    BY DEF IsSync
  <2> HIDE DEF t, u
  <2>3. t.count = 0
    BY <2>1, <2>2 DEF EnterPhase, SyncFields
  <2>4. t.stopped = {}
    BY <1>1, <1>3 DEF SyncFields, Counted, StopPhases
  <2>5. Counted(t)
    BY <2>3, <2>4, NothingCounted
  <2> QED
    BY <2>5 DEF t
<1> QED
  BY <1>2, <1>3

LEMMA ResumeViewChangeCounted ==
  ASSUME NEW s, IsSync(s), Counted(s), s.phase = "SyncingState", NEW last
  PROVE  CountedResult(ResumeViewChange(s, last))
<1> DEFINE t == [s EXCEPT !.finalizing = NoState]
<1>1. /\ t = [field \in SyncFields |-> t[field]] /\ t.view = s.view /\ t.queue = s.queue
      /\ t.next = s.next /\ t.stopped = s.stopped /\ t.phase = s.phase
  BY DEF IsSync, SyncFields
<1>2. \/ ResumeViewChange(s, last) = Result(s, "Nil", {}, last)
      \/ ResumeViewChange(s, last) = Finalize(t, last, s.finalizing, NoDecision, {})
  BY DEF ResumeViewChange
<1> HIDE DEF t
<1>3. IsSync(t)
  BY <1>1, SameQueues DEF IsSync
<1>4. t.stopped = {} /\ t.phase \notin StopPhases
  BY <1>1 DEF Counted, StopPhases
<1> QED
  BY <1>2, <1>3, <1>4, FinalizeCounted, UnchangedCounted

LEMMA BeginViewChangeCounted ==
  ASSUME NEW self, NEW s, IsSync(s), Counted(s), NEW last
  PROVE  Counted(BeginViewChange(self, s, last).sync)
<1> DEFINE t == [s EXCEPT !.phase = "Stopping2"]
           u == EnterPhase(s, "Stopping2", 0)
           w == EnterPhase(ClearState(s), "Stopping2", 0)
           res == BeginViewChange(self, s, last).sync
<1>1. \/ s.phase = "Stopping" /\ res = t
      \/ s.phase \in {"ViewStopping", "ViewStopping2"} /\ res = u
      \/ res = s
      \/ res = w
  <2> HIDE DEF t, u, w
  <2> QED
    BY DEF BeginViewChange, Result, t, u, w
<1>2. t.stopped = s.stopped /\ t.count = s.count /\ t.view = s.view /\ t.phase \in StopPhases
  BY DEF IsSync, SyncFields, StopPhases
<1>3. u.stopped = s.stopped /\ u.count = 0
  BY DEF IsSync, SyncFields, EnterPhase
<1>4. w.stopped = {} /\ w.count = 0
  BY DEF IsSync, SyncFields, EnterPhase, ClearState
<1> HIDE DEF t, u, w, res
<1>5. CASE s.phase = "Stopping" /\ res = t
  BY <1>2, <1>5, SameCount DEF StopPhases, res
<1>6. CASE s.phase \in {"ViewStopping", "ViewStopping2"} /\ res = u
  <2>1. s.stopped = {}
    BY <1>6 DEF Counted, StopPhases
  <2> QED
    BY <1>3, <1>6, <2>1, NothingCounted DEF res
<1>7. Counted(w)
  BY <1>4, NothingCounted
<1> QED
  BY <1>1, <1>5, <1>6, <1>7 DEF res

LEMMA StartJoinQuorumCounted ==
  ASSUME NEW self, NEW s, IsSync(s), Counted(s), NEW node, NEW last
  PROVE  Counted(StartJoinQuorum(self, s, node, last).sync)
<1> DEFINE w == EnterPhase(ClearState(s), "ViewStopping2", 0)
<1>1. w.stopped = {} /\ w.count = 0
  BY DEF IsSync, SyncFields, EnterPhase, ClearState
<1>2. StartJoinQuorum(self, s, node, last).sync \in {s, w}
  BY DEF StartJoinQuorum, Result
<1> HIDE DEF w
<1>3. Counted(w)
  BY <1>1, NothingCounted
<1> QED
  BY <1>2, <1>3

LEMMA ReceiveViewCounted ==
  ASSUME NEW self, NEW s, IsSync(s), Counted(s), s.phase \in {"Init", "SyncingState"},
         NEW view, view.seq \in Int
  PROVE  Counted(ReceiveView(self, s, view))
<1> DEFINE t == InstallInTbo(s, PreviousView(view))
           u(phase) == [EnterPhase(t, phase, 0) EXCEPT !.next = view]
           w == InstallInTbo(t, view)
<1>1. \/ \E phase \in {"StoppingData", "Syncing"} : ReceiveView(self, s, view) = u(phase)
      \/ ReceiveView(self, s, view) = w
  <2> HIDE DEF t
  <2> QED
    BY DEF ReceiveView, t
<1>2. PreviousView(view).seq \in Int
  BY SMTT(120) DEF PreviousView, Peek, NewViewInfo
<1>3. /\ IsSync(t)
      /\ t = [field \in SyncFields |-> IF field \in {"view", "queue"} THEN t[field] ELSE s[field]]
  BY <1>2, InstallInTboSync
<1>4. s.stopped = {} /\ s.phase \notin StopPhases
  BY DEF Counted, StopPhases
<1> HIDE DEF t
<1>5. t.stopped = {} /\ t.phase \notin StopPhases
  BY <1>3, <1>4 DEF SyncFields
<1>6. w = [field \in SyncFields |-> IF field \in {"view", "queue"} THEN w[field] ELSE t[field]]
  BY SMTT(120), <1>3, InstallInTboSync
<1> HIDE DEF w
<1>7. w.stopped = {} /\ w.phase \notin StopPhases
  BY <1>5, <1>6 DEF SyncFields
<1>8. \A phase : u(phase).stopped = {} /\ u(phase).count = 0
  BY <1>3, <1>5 DEF EnterPhase, SyncFields, IsSync
<1> HIDE DEF u
<1> QED
  BY <1>1, <1>7, <1>8, NothingCounted
CountedInv == AlignedInv /\ \A r \in Correct : Counted(sync[r])

\* None of the replicas modelled joins the quorum: attempt_join_quorum() does not
\* clear the STOPs a node has counted before, which the members send to each
\* other alone.
NobodyJoins == \A j \in JoinRequests : j.node \notin Correct

LEMMA InitCounted == Init => CountedInv
<1> SUFFICES ASSUME Init PROVE CountedInv
  OBVIOUS
<1> DEFINE s == InitSync(FromQuorum(0, Members))
<1>1. s.stopped = {} /\ s.count = 0
  BY DEF InitSync
<1> HIDE DEF s
<1>2. Counted(s)
  BY <1>1, NothingCounted
<1>3. sync = [r \in Correct |-> s]
  BY DEF Init, s
<1> QED
  BY <1>2, <1>3, InitAligned DEF CountedInv

LEMMA UpdateCounted ==
  ASSUME CountedInv, NEW r \in Correct, NEW s, Counted(s), NEW newMode, NEW last, NEW newNet,
         Update(r, s, newMode, last, newNet)
  PROVE  \A k \in Correct : Counted(sync'[k])
<1>1. \A k \in Correct : sync'[k] = IF k = r THEN s ELSE sync[k]
  BY DEF Update, CountedInv, AlignedInv
<1> QED
  BY <1>1 DEF CountedInv

LEMMA NextCounted ==
  ASSUME NobodyJoins, CountedInv, [Next]_vars
  PROVE  CountedInv'
<1> DEFINE Goal == \A k \in Correct : Counted(sync'[k])
<1>1. ASSUME NEW r \in Correct, NEW m \in net, NEW o \in Outcomes,
             ReceiveNormal(r, m, o) \/ ReceiveSync(r, m, o)
      PROVE  Goal
  <2> HIDE DEF Goal
  <2>1. PICK res : res = ProcessMessage(r, sync[r], lastExec[r], m, o.sound, o.empty)
    OBVIOUS
  <2>2. IsSync(sync[r]) /\ Counted(sync[r]) /\ m.view \in Int
    BY DEF CountedInv, AlignedInv, HaveViews
  <2>3. IsResult(res) /\ CountedResult(res)
    BY <2>1, <2>2, ProcessMessageSync, ProcessMessageCounted
  <2>4. Counted(SignalQueues(res.sync)) /\ (res.sync.stopped = {} => Counted(Panic(res.sync)))
    BY <2>3, PanicCounted DEF IsResult, CountedResult
  <2>5. PICK s : /\ \/ s = SignalQueues(res.sync)
                    \/ s = Panic(res.sync) /\ res.status \notin {"Nil", "Running"}
                 /\ Update(r, s, ModeAfter(r, res.status), res.last, (net \ {m}) \cup res.sends)
    BY <1>1, <2>1 DEF ReceiveNormal, ReceiveSync
  <2>6. Counted(s)
    BY <2>3, <2>4, <2>5 DEF CountedResult
  <2> QED
    BY <2>5, <2>6, UpdateCounted DEF Goal
<1>2. ASSUME NEW r \in Correct, NEW o \in Outcomes, PollMessage(r, o)
      PROVE  Goal
  <2> HIDE DEF Goal
  <2>1. PICK res : res = ProcessMessage(r, AfterPoll(sync[r]), lastExec[r],
                                        PolledMessage(sync[r]), o.sound, o.empty)
    OBVIOUS
  <2>2. IsSync(sync[r]) /\ Counted(sync[r]) /\ CanProcess(sync[r], PolledQueue(sync[r]))
    BY <1>2 DEF CountedInv, AlignedInv, PollMessage
  <2>3. PolledMessage(sync[r]).view \in Int /\ IsSync(AfterPoll(sync[r]))
    <3>1. sync[r].view.seq \in Int
      BY <2>2 DEF IsSync
    <3> QED
      BY SMTT(120), <2>2, <3>1, AfterPollSync
  <2>4. Counted(AfterPoll(sync[r]))
    BY <2>2, AfterPollCounted
  <2>5. IsResult(res) /\ CountedResult(res)
    BY <2>1, <2>3, <2>4, ProcessMessageSync, ProcessMessageCounted
  <2>6. Counted(SignalQueues(res.sync))
    BY <2>5, PanicCounted DEF IsResult, CountedResult
  <2>7. Update(r, SignalQueues(res.sync), ModeAfter(r, res.status), res.last, net \cup res.sends)
    BY <1>2, <2>1 DEF PollMessage
  <2> QED
    BY <2>6, <2>7, UpdateCounted DEF Goal
<1>3. ASSUME NEW r \in Correct, PollNothing(r)
      PROVE  Goal
  <2> HIDE DEF Goal
  <2>1. Counted([sync[r] EXCEPT !.signalled = FALSE])
    BY PanicCounted DEF CountedInv, AlignedInv
  <2>2. Update(r, [sync[r] EXCEPT !.signalled = FALSE], mode[r], lastExec[r], net)
    BY <1>3 DEF PollNothing
  <2> QED
    BY <2>1, <2>2, UpdateCounted DEF Goal
<1>4. ASSUME NEW r \in Correct, PollResume(r)
      PROVE  Goal
  <2> HIDE DEF Goal
  <2>1. PICK res : res = ResumeViewChange(sync[r], lastExec[r])
    OBVIOUS
  <2>2. IsSync(sync[r]) /\ Counted(sync[r]) /\ sync[r].phase = "SyncingState"
    BY <1>4 DEF CountedInv, AlignedInv, PollResume
  <2>3. Counted(res.sync)
    BY <2>1, <2>2, ResumeViewChangeCounted DEF CountedResult
  <2>4. Update(r, res.sync, "Normal", res.last, net \cup res.sends)
    BY <1>4, <2>1 DEF PollResume
  <2> QED
    BY <2>3, <2>4, UpdateCounted DEF Goal
<1>5. ASSUME NEW r \in Correct, NEW m \in net, QueueOffContext(r, m)
      PROVE  Goal
  <2> HIDE DEF Goal
  <2>1. IsSync(sync[r]) /\ Counted(sync[r]) /\ m.view \in Int
    BY DEF CountedInv, AlignedInv, HaveViews
  <2>2. IsSync(SyncQueue(sync[r], m)) /\ Counted(SyncQueue(sync[r], m))
    BY <2>1, SyncQueueSync, SyncQueueCounted
  <2>3. Counted(SignalQueues(SyncQueue(sync[r], m)))
    BY <2>2, PanicCounted
  <2>4. Update(r, SignalQueues(SyncQueue(sync[r], m)), mode[r], lastExec[r], net \ {m})
    BY <1>5 DEF QueueOffContext
  <2> QED
    BY <2>3, <2>4, UpdateCounted DEF Goal
<1>6. ASSUME NEW r \in Correct, Timeout(r)
      PROVE  Goal
  <2> HIDE DEF Goal
  <2>1. PICK res : res = BeginViewChange(r, sync[r], lastExec[r])
    OBVIOUS
  <2>2. Counted(res.sync)
    BY <2>1, BeginViewChangeCounted DEF CountedInv, AlignedInv
  <2>3. Update(r, res.sync, "Sync", res.last, net \cup res.sends)
    BY <1>6, <2>1 DEF Timeout
  <2> QED
    BY <2>2, <2>3, UpdateCounted DEF Goal
<1>7. ASSUME NEW r \in Correct, NEW j \in JoinRequests, AttemptQuorumNodeJoin(r, j.node)
      PROVE  Goal
  <2> HIDE DEF Goal
  <2>1. PICK res : res = StartJoinQuorum(r, sync[r], j.node, lastExec[r])
    OBVIOUS
  <2>2. Counted(res.sync)
    BY <2>1, StartJoinQuorumCounted DEF CountedInv, AlignedInv
  <2>3. Update(r, res.sync, mode[r], res.last, net \cup res.sends)
    BY <1>7, <2>1 DEF AttemptQuorumNodeJoin
  <2> QED
    BY <2>2, <2>3, UpdateCounted DEF Goal
<1>8. ASSUME NEW r \in Correct, JoiningQuorum(r)
      PROVE  Goal
  BY <1>8 DEF JoiningQuorum, NobodyJoins
<1>9. ASSUME NEW r \in Correct, NEW i \in InstallViews, InstallView(r, i.seq)
      PROVE  Goal
  <2> HIDE DEF Goal
  <2>1. PICK view : view = Peek(sync[r].view, i.seq)
    OBVIOUS
  <2>2. view.seq \in Int
    BY SMTT(120), <2>1, ViewChangeAssumption DEF Peek, NewViewInfo
  <2>3. sync[r].phase \in {"Init", "SyncingState"}
    BY <1>9, ViewChangeAssumption DEF InstallView
  <2>4. Counted(ReceiveView(r, sync[r], view))
    BY <2>2, <2>3, ReceiveViewCounted DEF CountedInv, AlignedInv
  <2>5. \E newMode : Update(r, ReceiveView(r, sync[r], view), newMode, lastExec[r], net)
    BY <1>9, <2>1 DEF InstallView
  <2> QED
    BY <2>4, <2>5, UpdateCounted DEF Goal
<1>10. ASSUME UNCHANGED vars
       PROVE  Goal
  BY <1>10 DEF vars, CountedInv
<1>11. Goal
  <2> HIDE DEF Goal
  <2> QED
    BY <1>1, <1>2, <1>3, <1>4, <1>5, <1>6, <1>7, <1>8, <1>9, <1>10 DEF Next, Step
<1>12. AlignedInv'
  BY NextAligned DEF CountedInv
<1> QED
  BY <1>11, <1>12 DEF CountedInv, Counted, Stoppers

(***************************************************************************)
(* The STOPs a stopping replica has counted are as many as the different   *)
(* nodes it has one of, all for the view after its own: repeated STOPs,    *)
(* STOPs of an earlier change, and the resets of begin_view_change() and   *)
(* of a join that a STOP overtakes, do not make it leave its view early.   *)
(***************************************************************************)
THEOREM CountsStopsHolds == NobodyJoins => (Spec => []CountsStops)
<1> SUFFICES ASSUME NobodyJoins PROVE Spec => []CountsStops
  OBVIOUS
<1>1. Init => CountedInv
  BY InitCounted
<1>2. CountedInv /\ [Next]_vars => CountedInv'
  BY NextCounted
<1>3. CountedInv => CountsStops
  BY DEF CountedInv, Counted, Stoppers, StopPhases, CountsStops
<1> QED
  BY <1>1, <1>2, <1>3, PTL DEF Spec

-----------------------------------------------------------------------------
(***************************************************************************)
(* What a synchronizer reports of a message it has processed, which the    *)
(* ordering protocol makes its phase of, and what becomes of the members   *)
(* of its views.                                                           *)
(***************************************************************************)
Passing == {"StoppingData", "Syncing"}

Joining == {"ViewStopping", "ViewStopping2"}

HasMembers(view) == \E M : view.members \in Seq(M)

WithMembers(s) == HasMembers(s.view) /\ HasMembers(s.next)

\* A quorum has voted for the node that t adds to the view of s.
ByQuorum(s, t) ==
  s.phase \in Joining /\ t.phase \in Passing =>
    Cardinality(VotersFor(t, t.next.members[Len(t.next.members)])) >= QuorumSize(s.view)

ReportsPhase(status, phase, before) ==
  \/ status = "Nil" /\ phase = before /\ before \notin Passing
  \/ status = "Running" /\ phase # "Init"
  \/ status = "RunCst" /\ phase # "Init" /\ before \in Passing
  \/ status = "NewView" /\ phase = "Init" /\ before \in Passing

Reports(res, s) ==
  /\ WithMembers(res.sync) /\ ByQuorum(s, res.sync)
  /\ ReportsPhase(res.status, res.sync.phase, s.phase)

LEMMA NewViewMembers ==
  ASSUME NEW seq, NEW n \in Nat
  PROVE  HasMembers(NewViewInfo(seq, n))
<1>1. [i \in 1..n |-> i - 1] \in Seq(Int)
  BY SMTT(120)
<1>2. NewViewInfo(seq, n).members = [i \in 1..n |-> i - 1]
  BY DEF NewViewInfo
<1> QED
  BY <1>1, <1>2 DEF HasMembers

LEMMA PeekMembers ==
  ASSUME NEW view, HasMembers(view), NEW seq
  PROVE  HasMembers(Peek(view, seq))
<1>1. Len(view.members) \in Nat
  BY SMTT(120) DEF HasMembers
<1> QED
  BY <1>1, NewViewMembers DEF Peek

LEMMA NoViewMembers == HasMembers(NoView)
BY NewViewMembers DEF NoView

LEMMA NewNodeMembers ==
  ASSUME NEW view, HasMembers(view), NEW node
  PROVE  LET next == NextViewWithNewNode(view, node)
         IN  HasMembers(next) /\ next.members[Len(next.members)] = node
<1> DEFINE next == NextViewWithNewNode(view, node)
<1>1. next.members = Append(view.members, node)
  BY DEF NextViewWithNewNode, FromQuorum
<1>2. PICK M : view.members \in Seq(M)
  BY DEF HasMembers
<1>3. view.members \in Seq(M \cup {node})
  BY <1>2, SeqGrows
<1> HIDE DEF next
<1>4. next.members \in Seq(M \cup {node}) /\ next.members[Len(next.members)] = node
  BY SMTT(120), <1>1, <1>3
<1> QED
  BY <1>4 DEF HasMembers, next

\* The views and the votes stay, and the change does not pass to its next stage.
LEMMA SameReport ==
  ASSUME NEW s, WithMembers(s), NEW t, t.view = s.view, t.next = s.next,
         s.phase \in Joining => t.phase \notin Passing, NEW status,
         ReportsPhase(status, t.phase, s.phase), NEW sends, NEW last
  PROVE  Reports(Result(t, status, sends, last), s)
<1>1. Result(t, status, sends, last).sync = t /\ Result(t, status, sends, last).status = status
  BY DEF Result
<1> QED
  BY <1>1 DEF Reports, WithMembers, ByQuorum

LEMMA SyncQueueReports ==
  ASSUME NEW s, IsSync(s), NEW m, m.view \in Int
  PROVE  /\ SyncQueue(s, m).view = s.view /\ SyncQueue(s, m).next = s.next
         /\ SyncQueue(s, m).phase = s.phase
<1> DEFINE t == SyncQueue(s, m)
<1>1. t = [field \in SyncFields |-> IF field = "queue" THEN t.queue ELSE s[field]]
  BY SyncQueueSync
<1> HIDE DEF t
<1>2. t.view = s.view /\ t.next = s.next /\ t.phase = s.phase
  BY <1>1 DEF SyncFields
<1> QED
  BY <1>2 DEF t

LEMMA StoppingQuorumReports ==
  ASSUME NEW self, NEW s, IsSync(s), HasMembers(s.view), NEW next, HasMembers(next), NEW last,
         NEW before, before.phase \in Joining =>
           Cardinality(VotersFor(s, next.members[Len(next.members)])) >= QuorumSize(before.view)
  PROVE  Reports(StoppingQuorum(self, s, next, last), before)
<1> DEFINE res == StoppingQuorum(self, s, next, last)
           t(phase) == EnterPhase([s EXCEPT !.next = next, !.stopped = {}], phase, 0)
<1>1. PICK phase \in Passing : res.sync = t(phase)
  BY DEF StoppingQuorum, Result, Passing
<1>2. res.status = "Running"
  BY DEF StoppingQuorum, Result
<1> HIDE DEF res
<1> DEFINE u == t(phase)
<1>3. /\ u.view = s.view /\ u.next = next /\ u.phase = phase /\ u.adding = s.adding
  BY DEF IsSync, SyncFields, EnterPhase
<1> HIDE DEF u, t
<1>4. VotersFor(u, next.members[Len(next.members)]) = VotersFor(s, next.members[Len(next.members)])
  BY <1>3 DEF VotersFor
<1>5. res.sync = u
  BY <1>1 DEF u
<1>6. WithMembers(u) /\ ByQuorum(before, u)
  BY <1>3, <1>4 DEF WithMembers, ByQuorum
<1>7. ReportsPhase("Running", u.phase, before.phase)
  BY <1>3 DEF ReportsPhase, Passing
<1> QED
  BY <1>2, <1>5, <1>6, <1>7 DEF Reports, res

LEMMA ProcessStopReports ==
  ASSUME NEW self, NEW s, IsSync(s), WithMembers(s), s.phase \in StopPhases, NEW last, NEW m
  PROVE  Reports(ProcessStop(self, s, last, m), s)
<1> DEFINE t == [s EXCEPT !.stopped = @ \cup {m}, !.count = @ + 1]
           u == [t EXCEPT !.phase = "Stopping2"]
           res == ProcessStop(self, s, last, m)
           status == IF s.phase = "Stopping" THEN "Nil" ELSE "Running"
<1>1. /\ t = [field \in SyncFields |-> t[field]]
      /\ t.view = s.view /\ t.queue = s.queue /\ t.next = s.next /\ t.phase = s.phase
  BY DEF IsSync, SyncFields
<1>2. \/ res = Result(u, "Running", Stops(self, s), last)
      \/ res = StoppingQuorum(self, t, NextView(s.view), last)
      \/ res = Result(t, status, {}, last)
  BY DEF ProcessStop
<1>3. /\ s.phase \notin Joining
      /\ ReportsPhase("Running", "Stopping2", s.phase) /\ ReportsPhase(status, s.phase, s.phase)
  BY DEF ReportsPhase, StopPhases, Passing, Joining
<1> HIDE DEF t, res, status
<1>4. u.view = s.view /\ u.next = s.next /\ u.phase = "Stopping2"
  BY <1>1 DEF SyncFields
<1> HIDE DEF u
<1>5. IsSync(t)
  BY <1>1, SameQueues DEF IsSync
<1>6. HasMembers(NextView(s.view)) /\ HasMembers(t.view)
  BY <1>1, PeekMembers DEF NextView, WithMembers
<1>7. CASE res = Result(u, "Running", Stops(self, s), last)
  BY <1>3, <1>4, <1>7, SameReport DEF res
<1>8. CASE res = StoppingQuorum(self, t, NextView(s.view), last)
  BY <1>3, <1>5, <1>6, <1>8, StoppingQuorumReports DEF res
<1>9. CASE res = Result(t, status, {}, last)
  BY <1>1, <1>3, <1>9, SameReport DEF res
<1> QED
  BY <1>2, <1>7, <1>8, <1>9


LEMMA ProcessStoppingReports ==
  ASSUME NEW self, NEW s, IsSync(s), WithMembers(s), s.phase \in StopPhases, NEW last,
         NEW m, m.view \in Int
  PROVE  Reports(ProcessStopping(self, s, last, m), s)
<1> DEFINE res == ProcessStopping(self, s, last, m)
           t == SyncQueue(s, m)
<1>1. \/ res = Result(s, StopStatus(s), {}, last)
      \/ res = Result(t, StopStatus(s), {}, last)
      \/ res = ProcessStop(self, s, last, m)
  BY DEF ProcessStopping
<1>2. t.view = s.view /\ t.next = s.next /\ t.phase = s.phase
  BY SyncQueueReports
<1>3. s.phase \notin Joining /\ ReportsPhase(StopStatus(s), s.phase, s.phase)
  BY DEF StopStatus, ReportsPhase, StopPhases, Passing, Joining
<1> HIDE DEF res, t
<1>4. CASE res = Result(s, StopStatus(s), {}, last)
  BY <1>3, <1>4, SameReport DEF res
<1>5. CASE res = Result(t, StopStatus(s), {}, last)
  BY <1>2, <1>3, <1>5, SameReport DEF res
<1> QED
  BY <1>1, <1>4, <1>5, ProcessStopReports DEF res

LEMMA ProcessJoinReports ==
  ASSUME NEW self, NEW s, IsSync(s), WithMembers(s), s.phase \in Joining, NEW last, NEW m
  PROVE  Reports(ProcessJoin(self, s, last, m), s)
<1> DEFINE t == [s EXCEPT !.adding = @ \cup {[node |-> m.node, voter |-> m.from]}, !.count = @ + 1]
           u == [t EXCEPT !.addingNode = m.node]
           node == MostVoted(t)
           next == NextViewWithNewNode(s.view, node)
           res == ProcessJoin(self, s, last, m)
           w(phase) == [t EXCEPT !.phase = phase]
           Stays == {"ViewStopping", "ViewStopping2", "Panicked"}
<1>1. /\ t = [field \in SyncFields |-> t[field]]
      /\ t.view = s.view /\ t.queue = s.queue /\ t.next = s.next
  BY DEF IsSync, SyncFields
<1>2. \/ \E phase \in Stays : res = Result(w(phase), "Running", {}, last)
      \/ res = StoppingQuorum(self, u, next, last) /\ HasJoinQuorum(t)
  <2>1. \/ res = Result(w("ViewStopping2"), "Running", {}, last)
        \/ res = StoppingQuorum(self, u, next, last) /\ HasJoinQuorum(t)
        \/ res = Result(IF t.count >= Len(s.view.members) THEN Panic(t) ELSE w("ViewStopping"),
                        "Running", {}, last)
    <3> HIDE DEF t, next
    <3> QED
      BY SMTT(120) DEF ProcessJoin, t, next
  <2> HIDE DEF t, res, next
  <2> QED
    BY <2>1 DEF Panic
<1>3. HasMembers(next) /\ next.members[Len(next.members)] = node
  <2> HIDE DEF node
  <2> QED
    BY NewNodeMembers DEF WithMembers
<1> HIDE DEF t, res, next
<1>4. /\ u = [field \in SyncFields |-> u[field]]
      /\ u.view = s.view /\ u.queue = s.queue /\ u.next = s.next /\ u.adding = t.adding
  BY <1>1 DEF SyncFields
<1>5. \A phase : w(phase).view = s.view /\ w(phase).next = s.next /\ w(phase).phase = phase
  BY <1>1 DEF SyncFields
<1> HIDE DEF u, w
<1>6. IsSync(u)
  BY <1>4, SameQueues DEF IsSync
<1>7. CASE res = StoppingQuorum(self, u, next, last) /\ HasJoinQuorum(t)
  <2>1. VotersFor(u, node) = VotersFor(t, node) /\ QuorumSize(t.view) = QuorumSize(s.view)
    <3> HIDE DEF node
    <3> QED
      BY <1>1, <1>4 DEF VotersFor
  <2>2. Cardinality(VotersFor(u, next.members[Len(next.members)])) >= QuorumSize(s.view)
    <3>1. Cardinality(VotersFor(t, node)) >= QuorumSize(t.view)
      BY <1>7 DEF HasJoinQuorum
    <3> HIDE DEF node
    <3> QED
      BY <1>3, <2>1, <3>1
  <2>3. HasMembers(u.view)
    BY <1>4 DEF WithMembers
  <2> HIDE DEF node
  <2> QED
    BY <1>3, <1>6, <1>7, <2>2, <2>3, StoppingQuorumReports DEF res
<1>8. CASE \E phase \in Stays : res = Result(w(phase), "Running", {}, last)
  <2>1. PICK phase \in Stays : res = Result(w(phase), "Running", {}, last)
    BY <1>8
  <2>2. phase \notin Passing /\ ReportsPhase("Running", phase, s.phase)
    BY DEF Passing, ReportsPhase
  <2> HIDE DEF Stays
  <2> QED
    BY <1>5, <2>1, <2>2, SameReport DEF res
<1> QED
  BY <1>2, <1>7, <1>8

LEMMA ProcessViewStoppingReports ==
  ASSUME NEW self, NEW s, IsSync(s), WithMembers(s), s.phase \in Joining, NEW last,
         NEW m, m.view \in Int
  PROVE  Reports(ProcessViewStopping(self, s, last, m), s)
<1> DEFINE res == ProcessViewStopping(self, s, last, m)
           t == SyncQueue(s, m)
           u == EnterPhase(t, "Stopping", 0)
<1>1. \/ res = Result(t, StopStatus(s), {}, last)
      \/ res = Result(u, "Running", {}, last)
      \/ res = ProcessJoin(self, s, last, m)
  BY DEF ProcessViewStopping
<1>2. IsSync(t) /\ t.view = s.view /\ t.next = s.next /\ t.phase = s.phase
  BY SyncQueueSync, SyncQueueReports
<1> HIDE DEF t
<1>3. u.view = t.view /\ u.next = t.next /\ u.phase = "Stopping"
  BY <1>2 DEF EnterPhase, SyncFields, IsSync
<1>4. /\ "Stopping" \notin Passing /\ s.phase \notin Passing
      /\ ReportsPhase(StopStatus(s), s.phase, s.phase) /\ ReportsPhase("Running", "Stopping", s.phase)
  BY DEF StopStatus, ReportsPhase, Passing, Joining
<1> HIDE DEF u, res
<1>5. CASE res = Result(t, StopStatus(s), {}, last)
  BY <1>2, <1>4, <1>5, SameReport DEF res
<1>6. CASE res = Result(u, "Running", {}, last)
  BY <1>2, <1>3, <1>4, <1>6, SameReport DEF res
<1> QED
  BY <1>1, <1>5, <1>6, ProcessJoinReports DEF res


\* An installed view has the members it is given.
LEMMA InstallInTboMembers ==
  ASSUME NEW s, IsSync(s), HasMembers(s.view), NEW view, view.seq \in Int, HasMembers(view)
  PROVE  HasMembers(InstallInTbo(s, view).view)
<1> DEFINE q == [k \in DOMAIN s.queue |-> DropQueues(s.queue[k], view.seq - s.view.seq)]
           t == [s EXCEPT !.view = view, !.queue = q]
<1>1. InstallInTbo(s, view) = IF view.seq <= s.view.seq THEN s ELSE t
  BY DEF InstallInTbo
<1> HIDE DEF q
<1>2. t.view = view
  BY DEF IsSync, SyncFields
<1> HIDE DEF t
<1> QED
  BY <1>1, <1>2

\* A view change is finished, or waits for a state transfer, or for a better SYNC.
Finalizes(res, s) ==
  /\ WithMembers(res.sync) /\ res.sync.signalled = s.signalled
  /\ \/ res.status = "RunCst" /\ res.sync.phase = "SyncingState"
     \/ res.status = "Running" /\ res.sync.phase \in {s.phase, "Panicked"}
     \/ res.status = "NewView" /\ res.sync.phase = "Init"

LEMMA FinalizeMoves ==
  ASSUME NEW s, IsSync(s), WithMembers(s), NEW last, NEW state, NEW proof, NEW sends
  PROVE  Finalizes(Finalize(s, last, state, proof, sends), s)
<1> DEFINE res == Finalize(s, last, state, proof, sends)
           transfer == [s EXCEPT !.finalizing = state, !.phase = "SyncingState"]
           panic == Panic(s)
           installed == InstallInTbo(s, s.next)
           advanced == AdvanceView(s)
           done == [EnterPhase(advanced, "Init", 0) EXCEPT
                      !.adding = IF s.addingNode = NoNode THEN @ ELSE {}, !.addingNode = NoNode]
           Kept(t) == WithMembers(t) /\ t.signalled = s.signalled
<1>1. /\ transfer.view = s.view /\ transfer.next = s.next /\ transfer.phase = "SyncingState"
      /\ transfer.signalled = s.signalled
  BY DEF IsSync, SyncFields
<1>2. /\ panic.view = s.view /\ panic.next = s.next /\ panic.phase = "Panicked"
      /\ panic.signalled = s.signalled
  BY DEF IsSync, SyncFields, Panic
<1>3. /\ advanced = [field \in SyncFields |-> advanced[field]] /\ Kept(advanced)
  <2>1. CASE s.next = NoView
    BY <2>1 DEF AdvanceView, IsSync
  <2>2. CASE s.next # NoView
    <3>1. s.next.seq \in Int
      BY DEF IsSync
    <3>2. installed = [field \in SyncFields |-> IF field \in {"view", "queue"} THEN installed[field]
                                                                              ELSE s[field]]
      BY <3>1, InstallInTboSync
    <3>3. HasMembers(installed.view)
      BY <3>1, InstallInTboMembers DEF WithMembers
    <3>4. advanced = [installed EXCEPT !.next = NoView]
      BY <2>2 DEF AdvanceView
    <3> HIDE DEF advanced, installed
    <3>5. /\ advanced = [field \in SyncFields |-> advanced[field]] /\ advanced.next = NoView
          /\ advanced.view = installed.view /\ advanced.signalled = s.signalled
      BY <3>2, <3>4 DEF SyncFields
    <3> QED
      BY <3>3, <3>5, NoViewMembers DEF WithMembers
  <2> QED
    BY <2>1, <2>2
<1>4. \/ res = Result(transfer, "RunCst", sends, last)
      \/ res = Result(s, "Running", sends, last)
      \/ res = Result(panic, "Running", sends, last)
      \/ \E newLast : res = Result(done, "NewView", sends, newLast)
  <2> HIDE DEF transfer, panic, done
  <2> QED
    BY DEF Finalize, panic, transfer, advanced, done
<1> HIDE DEF advanced, res, transfer, panic
<1>5. /\ done.view = advanced.view /\ done.next = advanced.next /\ done.phase = "Init"
      /\ done.signalled = advanced.signalled
  BY <1>3 DEF EnterPhase, SyncFields
<1> HIDE DEF done
<1>6. Kept(transfer) /\ Kept(panic) /\ Kept(done) /\ Kept(s)
  BY <1>1, <1>2, <1>3, <1>5 DEF WithMembers
<1> HIDE DEF Kept
<1>7. /\ Kept(res.sync)
      /\ \/ res.status = "RunCst" /\ res.sync.phase = "SyncingState"
         \/ res.status = "Running" /\ res.sync.phase \in {s.phase, "Panicked"}
         \/ res.status = "NewView" /\ res.sync.phase = "Init"
  BY SMTT(120), <1>1, <1>2, <1>4, <1>5, <1>6 DEF Result
<1> QED
  BY <1>7 DEF Kept, Finalizes, res

LEMMA FinalizeReports ==
  ASSUME NEW s, IsSync(s), WithMembers(s), s.phase \in Passing, NEW last, NEW state, NEW proof,
         NEW sends
  PROVE  Reports(Finalize(s, last, state, proof, sends), s)
<1> DEFINE res == Finalize(s, last, state, proof, sends)
<1>1. Finalizes(res, s)
  BY FinalizeMoves
<1> HIDE DEF res
<1>2. ReportsPhase(res.status, res.sync.phase, s.phase)
  BY <1>1 DEF Finalizes, ReportsPhase, Passing
<1>3. s.phase \notin Joining
  BY DEF Passing, Joining
<1> QED
  BY <1>1, <1>2, <1>3 DEF Finalizes, Reports, ByQuorum, res

LEMMA ProcessStoppingDataReports ==
  ASSUME NEW self, NEW s, IsSync(s), WithMembers(s), s.phase = "StoppingData", NEW last,
         NEW m, m.view \in Int, NEW sound, NEW empty
  PROVE  Reports(ProcessStoppingData(self, s, last, m, sound, empty), s)
<1> DEFINE res == ProcessStoppingData(self, s, last, m, sound, empty)
           t == [s EXCEPT !.collects = @ \cup {m}]
           u == [t EXCEPT !.count = @ + 1]
           state == [proof |-> HighestProof(t.collects), sound |-> sound, empty |-> empty]
           syncs == Syncs(self, s.next, state)
<1>1. \/ \E v \in {s, SyncQueue(s, m), u} : res = Result(v, "Running", {}, last)
      \/ res = Finalize(t, last, state, state.proof, syncs)
  <2>1. \/ res = Result(SyncQueue(s, m), "Running", {}, last)
        \/ res = Result(IF Leader(Peek(s.next, m.view)) = self THEN SyncQueue(s, m) ELSE s,
                        "Running", {}, last)
        \/ res = Result(s, "Running", {}, last)
        \/ res = Result(u, "Running", {}, last)
        \/ res = Finalize(t, last, state, state.proof, syncs)
    <3> HIDE DEF t, u, state
    <3> QED
      BY DEF ProcessStoppingData, t, u, state
  <2> HIDE DEF res, t, u, state
  <2> QED
    BY <2>1
<1>2. /\ t = [field \in SyncFields |-> t[field]] /\ t.view = s.view /\ t.queue = s.queue
      /\ t.next = s.next /\ t.phase = s.phase
  BY DEF IsSync, SyncFields
<1> HIDE DEF t, res, state, syncs
<1>3. u.view = s.view /\ u.next = s.next /\ u.phase = s.phase
  BY <1>2 DEF SyncFields
<1> HIDE DEF u
<1>4. IsSync(t) /\ WithMembers(t)
  BY <1>2, SameQueues DEF IsSync, WithMembers
<1>5. /\ s.phase \in Passing /\ s.phase \notin Joining
      /\ ReportsPhase("Running", s.phase, s.phase)
  BY DEF Passing, Joining, ReportsPhase
<1>6. CASE \E v \in {s, SyncQueue(s, m), u} : res = Result(v, "Running", {}, last)
  <2>1. PICK v \in {s, SyncQueue(s, m), u} : res = Result(v, "Running", {}, last)
    BY <1>6
  <2>2. v.view = s.view /\ v.next = s.next /\ v.phase = s.phase
    BY SMTT(120), <1>3, SyncQueueReports
  <2> QED
    BY <1>5, <2>1, <2>2, SameReport DEF res
<1>7. CASE res = Finalize(t, last, state, state.proof, syncs)
  <2>1. Reports(res, t)
    BY <1>2, <1>4, <1>5, <1>7, FinalizeReports
  <2> QED
    BY <1>2, <2>1 DEF Reports, ByQuorum, res
<1> QED
  BY <1>1, <1>6, <1>7

LEMMA ProcessSyncingReports ==
  ASSUME NEW s, IsSync(s), WithMembers(s), s.phase = "Syncing", NEW last, NEW m, m.view \in Int
  PROVE  Reports(ProcessSyncing(s, last, m), s)
<1> DEFINE res == ProcessSyncing(s, last, m)
           state == [proof |-> m.proof, sound |-> m.sound, empty |-> m.empty]
<1>1. \/ \E t \in {s, SyncQueue(s, m)} : res = Result(t, "Running", {}, last)
      \/ res = Finalize(s, last, state, m.proof, {})
  <2> HIDE DEF state
  <2> QED
    BY DEF ProcessSyncing, state
<1>2. /\ s.phase \in Passing /\ s.phase \notin Joining
      /\ ReportsPhase("Running", s.phase, s.phase)
  BY DEF Passing, Joining, ReportsPhase
<1> HIDE DEF res, state
<1>3. CASE \E t \in {s, SyncQueue(s, m)} : res = Result(t, "Running", {}, last)
  <2>1. PICK t \in {s, SyncQueue(s, m)} : res = Result(t, "Running", {}, last)
    BY <1>3
  <2>2. t.view = s.view /\ t.next = s.next /\ t.phase = s.phase
    BY SMTT(120), SyncQueueReports
  <2> QED
    BY <1>2, <2>1, <2>2, SameReport DEF res
<1>4. CASE res = Finalize(s, last, state, m.proof, {})
  BY <1>2, <1>4, FinalizeReports DEF res
<1> QED
  BY <1>1, <1>3, <1>4


LEMMA PanicReports ==
  ASSUME NEW s, IsSync(s)
  PROVE  /\ Panic(s).view = s.view /\ Panic(s).next = s.next /\ Panic(s).phase = "Panicked"
         /\ Panic(s).signalled = s.signalled
BY DEF IsSync, SyncFields, Panic

LEMMA ProcessMessageReports ==
  ASSUME NEW self, NEW s, IsSync(s), WithMembers(s), NEW last, NEW m, m.view \in Int,
         NEW sound, NEW empty
  PROVE  Reports(ProcessMessage(self, s, last, m, sound, empty), s)
<1> DEFINE res == ProcessMessage(self, s, last, m, sound, empty)
<1>1. CASE s.phase = "Init"
  <2>1. res = Result(SyncQueue(s, m), "Nil", {}, last)
    BY <1>1 DEF ProcessMessage
  <2>2. ReportsPhase("Nil", s.phase, s.phase) /\ s.phase \notin Passing
    BY <1>1 DEF ReportsPhase, Passing
  <2> HIDE DEF res
  <2>3. /\ SyncQueue(s, m).view = s.view /\ SyncQueue(s, m).next = s.next
        /\ SyncQueue(s, m).phase = s.phase
    BY SyncQueueReports
  <2> QED
    BY <2>1, <2>2, <2>3, SameReport DEF res
<1>2. CASE s.phase \in {"Stopping", "Stopping2"}
  <2>1. res = ProcessStopping(self, s, last, m)
    BY <1>2 DEF ProcessMessage
  <2> HIDE DEF res
  <2> QED
    BY <1>2, <2>1, ProcessStoppingReports DEF res, StopPhases
<1>3. CASE s.phase \in {"ViewStopping", "ViewStopping2"}
  <2>1. res = ProcessViewStopping(self, s, last, m)
    BY <1>3 DEF ProcessMessage
  <2> HIDE DEF res
  <2> QED
    BY <1>3, <2>1, ProcessViewStoppingReports DEF res, Joining
<1>4. CASE s.phase = "StoppingData"
  <2>1. res = ProcessStoppingData(self, s, last, m, sound, empty)
    BY <1>4 DEF ProcessMessage
  <2> HIDE DEF res
  <2> QED
    BY <1>4, <2>1, ProcessStoppingDataReports DEF res
<1>5. CASE s.phase = "Syncing"
  <2>1. res = ProcessSyncing(s, last, m)
    BY <1>5 DEF ProcessMessage
  <2> HIDE DEF res
  <2> QED
    BY <1>5, <2>1, ProcessSyncingReports DEF res
<1>6. CASE s.phase \notin {"Init", "Stopping", "Stopping2", "ViewStopping", "ViewStopping2",
                           "StoppingData", "Syncing"}
  <2>1. res = Result(Panic(s), "Running", {}, last)
    BY <1>6 DEF ProcessMessage
  <2>2. ReportsPhase("Running", "Panicked", s.phase) /\ "Panicked" \notin Passing
    BY DEF ReportsPhase, Passing
  <2> HIDE DEF res
  <2> QED
    BY <2>1, <2>2, PanicReports, SameReport DEF res
<1> QED
  BY <1>1, <1>2, <1>3, <1>4, <1>5, <1>6

LEMMA AfterPollReports ==
  ASSUME NEW s, IsSync(s), CanProcess(s, PolledQueue(s))
  PROVE  /\ AfterPoll(s).view = s.view /\ AfterPoll(s).next = s.next
         /\ AfterPoll(s).phase # "Init" /\ (s.phase # "Init" => AfterPoll(s).phase = s.phase)
<1> DEFINE t == AfterPoll(s)
           u == [s EXCEPT !.queue[PolledQueue(s)][1] = Tail(@)]
<1>1. t = [field \in SyncFields |-> IF field \in {"phase", "count", "queue"} THEN t[field]
                                                                             ELSE s[field]]
  BY AfterPollSync
<1>2. CASE s.phase # "Init"
  <2>1. t = u
    BY <1>2 DEF AfterPoll
  <2>2. u.phase = s.phase
    BY DEF IsSync, SyncFields
  <2> HIDE DEF t, u
  <2>3. t.view = s.view /\ t.next = s.next
    BY <1>1 DEF SyncFields
  <2> QED
    BY <1>2, <2>1, <2>2, <2>3 DEF t
<1>3. CASE s.phase = "Init"
  <2>1. PICK phase \in {"Stopping", "ViewStopping"} : t = EnterPhase(u, phase, 0)
    BY <1>3 DEF AfterPoll
  <2>2. u = [field \in SyncFields |-> u[field]]
    BY DEF IsSync
  <2> HIDE DEF t, u
  <2>3. t.phase = phase
    BY <2>1, <2>2 DEF EnterPhase, SyncFields
  <2>4. t.view = s.view /\ t.next = s.next
    BY <1>1 DEF SyncFields
  <2> QED
    BY <1>3, <2>3, <2>4 DEF t
<1> QED
  BY <1>2, <1>3

LEMMA ResumeViewChangeReports ==
  ASSUME NEW s, IsSync(s), WithMembers(s), s.phase = "SyncingState", NEW last
  PROVE  LET t == ResumeViewChange(s, last).sync
         IN  /\ WithMembers(t) /\ t.signalled = s.signalled
             /\ t.phase \in {"Init", "SyncingState", "Panicked"}
<1> DEFINE t == [s EXCEPT !.finalizing = NoState]
           res == ResumeViewChange(s, last)
<1>1. /\ t = [field \in SyncFields |-> t[field]] /\ t.view = s.view /\ t.queue = s.queue
      /\ t.next = s.next /\ t.signalled = s.signalled /\ t.phase = s.phase
  BY DEF IsSync, SyncFields
<1>2. \/ res.sync = s
      \/ res = Finalize(t, last, s.finalizing, NoDecision, {})
  BY DEF ResumeViewChange, Result
<1> HIDE DEF t, res
<1>3. IsSync(t) /\ WithMembers(t)
  BY <1>1, SameQueues DEF IsSync, WithMembers
<1>4. CASE res.sync = s
  BY <1>4 DEF res
<1>5. CASE res = Finalize(t, last, s.finalizing, NoDecision, {})
  <2>1. Finalizes(res, t)
    BY <1>3, <1>5, FinalizeMoves
  <2>2. WithMembers(res.sync) /\ res.sync.signalled = s.signalled
    BY <1>1, <2>1 DEF Finalizes
  <2>3. res.sync.phase \in {"Init", "SyncingState", "Panicked"}
    BY <1>1, <2>1 DEF Finalizes
  <2> QED
    BY <2>2, <2>3 DEF res
<1> QED
  BY <1>2, <1>4, <1>5

\* What starts a view change leaves the views, the queues and the signal alone.
Starts(s, t) ==
  t.view = s.view /\ t.next = s.next /\ t.queue = s.queue /\ t.signalled = s.signalled

\* A replica whose requests have timed out stops, unless it has passed that stage.
LEMMA BeginViewChangeReports ==
  ASSUME NEW self, NEW s, IsSync(s), NEW last
  PROVE  /\ Starts(s, BeginViewChange(self, s, last).sync)
         /\ BeginViewChange(self, s, last).sync.phase =
              IF s.phase \in Passing THEN s.phase ELSE "Stopping2"
<1> DEFINE res == BeginViewChange(self, s, last).sync
           t == [s EXCEPT !.phase = "Stopping2"]
           u == EnterPhase(s, "Stopping2", 0)
           w == EnterPhase(ClearState(s), "Stopping2", 0)
<1>1. \/ res \in {t, u, w} /\ s.phase \notin Passing
      \/ res = s /\ s.phase \in {"Stopping2", "StoppingData", "Syncing"}
  <2> HIDE DEF t, u, w
  <2> QED
    BY DEF BeginViewChange, Result, Passing, t, u, w
<1>2. Starts(s, t) /\ t.phase = "Stopping2"
  BY DEF Starts, IsSync, SyncFields
<1>3. Starts(s, u) /\ u.phase = "Stopping2"
  BY DEF Starts, IsSync, SyncFields, EnterPhase
<1>4. Starts(s, w) /\ w.phase = "Stopping2"
  BY DEF Starts, IsSync, SyncFields, EnterPhase, ClearState
<1>5. Starts(s, s)
  BY DEF Starts
<1> HIDE DEF t, u, w, res
<1>6. Starts(s, res) /\ res.phase = IF s.phase \in Passing THEN s.phase ELSE "Stopping2"
  BY <1>1, <1>2, <1>3, <1>4, <1>5 DEF Passing
<1> QED
  BY <1>6 DEF res

LEMMA StartJoinQuorumReports ==
  ASSUME NEW self, NEW s, IsSync(s), NEW node, NEW last
  PROVE  /\ Starts(s, StartJoinQuorum(self, s, node, last).sync)
         /\ \/ StartJoinQuorum(self, s, node, last).sync.phase = s.phase
            \/ /\ s.phase = "Init"
               /\ StartJoinQuorum(self, s, node, last).sync.phase = "ViewStopping2"
<1> DEFINE res == StartJoinQuorum(self, s, node, last).sync
           w == EnterPhase(ClearState(s), "ViewStopping2", 0)
<1>1. res = s \/ (s.phase = "Init" /\ res = w)
  BY DEF StartJoinQuorum, Result
<1>2. Starts(s, w) /\ w.phase = "ViewStopping2"
  BY DEF Starts, IsSync, SyncFields, EnterPhase, ClearState
<1>3. Starts(s, s)
  BY DEF Starts
<1> HIDE DEF w, res
<1>4. Starts(s, res) /\ (res.phase = s.phase \/ (s.phase = "Init" /\ res.phase = "ViewStopping2"))
  BY <1>1, <1>2, <1>3
<1> QED
  BY <1>4 DEF res

-----------------------------------------------------------------------------
(***************************************************************************)
(* When a synchronizer is looked at again.  A replica that orders requests *)
(* and is not signalled has nothing queued for any view, since a view that *)
(* is installed brings the queues of later views forward.  One that        *)
(* changes views and is not signalled has looked into the queue of its     *)
(* phase, and does not wait for a state transfer.                          *)
(***************************************************************************)
NothingQueued(s) ==
  \A q \in QueueNames : \A i \in DOMAIN s.queue[q] : s.queue[q][i] = << >>

Awake(s, phase) ==
  \/ phase = "Normal" /\ s.phase \notin Passing /\ (s.signalled \/ NothingQueued(s))
  \/ /\ phase = "Sync" /\ s.phase # "Init"
     /\ s.signalled \/ (s.phase # "SyncingState" /\ ~ CanProcess(s, PolledQueue(s)))

LEMMA NothingToProcess ==
  ASSUME NEW s, IsSync(s), NothingQueued(s), NEW q \in QueueNames
  PROVE  ~ CanProcess(s, q)
<1>1. AlignedQueues(s.queue[q], q, s.view.seq)
  BY DEF IsSync
<1>2. Len(s.queue[q]) > 0 => 1 \in DOMAIN s.queue[q]
  BY SMTT(120), <1>1 DEF AlignedQueues
<1> QED
  BY <1>2 DEF NothingQueued, CanProcess

LEMMA DropNothing ==
  ASSUME NEW queues, NEW q, NEW v, AlignedQueues(queues, q, v), NEW n \in Nat,
         \A i \in DOMAIN queues : queues[i] = << >>
  PROVE  \A i \in DOMAIN DropQueues(queues, n) : DropQueues(queues, n)[i] = << >>
<1>1. PICK M : queues \in Seq(M)
  BY DEF AlignedQueues
<1> DEFINE rest == SubSeq(queues, n + 1, Len(queues))
<1>2. Len(queues) \in Nat
  BY SMTT(120), <1>1
<1>3. \A i \in (n + 1)..Len(queues) : queues[i] \in M
  BY SMTT(120), <1>1, <1>2
<1>4. /\ rest \in Seq(M)
      /\ Len(rest) = IF n + 1 <= Len(queues) THEN Len(queues) - (n + 1) + 1 ELSE 0
      /\ \A i \in 1..(Len(queues) - (n + 1) + 1) : rest[i] = queues[n + 1 + i - 1]
  BY SMTT(120), <1>2, <1>3
<1>5. ASSUME NEW i \in DOMAIN rest
      PROVE  rest[i] = << >>
  <2> HIDE DEF rest
  <2>1. i \in 1..Len(rest)
    BY SMTT(120), <1>4
  <2>2. n + 1 <= Len(queues) /\ i \in 1..(Len(queues) - n) /\ n + i \in 1..Len(queues)
    BY SMTT(120), <1>2, <1>4, <2>1
  <2>3. rest[i] = queues[n + i]
    BY SMTT(120), <1>2, <1>4, <2>2
  <2> QED
    BY SMTT(120), <1>1, <2>2, <2>3
<1> QED
  BY <1>5 DEF DropQueues

LEMMA InstallInTboAwake ==
  ASSUME NEW s, IsSync(s), NEW view, view.seq \in Int
  PROVE  LET t == InstallInTbo(s, view)
         IN  /\ IsSync(t) /\ t.next = s.next /\ t.phase = s.phase /\ t.signalled = s.signalled
             /\ NothingQueued(s) => NothingQueued(t)
<1> DEFINE t == InstallInTbo(s, view)
<1>1. /\ IsSync(t)
      /\ t = [field \in SyncFields |-> IF field \in {"view", "queue"} THEN t[field] ELSE s[field]]
  BY InstallInTboSync
<1>2. ASSUME NothingQueued(s), NEW q \in QueueNames
      PROVE  \A i \in DOMAIN t.queue[q] : t.queue[q][i] = << >>
  <2>1. CASE view.seq <= s.view.seq
    BY <1>2, <2>1 DEF InstallInTbo, NothingQueued
  <2>2. CASE ~ (view.seq <= s.view.seq)
    <3> DEFINE n == view.seq - s.view.seq
               queue == [k \in DOMAIN s.queue |-> DropQueues(s.queue[k], n)]
               u == [s EXCEPT !.view = view, !.queue = queue]
    <3>1. t = u
      BY <2>2 DEF InstallInTbo, IsSync, SyncFields
    <3>2. n \in Nat
      BY SMTT(120), <2>2 DEF IsSync
    <3> HIDE DEF n
    <3>3. queue[q] = DropQueues(s.queue[q], n)
      BY DEF IsSync
    <3> HIDE DEF queue
    <3>4. u.queue = queue
      BY DEF IsSync, SyncFields
    <3>5. AlignedQueues(s.queue[q], q, s.view.seq) /\ \A i \in DOMAIN s.queue[q] : s.queue[q][i] = << >>
      BY <1>2 DEF IsSync, NothingQueued
    <3> HIDE DEF t, u
    <3>6. \A i \in DOMAIN queue[q] : queue[q][i] = << >>
      BY <3>2, <3>3, <3>5, DropNothing
    <3> QED
      BY <3>1, <3>4, <3>6
  <2> QED
    BY <2>1, <2>2
<1> HIDE DEF t
<1>3. t.next = s.next /\ t.phase = s.phase /\ t.signalled = s.signalled
  BY <1>1 DEF SyncFields
<1> QED
  BY <1>1, <1>2, <1>3 DEF NothingQueued, t

\* A view that a state transfer brings: the change to it is run if there are
\* messages to run it with.
Receives(s, t, runs) ==
  /\ WithMembers(t) /\ t.signalled = s.signalled
  /\ runs => t.phase \in Passing
  /\ ~ runs => t.phase = s.phase
  /\ NothingQueued(s) => NothingQueued(t) /\ ~ runs

LEMMA ReceiveViewAwake ==
  ASSUME NEW self, NEW s, IsSync(s), WithMembers(s), NEW view, view.seq \in Int, HasMembers(view)
  PROVE  Receives(s, ReceiveView(self, s, view), RunsAfterReceiving(self, s, view))
<1> DEFINE previous == PreviousView(view)
           t == InstallInTbo(s, previous)
           w == InstallInTbo(t, view)
           u(phase) == [EnterPhase(t, phase, 0) EXCEPT !.next = view]
           runs == RunsAfterReceiving(self, s, view)
           res == ReceiveView(self, s, view)
           Leads == Leader(view) = self
<1>1. \/ runs /\ \E phase \in Passing : res = u(phase)
      \/ ~ runs /\ res = w
  <2>1. /\ runs <=> (Leads /\ CanProcess(t, "stopData")) \/ CanProcess(t, "sync")
        /\ Leads /\ CanProcess(t, "stopData") => res = u("StoppingData")
        /\ ~ (Leads /\ CanProcess(t, "stopData")) /\ CanProcess(t, "sync") => res = u("Syncing")
        /\ ~ (Leads /\ CanProcess(t, "stopData")) /\ ~ CanProcess(t, "sync") => res = w
    <3> HIDE DEF t, previous
    <3> QED
      BY DEF ReceiveView, RunsAfterReceiving, t, previous
  <2>2. "StoppingData" \in Passing /\ "Syncing" \in Passing
    BY DEF Passing
  <2> HIDE DEF runs, res, t, u, w, Leads
  <2> QED
    BY <2>1, <2>2
<1>2. previous.seq \in Int /\ HasMembers(previous)
  BY SMTT(120), PeekMembers DEF PreviousView, Peek, NewViewInfo
<1> HIDE DEF previous
<1>3. /\ IsSync(t) /\ t.next = s.next /\ t.phase = s.phase /\ t.signalled = s.signalled
      /\ NothingQueued(s) => NothingQueued(t)
  BY <1>2, InstallInTboAwake
<1>4. HasMembers(t.view)
  BY <1>2, InstallInTboMembers DEF WithMembers
<1>5. NothingQueued(s) => ~ runs
  <2>1. "stopData" \in QueueNames /\ "sync" \in QueueNames
    BY DEF QueueNames
  <2>2. NothingQueued(s) => ~ CanProcess(t, "stopData") /\ ~ CanProcess(t, "sync")
    <3> HIDE DEF t
    <3> QED
      BY <1>3, <2>1, NothingToProcess
  <2> QED
    BY <2>2 DEF RunsAfterReceiving, previous
<1> HIDE DEF t, runs, res
<1>6. /\ w.next = t.next /\ w.phase = t.phase /\ w.signalled = t.signalled
      /\ NothingQueued(t) => NothingQueued(w)
  BY <1>3, InstallInTboAwake
<1>7. HasMembers(w.view)
  BY <1>3, <1>4, InstallInTboMembers
<1>8. ASSUME NEW phase \in Passing, res = u(phase)
      PROVE  WithMembers(res) /\ res.signalled = s.signalled /\ res.phase \in Passing
  <2>1. /\ u(phase).view = t.view /\ u(phase).next = view /\ u(phase).phase = phase
        /\ u(phase).signalled = t.signalled
    BY <1>3 DEF IsSync, SyncFields, EnterPhase
  <2> HIDE DEF u
  <2> QED
    BY <1>3, <1>4, <1>8, <2>1 DEF WithMembers
<1> HIDE DEF w, u
<1>9. ASSUME res = w
      PROVE  /\ WithMembers(res) /\ res.signalled = s.signalled /\ res.phase = s.phase
             /\ NothingQueued(s) => NothingQueued(res)
  BY <1>3, <1>6, <1>7, <1>9 DEF WithMembers
<1>10. Receives(s, res, runs)
  BY <1>1, <1>5, <1>8, <1>9 DEF Receives
<1> QED
  BY <1>10 DEF runs, res


LEMMA SignalQueuesAwake ==
  ASSUME NEW s, IsSync(s)
  PROVE  LET t == SignalQueues(s)
         IN  /\ t.view = s.view /\ t.next = s.next /\ t.phase = s.phase /\ t.adding = s.adding
             /\ t.signalled
BY DEF IsSync, SyncFields, SignalQueues

\* What the ordering protocol makes of a message that has been processed.
LEMMA ReportsAwake ==
  ASSUME NEW res, IsSync(res.sync), NEW s, Reports(res, s), NEW r,
         mode[r] = "Normal" \/ (mode[r] = "Sync" /\ s.phase # "Init")
  PROVE  LET t == SignalQueues(res.sync)
         IN  WithMembers(t) /\ ByQuorum(s, t) /\ Awake(t, ModeAfter(r, res.status))
<1> DEFINE t == SignalQueues(res.sync)
           newMode == ModeAfter(r, res.status)
<1>1. /\ t.view = res.sync.view /\ t.next = res.sync.next /\ t.phase = res.sync.phase
      /\ t.adding = res.sync.adding /\ t.signalled
  BY SignalQueuesAwake
<1>2. ReportsPhase(res.status, res.sync.phase, s.phase)
  BY DEF Reports
<1>3. \/ newMode = "Normal" /\ res.sync.phase \notin Passing
      \/ newMode = "Sync" /\ res.sync.phase # "Init"
  BY <1>2 DEF ReportsPhase, ModeAfter, Passing
<1> HIDE DEF t, newMode
<1>4. VotersFor(t, t.next.members[Len(t.next.members)]) =
        VotersFor(res.sync, res.sync.next.members[Len(res.sync.next.members)])
  BY <1>1 DEF VotersFor
<1>5. WithMembers(t) /\ ByQuorum(s, t)
  BY <1>1, <1>4 DEF Reports, WithMembers, ByQuorum
<1>6. Awake(t, newMode)
  BY <1>1, <1>3 DEF Awake
<1> QED
  BY <1>5, <1>6 DEF t, newMode

AwakeInv ==
  /\ AlignedInv
  /\ mode = [r \in Correct |-> mode[r]]
  /\ \A r \in Correct : WithMembers(sync[r]) /\ Awake(sync[r], mode[r])

LEMMA InitAwake == Init => AwakeInv
<1> SUFFICES ASSUME Init PROVE AwakeInv
  OBVIOUS
<1> DEFINE s == InitSync(FromQuorum(0, Members))
<1>1. /\ s.phase = "Init" /\ s.view.members = Members /\ s.next = NoView
      /\ s.queue = [stop |-> << >>, stopData |-> << >>, sync |-> << >>]
  BY DEF InitSync, FromQuorum
<1>2. sync = [r \in Correct |-> s] /\ mode = [r \in Correct |-> "Normal"]
  BY DEF Init, s
<1> HIDE DEF s
<1>3. WithMembers(s)
  <2>1. HasMembers(s.view)
    BY <1>1, ViewChangeAssumption DEF HasMembers
  <2> QED
    BY <1>1, <2>1, NoViewMembers DEF WithMembers
<1>4. NothingQueued(s)
  <2>1. \A q \in QueueNames : s.queue[q] = << >>
    BY SMTT(120), <1>1 DEF QueueNames
  <2>2. \A i \in DOMAIN << >> : FALSE
    BY SMTT(120)
  <2> QED
    BY <2>1, <2>2 DEF NothingQueued
<1>5. Awake(s, "Normal")
  BY <1>1, <1>4 DEF Awake, Passing
<1> QED
  BY <1>2, <1>3, <1>5, InitAligned DEF AwakeInv

\* What a step may make of the synchronizer of every replica.
StaysAwake ==
  \A k \in Correct : WithMembers(sync'[k]) /\ Awake(sync'[k], mode'[k]) /\ ByQuorum(sync[k], sync'[k])

LEMMA UpdateAwake ==
  ASSUME AwakeInv, NEW r \in Correct, NEW s, WithMembers(s), NEW newMode, Awake(s, newMode),
         ByQuorum(sync[r], s), NEW last, NEW newNet, Update(r, s, newMode, last, newNet)
  PROVE  StaysAwake /\ mode' = [k \in Correct |-> mode'[k]]
<1>1. /\ \A k \in Correct : sync'[k] = IF k = r THEN s ELSE sync[k]
      /\ \A k \in Correct : mode'[k] = IF k = r THEN newMode ELSE mode[k]
      /\ mode' = [k \in Correct |-> mode'[k]]
  BY DEF Update, AwakeInv, AlignedInv
<1>2. ASSUME NEW k \in Correct
      PROVE  WithMembers(sync'[k]) /\ Awake(sync'[k], mode'[k]) /\ ByQuorum(sync[k], sync'[k])
  <2>1. CASE k = r
    BY <1>1, <2>1
  <2>2. CASE k # r
    <3>1. sync'[k] = sync[k] /\ mode'[k] = mode[k]
      BY <1>1, <2>2
    <3>2. ByQuorum(sync[k], sync[k])
      BY DEF ByQuorum, Joining, Passing
    <3> QED
      BY <3>1, <3>2 DEF AwakeInv
  <2> QED
    BY <2>1, <2>2
<1> QED
  BY <1>1, <1>2 DEF StaysAwake


LEMMA NextAwake ==
  ASSUME NobodyJoins, AwakeInv, [Next]_vars
  PROVE  AwakeInv' /\ StaysAwake
<1> DEFINE Goal == StaysAwake /\ mode' = [k \in Correct |-> mode'[k]]
<1>0. ASSUME NEW r \in Correct
      PROVE  IsSync(sync[r]) /\ WithMembers(sync[r]) /\ Awake(sync[r], mode[r])
  BY DEF AwakeInv, AlignedInv
<1>1. ASSUME NEW r \in Correct, NEW m \in net, NEW o \in Outcomes,
             ReceiveNormal(r, m, o) \/ ReceiveSync(r, m, o)
      PROVE  Goal
  <2> HIDE DEF Goal
  <2>1. PICK res : res = ProcessMessage(r, sync[r], lastExec[r], m, o.sound, o.empty)
    OBVIOUS
  <2>2. IsSync(sync[r]) /\ WithMembers(sync[r]) /\ Awake(sync[r], mode[r]) /\ m.view \in Int
    BY <1>0 DEF AwakeInv, AlignedInv, HaveViews
  <2>3. IsResult(res) /\ Reports(res, sync[r])
    BY <2>1, <2>2, ProcessMessageSync, ProcessMessageReports
  <2>4. \/ mode[r] = "Normal" /\ sync[r].phase \notin Passing
        \/ mode[r] = "Sync" /\ sync[r].phase # "Init"
    BY <2>2 DEF Awake
  <2>5. mode[r] = "Normal" => res.status \in {"Nil", "Running"}
    BY <2>3, <2>4 DEF Reports, ReportsPhase
  <2>6. Update(r, SignalQueues(res.sync), ModeAfter(r, res.status), res.last,
               (net \ {m}) \cup res.sends)
    <3>1. CASE ReceiveNormal(r, m, o)
      BY <2>1, <2>5, <3>1 DEF ReceiveNormal
    <3>2. CASE ReceiveSync(r, m, o)
      BY <2>1, <3>2 DEF ReceiveSync
    <3> QED
      BY <1>1, <3>1, <3>2
  <2>7. /\ WithMembers(SignalQueues(res.sync)) /\ ByQuorum(sync[r], SignalQueues(res.sync))
        /\ Awake(SignalQueues(res.sync), ModeAfter(r, res.status))
    BY <2>3, <2>4, ReportsAwake DEF IsResult
  <2> QED
    BY <2>6, <2>7, UpdateAwake DEF Goal
<1>2. ASSUME NEW r \in Correct, NEW o \in Outcomes, PollMessage(r, o)
      PROVE  Goal
  <2> HIDE DEF Goal
  <2> DEFINE s == AfterPoll(sync[r])
  <2>1. PICK res : res = ProcessMessage(r, s, lastExec[r], PolledMessage(sync[r]), o.sound, o.empty)
    OBVIOUS
  <2>2. IsSync(sync[r]) /\ CanProcess(sync[r], PolledQueue(sync[r]))
    BY <1>0, <1>2 DEF PollMessage, AwakeInv, AlignedInv, HaveViews
  <2>3. Update(r, SignalQueues(res.sync), ModeAfter(r, res.status), res.last, net \cup res.sends)
    BY <1>2, <2>1 DEF PollMessage
  <2>4. PolledMessage(sync[r]).view \in Int /\ IsSync(s)
    <3>1. sync[r].view.seq \in Int
      BY <2>2 DEF IsSync
    <3> QED
      BY SMTT(120), <2>2, <3>1, AfterPollSync
  <2>5. /\ s.view = sync[r].view /\ s.next = sync[r].next
        /\ s.phase # "Init" /\ (sync[r].phase # "Init" => s.phase = sync[r].phase)
    BY <2>2, AfterPollReports
  <2> HIDE DEF s
  <2>6. WithMembers(s)
    BY <1>0, <2>5 DEF WithMembers
  <2>7. IsResult(res) /\ Reports(res, s)
    BY <2>1, <2>4, <2>6, ProcessMessageSync, ProcessMessageReports
  <2>8. mode[r] = "Normal" \/ mode[r] = "Sync"
    BY <1>0 DEF Awake
  <2>9. /\ WithMembers(SignalQueues(res.sync)) /\ ByQuorum(s, SignalQueues(res.sync))
        /\ Awake(SignalQueues(res.sync), ModeAfter(r, res.status))
    BY <2>5, <2>7, <2>8, ReportsAwake DEF IsResult
  <2>10. ByQuorum(sync[r], SignalQueues(res.sync))
    <3>1. sync[r].phase \in Joining => sync[r].phase # "Init"
      BY DEF Joining
    <3> QED
      BY <2>5, <2>9, <3>1 DEF ByQuorum
  <2> QED
    BY <2>3, <2>9, <2>10, UpdateAwake DEF Goal
<1>3. ASSUME NEW r \in Correct, PollNothing(r)
      PROVE  Goal
  <2> HIDE DEF Goal
  <2> DEFINE t == [sync[r] EXCEPT !.signalled = FALSE]
  <2>1. Update(r, t, mode[r], lastExec[r], net)
    BY <1>3 DEF PollNothing
  <2>2. /\ t.view = sync[r].view /\ t.next = sync[r].next /\ t.phase = sync[r].phase
        /\ t.queue = sync[r].queue
    BY <1>0 DEF IsSync, SyncFields
  <2> HIDE DEF t
  <2>3. /\ sync[r].phase # "SyncingState" /\ ~ CanProcess(sync[r], PolledQueue(sync[r]))
        /\ mode[r] = "Normal" => CanProcess(sync[r], "stop")
    BY <1>3 DEF PollNothing, Polls
  <2>4. mode[r] = "Sync" /\ sync[r].phase # "Init"
    <3>1. sync[r].phase \notin Passing => PolledQueue(sync[r]) = "stop"
      BY DEF PolledQueue, Passing
    <3> QED
      BY <1>0, <2>3, <3>1 DEF Awake
  <2>5. PolledQueue(t) = PolledQueue(sync[r])
    BY <2>2 DEF PolledQueue
  <2>6. Awake(t, mode[r])
    BY <2>2, <2>3, <2>4, <2>5 DEF Awake, CanProcess
  <2>7. WithMembers(t)
    BY <1>0, <2>2 DEF WithMembers
  <2>8. ByQuorum(sync[r], t)
    BY <2>2 DEF ByQuorum, Joining, Passing
  <2> QED
    BY <2>1, <2>6, <2>7, <2>8, UpdateAwake DEF Goal
<1>4. ASSUME NEW r \in Correct, PollResume(r)
      PROVE  Goal
  <2> HIDE DEF Goal
  <2>1. PICK res : res = ResumeViewChange(sync[r], lastExec[r])
    OBVIOUS
  <2>2. sync[r].phase = "SyncingState" /\ sync[r].signalled
    BY <1>4 DEF PollResume, Polls
  <2>3. Update(r, res.sync, "Normal", res.last, net \cup res.sends)
    BY <1>4, <2>1 DEF PollResume
  <2>4. /\ WithMembers(res.sync) /\ res.sync.signalled = sync[r].signalled
        /\ res.sync.phase \in {"Init", "SyncingState", "Panicked"}
    BY <1>0, <2>1, <2>2, ResumeViewChangeReports
  <2>5. res.sync.phase \notin Passing
    BY <2>4 DEF Passing
  <2>6. Awake(res.sync, "Normal") /\ ByQuorum(sync[r], res.sync)
    BY <2>2, <2>4, <2>5 DEF Awake, ByQuorum
  <2> QED
    BY <2>3, <2>4, <2>6, UpdateAwake DEF Goal
<1>5. ASSUME NEW r \in Correct, NEW m \in net, QueueOffContext(r, m)
      PROVE  Goal
  <2> HIDE DEF Goal
  <2> DEFINE s == SyncQueue(sync[r], m)
             t == SignalQueues(s)
  <2>1. IsSync(sync[r]) /\ m.view \in Int
    BY <1>0 DEF AwakeInv, AlignedInv, HaveViews
  <2>2. /\ IsSync(s) /\ s.view = sync[r].view /\ s.next = sync[r].next
        /\ s.phase = sync[r].phase
    BY <2>1, SyncQueueSync, SyncQueueReports
  <2>3. Update(r, t, mode[r], lastExec[r], net \ {m}) /\ sync[r].phase = "SyncingState"
    BY <1>5 DEF QueueOffContext
  <2> HIDE DEF s
  <2>4. t.view = s.view /\ t.next = s.next /\ t.phase = s.phase /\ t.signalled
    BY <2>2, SignalQueuesAwake
  <2> HIDE DEF t
  <2>5. WithMembers(t)
    BY <1>0, <2>2, <2>4 DEF WithMembers
  <2>6. t.phase \notin Passing /\ t.phase # "Init"
    BY <2>2, <2>3, <2>4 DEF Passing
  <2>7. Awake(t, mode[r]) /\ ByQuorum(sync[r], t)
    BY <1>0, <2>4, <2>6 DEF Awake, ByQuorum
  <2> QED
    BY <2>3, <2>5, <2>7, UpdateAwake DEF Goal
<1>6. ASSUME NEW r \in Correct, Timeout(r)
      PROVE  Goal
  <2> HIDE DEF Goal
  <2>1. PICK res : res = BeginViewChange(r, sync[r], lastExec[r])
    OBVIOUS
  <2>2. Update(r, res.sync, "Sync", res.last, net \cup res.sends)
    BY <1>6, <2>1 DEF Timeout
  <2>3. PICK t : t = res.sync
    OBVIOUS
  <2>4. /\ Starts(sync[r], t)
        /\ t.phase = IF sync[r].phase \in Passing THEN sync[r].phase ELSE "Stopping2"
    BY <1>0, <2>1, <2>3, BeginViewChangeReports
  <2>5. /\ t.phase \notin {"Init", "SyncingState"}
        /\ sync[r].phase \in Joining => t.phase \notin Passing
        /\ PolledQueue(t) \in QueueNames
        /\ PolledQueue(t) = PolledQueue(sync[r])
    BY <2>4 DEF Passing, Joining, PolledQueue, QueueNames
  <2>6. t.signalled \/ ~ CanProcess(t, PolledQueue(t))
    <3>1. CanProcess(t, PolledQueue(t)) <=> CanProcess(sync[r], PolledQueue(t))
      BY <2>4 DEF CanProcess, Starts
    <3>2. NothingQueued(sync[r]) => ~ CanProcess(sync[r], PolledQueue(t))
      BY <1>0, <2>5, NothingToProcess
    <3> QED
      BY <1>0, <2>4, <2>5, <3>1, <3>2 DEF Awake, Starts
  <2>7. Awake(t, "Sync") /\ ByQuorum(sync[r], t) /\ WithMembers(t)
    BY <1>0, <2>4, <2>5, <2>6 DEF Awake, ByQuorum, WithMembers, Starts
  <2> QED
    BY <2>2, <2>3, <2>7, UpdateAwake DEF Goal
<1>7. ASSUME NEW r \in Correct, NEW j \in JoinRequests, AttemptQuorumNodeJoin(r, j.node)
      PROVE  Goal
  <2> HIDE DEF Goal
  <2>1. PICK res : res = StartJoinQuorum(r, sync[r], j.node, lastExec[r])
    OBVIOUS
  <2>2. Update(r, res.sync, mode[r], res.last, net \cup res.sends)
    BY <1>7, <2>1 DEF AttemptQuorumNodeJoin
  <2>3. PICK t : t = res.sync
    OBVIOUS
  <2>4. /\ Starts(sync[r], t)
        /\ t.phase = sync[r].phase \/ (sync[r].phase = "Init" /\ t.phase = "ViewStopping2")
    BY SMTT(120), <1>0, <2>1, <2>3, StartJoinQuorumReports
  <2>5. /\ sync[r].phase \in Joining => t.phase \notin Passing
        /\ sync[r].phase \notin Passing => t.phase \notin Passing
        /\ sync[r].phase # "Init" => t.phase = sync[r].phase /\ PolledQueue(t) = PolledQueue(sync[r])
    BY <2>4 DEF Passing, Joining, PolledQueue
  <2>6. Awake(t, mode[r])
    BY <1>0, <2>4, <2>5 DEF Awake, CanProcess, NothingQueued, Starts
  <2>7. ByQuorum(sync[r], t) /\ WithMembers(t)
    BY <1>0, <2>4, <2>5 DEF ByQuorum, WithMembers, Starts
  <2> QED
    BY <2>2, <2>3, <2>6, <2>7, UpdateAwake DEF Goal
<1>8. ASSUME NEW r \in Correct, JoiningQuorum(r)
      PROVE  Goal
  BY <1>8 DEF JoiningQuorum, NobodyJoins
<1>9. ASSUME NEW r \in Correct, NEW i \in InstallViews, InstallView(r, i.seq)
      PROVE  Goal
  <2> HIDE DEF Goal
  <2>1. PICK view : view = Peek(sync[r].view, i.seq)
    OBVIOUS
  <2>2. view.seq \in Int /\ HasMembers(view)
    <3>1. view.seq \in Int
      BY SMTT(120), <2>1, ViewChangeAssumption DEF Peek, NewViewInfo
    <3>2. HasMembers(view)
      BY <1>0, <2>1, PeekMembers DEF WithMembers
    <3> QED
      BY <3>1, <3>2
  <2>3. sync[r].phase \in {"Init", "SyncingState"}
    BY <1>9, ViewChangeAssumption DEF InstallView
  <2>4. PICK t : t = ReceiveView(r, sync[r], view)
    OBVIOUS
  <2> DEFINE runs == RunsAfterReceiving(r, sync[r], view)
             newMode == IF runs THEN "Sync" ELSE mode[r]
  <2>5. Update(r, t, newMode, lastExec[r], net)
    BY <1>9, <2>1, <2>4 DEF InstallView
  <2>6. Receives(sync[r], t, runs)
    BY <1>0, <2>2, <2>4, ReceiveViewAwake
  <2>7. /\ sync[r].phase \notin Joining /\ sync[r].phase \notin Passing
        /\ t.phase \in Passing => t.phase # "Init"
        /\ sync[r].phase # "Init" => sync[r].phase = "SyncingState"
    BY <2>3 DEF Joining, Passing
  <2> HIDE DEF runs
  <2>8. Awake(t, newMode)
    <3>1. CASE runs
      BY <1>0, <2>6, <2>7, <3>1 DEF Awake, Receives
    <3>2. CASE ~ runs
      BY <1>0, <2>6, <2>7, <3>2 DEF Awake, Receives
    <3> QED
      BY <3>1, <3>2
  <2>9. ByQuorum(sync[r], t)
    BY <2>7 DEF ByQuorum
  <2> HIDE DEF newMode
  <2> QED
    BY <2>5, <2>6, <2>8, <2>9, UpdateAwake DEF Goal, Receives
<1>10. ASSUME UNCHANGED vars
       PROVE  Goal
  <2>1. sync' = sync /\ mode' = mode
    BY <1>10 DEF vars
  <2>2. \A k \in Correct : ByQuorum(sync[k], sync[k])
    BY DEF ByQuorum, Joining, Passing
  <2> QED
    BY <2>1, <2>2 DEF AwakeInv, StaysAwake
<1>11. Goal
  <2> HIDE DEF Goal
  <2> QED
    BY <1>1, <1>2, <1>3, <1>4, <1>5, <1>6, <1>7, <1>8, <1>9, <1>10 DEF Next, Step
<1>12. AlignedInv'
  BY NextAligned DEF AwakeInv
<1>13. ASSUME NEW k \in Correct
       PROVE  WithMembers(sync[k])' /\ Awake(sync[k], mode[k])'
  BY <1>11
     DEF StaysAwake, WithMembers, HasMembers, Awake, NothingQueued, CanProcess, PolledQueue
<1> QED
  BY <1>11, <1>12, <1>13 DEF AwakeInv

(***************************************************************************)
(* No lost wakeup: a replica that changes views and waits for the network  *)
(* has no queued message that its phase can process, and one that orders   *)
(* requests is signalled whenever it has STOPs to look at.  It holds       *)
(* through the messages that are queued for a later view or while a state  *)
(* transfer runs, the views installed under them and the timeouts that     *)
(* change the queue poll() looks into.                                     *)
(***************************************************************************)
THEOREM NoLostWakeupHolds == NobodyJoins => (Spec => []NoLostWakeup)
<1> SUFFICES ASSUME NobodyJoins PROVE Spec => []NoLostWakeup
  OBVIOUS
<1>1. Init => AwakeInv
  BY InitAwake
<1>2. AwakeInv /\ [Next]_vars => AwakeInv'
  BY NextAwake
<1>3. AwakeInv => NoLostWakeup
  <2> SUFFICES ASSUME AwakeInv, NEW r \in Correct
               PROVE  /\ mode[r] = "Sync" /\ ~ sync[r].signalled =>
                           ~ CanProcess(sync[r], PolledQueue(sync[r]))
                      /\ mode[r] = "Normal" /\ CanProcess(sync[r], "stop") => sync[r].signalled
    BY DEF NoLostWakeup
  <2>1. IsSync(sync[r]) /\ Awake(sync[r], mode[r]) /\ "stop" \in QueueNames
    BY DEF AwakeInv, AlignedInv, QueueNames
  <2>2. NothingQueued(sync[r]) => ~ CanProcess(sync[r], "stop")
    BY <2>1, NothingToProcess
  <2>3. mode[r] = "Sync" => mode[r] # "Normal"
    OBVIOUS
  <2> QED
    BY <2>1, <2>2, <2>3 DEF Awake
<1> QED
  BY <1>1, <1>2, <1>3, PTL DEF Spec

(***************************************************************************)
(* A node is added on the votes of a quorum of different members for that  *)
(* very node: a change that adds one goes on to STOP-DATA only then, and   *)
(* the view it goes on to ends with that node.                             *)
(***************************************************************************)
THEOREM JoinHasQuorumHolds == NobodyJoins => (Spec => JoinHasQuorum)
<1> SUFFICES ASSUME NobodyJoins PROVE Spec => JoinHasQuorum
  OBVIOUS
<1>1. Init => AwakeInv
  BY InitAwake
<1>2. AwakeInv /\ [Next]_vars => AwakeInv'
  BY NextAwake
<1>3. AwakeInv /\ [Next]_vars =>
        [\A r \in Correct :
           /\ sync[r].phase \in {"ViewStopping", "ViewStopping2"}
           /\ sync'[r].phase \in {"StoppingData", "Syncing"}
           => LET members == sync'[r].next.members
              IN  Cardinality(VotersFor(sync'[r], members[Len(members)])) >= QuorumSize(sync[r].view)]_vars
  <2> SUFFICES ASSUME AwakeInv, [Next]_vars, NEW r \in Correct,
                      sync[r].phase \in Joining, sync'[r].phase \in Passing
               PROVE  Cardinality(VotersFor(sync'[r], sync'[r].next.members[Len(sync'[r].next.members)]))
                        >= QuorumSize(sync[r].view)
    BY DEF Joining, Passing
  <2> QED
    BY NextAwake DEF StaysAwake, ByQuorum
<1> QED
  BY <1>1, <1>2, <1>3, PTL DEF Spec, JoinHasQuorum

-----------------------------------------------------------------------------
(***************************************************************************)
(* The STOP-DATA that a leader to be has counted: as many senders as it    *)
(* has counted have sent one for the view it is going to lead.  STOP-DATA  *)
(* of other views may still be among the collects.                         *)
(***************************************************************************)
Senders(s) == {m.from : m \in s.collects}

Collectors(s, seq) == {m.from : m \in {c \in s.collects : c.view = seq}}

Collecting(s) ==
  /\ IsFiniteSet(Senders(s)) /\ s.count \in Nat
  /\ s.phase = "StoppingData" => s.count <= Cardinality(Collectors(s, s.next.seq))

\* Nothing is collected, and what has been counted stays or is forgotten.
KeepsCollects(s, t) ==
  /\ t.collects = s.collects /\ t.count \in Nat
  /\ t.phase = "StoppingData" =>
       t.count = 0 \/ (s.phase = "StoppingData" /\ t.count = s.count /\ t.next = s.next)

LEMMA CollectorsFinite ==
  ASSUME NEW s, IsFiniteSet(Senders(s)), NEW seq
  PROVE  IsFiniteSet(Collectors(s, seq)) /\ Cardinality(Collectors(s, seq)) \in Nat
<1>1. Collectors(s, seq) \subseteq Senders(s)
  BY DEF Collectors, Senders
<1>2. IsFiniteSet(Collectors(s, seq))
  BY <1>1, FS_Subset
<1> QED
  BY <1>2, FS_CardinalityType

LEMMA KeptCollecting ==
  ASSUME NEW s, Collecting(s), NEW t, KeepsCollects(s, t)
  PROVE  Collecting(t)
<1>1. Senders(t) = Senders(s) /\ \A seq : Collectors(t, seq) = Collectors(s, seq)
  BY DEF Senders, Collectors, KeepsCollects
<1>2. IsFiniteSet(Senders(t)) /\ t.count \in Nat
  BY <1>1 DEF Collecting, KeepsCollects
<1>3. ASSUME t.phase = "StoppingData"
      PROVE  t.count <= Cardinality(Collectors(t, t.next.seq))
  <2>1. CASE t.count = 0
    <3>1. Cardinality(Collectors(t, t.next.seq)) \in Nat
      BY <1>2, CollectorsFinite
    <3> QED
      BY SMTT(120), <2>1, <3>1
  <2>2. CASE s.phase = "StoppingData" /\ t.count = s.count /\ t.next = s.next
    BY <1>1, <2>2 DEF Collecting
  <2> QED
    BY <1>3, <2>1, <2>2 DEF KeepsCollects
<1> QED
  BY <1>2, <1>3 DEF Collecting

\* The STOP-DATA of another node for the view the replica is going to lead.
LEMMA OneMoreCollected ==
  ASSUME NEW s, Collecting(s), s.phase = "StoppingData", NEW m, m.view = s.next.seq,
         ~ HasCollected(s, m.from), NEW t, t.collects = s.collects \cup {m}
  PROVE  IsFiniteSet(Senders(t)) /\ Cardinality(Collectors(t, s.next.seq)) >= s.count + 1
<1>1. PICK S, C, x : S = Senders(s) /\ C = Collectors(s, s.next.seq) /\ x = m.from
  OBVIOUS
<1>2. Senders(t) = S \cup {x} /\ Collectors(t, s.next.seq) = C \cup {x} /\ x \notin C
  BY <1>1 DEF Senders, Collectors, HasCollected
<1>3. IsFiniteSet(S) /\ IsFiniteSet(C) /\ Cardinality(C) \in Nat
  BY <1>1, CollectorsFinite DEF Collecting
<1>4. IsFiniteSet(S \cup {x}) /\ Cardinality(C \cup {x}) = Cardinality(C) + 1
  <2>1. IsFiniteSet(S \cup {x})
    BY <1>3, FS_AddElement
  <2>2. IsFiniteSet(C) /\ x \notin C
    BY <1>2, <1>3
  <2>3. Cardinality(C \cup {x}) = Cardinality(C) + 1
    BY <2>2, FS_AddElement
  <2> QED
    BY <2>1, <2>3
<1>5. s.count \in Nat /\ s.count <= Cardinality(C)
  BY <1>1 DEF Collecting
<1> QED
  BY SMTT(120), <1>2, <1>3, <1>4, <1>5

LEMMA SyncQueueKeeps ==
  ASSUME NEW s, IsSync(s), Collecting(s), NEW m, m.view \in Int
  PROVE  KeepsCollects(s, SyncQueue(s, m))
<1> DEFINE t == SyncQueue(s, m)
<1>1. t = [field \in SyncFields |-> IF field = "queue" THEN t.queue ELSE s[field]]
  BY SyncQueueSync
<1> HIDE DEF t
<1>2. t.collects = s.collects /\ t.count = s.count /\ t.next = s.next /\ t.phase = s.phase
  BY <1>1 DEF SyncFields
<1> QED
  BY <1>2 DEF KeepsCollects, Collecting, t

LEMMA SameKeeps ==
  ASSUME NEW s, Collecting(s)
  PROVE  KeepsCollects(s, s)
BY DEF KeepsCollects, Collecting

LEMMA StoppingQuorumKeeps ==
  ASSUME NEW self, NEW s, IsSync(s), NEW next, NEW last
  PROVE  /\ StoppingQuorum(self, s, next, last).sync.collects = s.collects
         /\ StoppingQuorum(self, s, next, last).sync.count = 0
<1> DEFINE t(phase) == EnterPhase([s EXCEPT !.next = next, !.stopped = {}], phase, 0)
<1>1. PICK phase : StoppingQuorum(self, s, next, last).sync = t(phase)
  BY DEF StoppingQuorum, Result
<1>2. t(phase).collects = s.collects /\ t(phase).count = 0
  BY DEF IsSync, SyncFields, EnterPhase
<1> HIDE DEF t
<1> QED
  BY <1>1, <1>2

LEMMA ProcessStopKeeps ==
  ASSUME NEW self, NEW s, IsSync(s), Collecting(s), s.phase \in StopPhases, NEW last, NEW m
  PROVE  KeepsCollects(s, ProcessStop(self, s, last, m).sync)
<1> DEFINE t == [s EXCEPT !.stopped = @ \cup {m}, !.count = @ + 1]
           u == [t EXCEPT !.phase = "Stopping2"]
           res == ProcessStop(self, s, last, m)
           quorum == StoppingQuorum(self, t, NextView(s.view), last)
<1>1. /\ t = [field \in SyncFields |-> t[field]]
      /\ t.view = s.view /\ t.queue = s.queue /\ t.next = s.next
      /\ t.collects = s.collects /\ t.count = s.count + 1 /\ t.phase = s.phase
  BY DEF IsSync, SyncFields
<1>2. res.sync \in {t, u, quorum.sync}
  <2> HIDE DEF t, u, quorum
  <2> QED
    BY DEF ProcessStop, Result, t, u, quorum
<1> HIDE DEF t, res
<1>3. u.collects = s.collects /\ u.count = s.count + 1 /\ u.phase = "Stopping2"
  BY <1>1 DEF SyncFields
<1> HIDE DEF u
<1>4. IsSync(t)
  BY <1>1, SameQueues DEF IsSync
<1>5. quorum.sync.collects = s.collects /\ quorum.sync.count = 0
  BY SMTT(120), <1>1, <1>4, StoppingQuorumKeeps
<1> HIDE DEF quorum
<1>6. s.count \in Nat /\ s.count + 1 \in Nat
  BY SMTT(120) DEF Collecting
<1>7. KeepsCollects(s, t) /\ KeepsCollects(s, u)
  <2>1. t.phase # "StoppingData" /\ u.phase # "StoppingData"
    BY <1>1, <1>3 DEF StopPhases
  <2> QED
    BY <1>1, <1>3, <1>6, <2>1 DEF KeepsCollects
<1>8. KeepsCollects(s, quorum.sync)
  BY SMTT(120), <1>5 DEF KeepsCollects
<1> QED
  BY <1>2, <1>7, <1>8 DEF res

LEMMA ProcessStoppingKeeps ==
  ASSUME NEW self, NEW s, IsSync(s), Collecting(s), s.phase \in StopPhases, NEW last,
         NEW m, m.view \in Int
  PROVE  KeepsCollects(s, ProcessStopping(self, s, last, m).sync)
<1> DEFINE res == ProcessStopping(self, s, last, m)
           stop == ProcessStop(self, s, last, m)
<1>1. res.sync \in {s, SyncQueue(s, m), stop.sync}
  <2> HIDE DEF stop
  <2> QED
    BY DEF ProcessStopping, Result, stop
<1>2. KeepsCollects(s, stop.sync)
  BY ProcessStopKeeps
<1> HIDE DEF res, stop
<1> QED
  BY <1>1, <1>2, SameKeeps, SyncQueueKeeps DEF res

LEMMA ProcessJoinKeeps ==
  ASSUME NEW self, NEW s, IsSync(s), Collecting(s), NEW last, NEW m
  PROVE  KeepsCollects(s, ProcessJoin(self, s, last, m).sync)
<1> DEFINE t == [s EXCEPT !.adding = @ \cup {[node |-> m.node, voter |-> m.from]}, !.count = @ + 1]
           u == [t EXCEPT !.addingNode = m.node]
           next == NextViewWithNewNode(s.view, MostVoted(t))
           quorum == StoppingQuorum(self, u, next, last)
           res == ProcessJoin(self, s, last, m)
           w(phase) == [t EXCEPT !.phase = phase]
<1>1. /\ t = [field \in SyncFields |-> t[field]]
      /\ t.view = s.view /\ t.queue = s.queue /\ t.next = s.next
      /\ t.collects = s.collects /\ t.count = s.count + 1
  BY DEF IsSync, SyncFields
<1>2. res.sync \in {w("ViewStopping"), w("ViewStopping2"), w("Panicked"), quorum.sync}
  <2>1. \/ res = Result(w("ViewStopping2"), "Running", {}, last)
        \/ res = quorum
        \/ res = Result(IF t.count >= Len(s.view.members) THEN Panic(t) ELSE w("ViewStopping"),
                        "Running", {}, last)
    <3> HIDE DEF t, next
    <3> QED
      BY SMTT(120) DEF ProcessJoin, t, next
  <2> HIDE DEF t, res, next, quorum
  <2> QED
    BY SMTT(120), <2>1 DEF Panic, Result
<1> HIDE DEF t, res, next
<1>3. \A phase : w(phase).collects = s.collects /\ w(phase).count = s.count + 1 /\ w(phase).phase = phase
  BY <1>1 DEF SyncFields
<1> HIDE DEF w
<1>4. IsSync(u) /\ u.collects = s.collects
  <2>1. /\ u = [field \in SyncFields |-> u[field]] /\ u.collects = s.collects
        /\ u.view = s.view /\ u.queue = s.queue /\ u.next = s.next
    BY <1>1 DEF SyncFields
  <2> HIDE DEF u
  <2> QED
    BY <2>1, SameQueues DEF IsSync
<1> HIDE DEF u
<1>5. quorum.sync.collects = s.collects /\ quorum.sync.count = 0
  BY SMTT(120), <1>4, StoppingQuorumKeeps
<1> HIDE DEF quorum
<1>6. s.count + 1 \in Nat /\ KeepsCollects(s, quorum.sync)
  BY SMTT(120), <1>5 DEF Collecting, KeepsCollects
<1>7. \A phase : phase # "StoppingData" => KeepsCollects(s, w(phase))
  BY <1>3, <1>6 DEF KeepsCollects
<1> QED
  BY <1>2, <1>6, <1>7 DEF res

LEMMA ProcessViewStoppingKeeps ==
  ASSUME NEW self, NEW s, IsSync(s), Collecting(s), NEW last, NEW m, m.view \in Int
  PROVE  KeepsCollects(s, ProcessViewStopping(self, s, last, m).sync)
<1> DEFINE res == ProcessViewStopping(self, s, last, m)
           join == ProcessJoin(self, s, last, m)
           t == SyncQueue(s, m)
           u == EnterPhase(t, "Stopping", 0)
<1>1. res.sync \in {t, u, join.sync}
  <2> HIDE DEF join, t, u
  <2> QED
    BY DEF ProcessViewStopping, Result, join, t, u
<1>2. IsSync(t) /\ KeepsCollects(s, t)
  BY SyncQueueSync, SyncQueueKeeps
<1>3. KeepsCollects(s, join.sync)
  BY ProcessJoinKeeps
<1> HIDE DEF t, join
<1>4. u.collects = t.collects /\ u.count = 0
  BY <1>2 DEF EnterPhase, IsSync, SyncFields
<1> HIDE DEF u, res
<1>5. KeepsCollects(s, u)
  BY SMTT(120), <1>2, <1>4 DEF KeepsCollects
<1> QED
  BY <1>1, <1>2, <1>3, <1>5 DEF res

\* finalize() installs the view that is next, if any.
LEMMA FinalizeKeeps ==
  ASSUME NEW s, IsSync(s), s.count \in Nat, NEW last, NEW state, NEW proof, NEW sends
  PROVE  /\ KeepsCollects(s, Finalize(s, last, state, proof, sends).sync)
         /\ Finalize(s, last, state, proof, sends).sync.view \in {s.view, s.next}
         /\ Finalize(s, last, state, proof, sends).sync.phase \in Passing =>
              Finalize(s, last, state, proof, sends).sync = s
<1> DEFINE res == Finalize(s, last, state, proof, sends)
           transfer == [s EXCEPT !.finalizing = state, !.phase = "SyncingState"]
           panic == Panic(s)
           installed == InstallInTbo(s, s.next)
           advanced == AdvanceView(s)
           done == [EnterPhase(advanced, "Init", 0) EXCEPT
                      !.adding = IF s.addingNode = NoNode THEN @ ELSE {}, !.addingNode = NoNode]
           Same(t) == t.collects = s.collects /\ t.view \in {s.view, s.next}
<1>1. /\ Same(transfer) /\ transfer.count = s.count /\ transfer.phase = "SyncingState"
  BY DEF IsSync, SyncFields
<1>2. /\ Same(panic) /\ panic.count = s.count /\ panic.phase = "Panicked"
  BY DEF IsSync, SyncFields, Panic
<1>3. advanced = [field \in SyncFields |-> advanced[field]] /\ Same(advanced)
  <2>1. CASE s.next = NoView
    BY <2>1 DEF AdvanceView, IsSync
  <2>2. CASE s.next # NoView
    <3>1. installed = [field \in SyncFields |-> IF field \in {"view", "queue"} THEN installed[field]
                                                                              ELSE s[field]]
      <4>1. s.next.seq \in Int
        BY DEF IsSync
      <4> QED
        BY <4>1, InstallInTboSync
    <3>2. advanced = [installed EXCEPT !.next = NoView]
      BY <2>2 DEF AdvanceView
    <3>3. installed.view \in {s.view, s.next}
      <4> DEFINE q == [k \in DOMAIN s.queue |-> DropQueues(s.queue[k], s.next.seq - s.view.seq)]
                 t == [s EXCEPT !.view = s.next, !.queue = q]
      <4>1. installed = IF s.next.seq <= s.view.seq THEN s ELSE t
        BY DEF InstallInTbo
      <4> HIDE DEF q, installed
      <4>2. t.view = s.next
        BY DEF IsSync, SyncFields
      <4> HIDE DEF t
      <4> QED
        BY <4>1, <4>2
    <3> HIDE DEF advanced, installed
    <3>4. /\ advanced = [field \in SyncFields |-> advanced[field]]
          /\ advanced.collects = s.collects /\ advanced.view = installed.view
      BY <3>1, <3>2 DEF SyncFields
    <3> QED
      BY <3>3, <3>4
  <2> QED
    BY <2>1, <2>2
<1>4. res.sync \in {transfer, s, panic, done}
  <2> HIDE DEF transfer, panic, done
  <2> QED
    BY DEF Finalize, Result, panic, transfer, advanced, done
<1> HIDE DEF advanced, res, transfer, panic
<1>5. /\ done.collects = advanced.collects /\ done.view = advanced.view /\ done.count = 0
      /\ done.phase = "Init"
  BY <1>3 DEF EnterPhase, SyncFields
<1> HIDE DEF done
<1>6. Same(s) /\ Same(transfer) /\ Same(panic) /\ Same(done)
  BY <1>1, <1>2, <1>3, <1>5
<1>7. /\ KeepsCollects(s, s) /\ KeepsCollects(s, transfer) /\ KeepsCollects(s, panic)
      /\ KeepsCollects(s, done)
  BY SMTT(120), <1>1, <1>2, <1>5, <1>6 DEF KeepsCollects
<1> HIDE DEF Same
<1>8. KeepsCollects(s, res.sync) /\ Same(res.sync)
  BY <1>4, <1>6, <1>7
<1>9. res.sync \in {transfer, panic, done} => res.sync.phase \notin Passing
  BY <1>1, <1>2, <1>5 DEF Passing
<1>10. res.sync.phase \in Passing => res.sync = s
  BY <1>4, <1>9
<1> QED
  BY <1>8, <1>10 DEF Same, res

\* Where the view of a synchronizer changes from s to t, one of the messages is
\* the SYNC of the new view's leader, or a quorum has sent the replica STOP-DATA.
TakesOutcome(s, t, messages) ==
  t.view # s.view =>
    /\ s.phase = "Syncing" =>
         \E m \in messages :
           m.kind = "Sync" /\ m.view = t.view.seq /\ m.from = Leader(t.view)
    /\ s.phase = "StoppingData" =>
         Cardinality(Collectors(t, t.view.seq)) >= QuorumSize(t.view)

LEMMA QuorumSizeInt ==
  ASSUME NEW view, HasMembers(view)
  PROVE  QuorumSize(view) \in Int
<1>1. Len(view.members) \in Nat
  BY SMTT(120) DEF HasMembers
<1> QED
  BY SMTT(120), <1>1 DEF QuorumSize, NumFaulty

LEMMA ProcessStoppingDataOutcome ==
  ASSUME NEW self, NEW s, IsSync(s), WithMembers(s), Collecting(s), s.phase = "StoppingData",
         NEW last, NEW m, m.view \in Int, NEW sound, NEW empty
  PROVE  /\ Collecting(ProcessStoppingData(self, s, last, m, sound, empty).sync)
         /\ TakesOutcome(s, ProcessStoppingData(self, s, last, m, sound, empty).sync, {m})
<1> DEFINE res == ProcessStoppingData(self, s, last, m, sound, empty)
           t == [s EXCEPT !.collects = @ \cup {m}]
           u == [t EXCEPT !.count = @ + 1]
           state == [proof |-> HighestProof(t.collects), sound |-> sound, empty |-> empty]
           finalized == Finalize(t, last, state, state.proof, Syncs(self, s.next, state))
           Counts == m.view = s.next.seq /\ ~ HasCollected(s, m.from)
<1>1. \/ res.sync \in {s, SyncQueue(s, m)}
      \/ res.sync = u /\ Counts
      \/ res = finalized /\ Counts /\ ~ (s.count + 1 < QuorumSize(s.next))
  <2> HIDE DEF t, u, state, finalized
  <2> QED
    BY DEF ProcessStoppingData, Result, t, u, state, finalized
<1>2. /\ t = [field \in SyncFields |-> t[field]] /\ t.view = s.view /\ t.queue = s.queue
      /\ t.next = s.next /\ t.phase = s.phase /\ t.count = s.count
      /\ t.collects = s.collects \cup {m}
  BY DEF IsSync, SyncFields
<1> HIDE DEF t, res, state
<1>3. /\ u.view = s.view /\ u.next = s.next /\ u.phase = s.phase /\ u.count = s.count + 1
      /\ u.collects = t.collects
  BY <1>2 DEF SyncFields
<1> HIDE DEF u
<1>4. s.count \in Nat /\ s.count + 1 \in Nat /\ s.count <= s.count + 1
  BY SMTT(120) DEF Collecting
<1>5. CASE res.sync \in {s, SyncQueue(s, m)}
  <2>1. Collecting(res.sync)
    BY <1>5, SyncQueueKeeps, KeptCollecting
  <2>2. res.sync.view = s.view
    BY SMTT(120), <1>5, SyncQueueReports
  <2> QED
    BY <2>1, <2>2 DEF TakesOutcome, res
<1>6. ASSUME Counts
      PROVE  /\ IsFiniteSet(Senders(t)) /\ Cardinality(Collectors(t, s.next.seq)) >= s.count + 1
             /\ Cardinality(Collectors(t, s.next.seq)) \in Nat
  <2>1. IsFiniteSet(Senders(t)) /\ Cardinality(Collectors(t, s.next.seq)) >= s.count + 1
    BY <1>2, <1>6, OneMoreCollected
  <2> QED
    BY <2>1, CollectorsFinite
<1>7. CASE res.sync = u /\ Counts
  <2>1. Senders(u) = Senders(t) /\ Collectors(u, s.next.seq) = Collectors(t, s.next.seq)
    BY <1>3 DEF Senders, Collectors
  <2>2. u.count <= Cardinality(Collectors(t, s.next.seq))
    BY <1>3, <1>4, <1>6, <1>7
  <2>3. Collecting(u)
    BY <1>3, <1>4, <1>6, <1>7, <2>1, <2>2 DEF Collecting
  <2> QED
    BY <1>3, <1>7, <2>3 DEF TakesOutcome, res
<1>8. CASE res = finalized /\ Counts /\ ~ (s.count + 1 < QuorumSize(s.next))
  <2>1. IsSync(t)
    BY <1>2, SameQueues DEF IsSync
  <2>2. KeepsCollects(t, res.sync) /\ res.sync.view \in {t.view, t.next}
    BY <1>2, <1>4, <1>8, <2>1, FinalizeKeeps
  <2> HIDE DEF finalized
  <2>3. t.count <= Cardinality(Collectors(t, s.next.seq))
    BY SMTT(120), <1>2, <1>4, <1>6, <1>8
  <2>4. Collecting(t)
    BY <1>2, <1>4, <1>6, <1>8, <2>3 DEF Collecting
  <2>5. Collecting(res.sync)
    BY <2>2, <2>4, KeptCollecting
  <2>6. Collectors(res.sync, s.next.seq) = Collectors(t, s.next.seq)
    BY <2>2 DEF Collectors, KeepsCollects
  <2>7. QuorumSize(s.next) \in Int
    BY QuorumSizeInt DEF WithMembers
  <2>8. Cardinality(Collectors(t, s.next.seq)) >= QuorumSize(s.next)
    BY SMTT(120), <1>4, <1>6, <1>8, <2>7
  <2>9. res.sync.view # s.view => res.sync.view = s.next
    BY <1>2, <2>2
  <2>10. s.phase # "Syncing"
    OBVIOUS
  <2> QED
    BY <2>5, <2>6, <2>8, <2>9, <2>10 DEF TakesOutcome, res
<1> HIDE DEF Counts
<1> QED
  BY <1>1, <1>5, <1>7, <1>8

LEMMA ProcessSyncingOutcome ==
  ASSUME NEW s, IsSync(s), Collecting(s), s.phase = "Syncing", NEW last, NEW m, m.view \in Int
  PROVE  /\ Collecting(ProcessSyncing(s, last, m).sync)
         /\ TakesOutcome(s, ProcessSyncing(s, last, m).sync, {m})
         /\ ProcessSyncing(s, last, m).sends = {}
<1> DEFINE res == ProcessSyncing(s, last, m)
           state == [proof |-> m.proof, sound |-> m.sound, empty |-> m.empty]
           finalized == Finalize(s, last, state, m.proof, {})
<1>1. \/ \E t \in {s, SyncQueue(s, m)} : res = Result(t, "Running", {}, last)
      \/ /\ res = finalized
         /\ m.kind = "Sync" /\ m.view = s.next.seq /\ m.from = Leader(s.next)
  <2> HIDE DEF finalized, state
  <2> QED
    BY DEF ProcessSyncing, FromLeader, finalized, state
<1> HIDE DEF res, state
<1>2. s.count \in Nat
  BY DEF Collecting
<1>3. CASE \E t \in {s, SyncQueue(s, m)} : res = Result(t, "Running", {}, last)
  <2>1. PICK t \in {s, SyncQueue(s, m)} : res = Result(t, "Running", {}, last)
    BY <1>3
  <2>2. t.view = s.view
    BY SMTT(120), SyncQueueReports
  <2>3. Collecting(t)
    BY SyncQueueKeeps, KeptCollecting
  <2>4. res.sync = t /\ res.sends = {}
    BY <2>1 DEF Result
  <2> QED
    BY <2>2, <2>3, <2>4 DEF TakesOutcome, res
<1>4. CASE /\ res = finalized
           /\ m.kind = "Sync" /\ m.view = s.next.seq /\ m.from = Leader(s.next)
  <2>1. KeepsCollects(s, res.sync) /\ res.sync.view \in {s.view, s.next}
    BY <1>2, <1>4, FinalizeKeeps
  <2>2. res.sends = {}
    <3> HIDE DEF finalized
    <3>1. finalized.sends = {}
      BY DEF finalized, Finalize, Result
    <3> QED
      BY <1>4, <3>1
  <2> HIDE DEF finalized
  <2>3. Collecting(res.sync)
    BY <2>1, KeptCollecting
  <2>4. res.sync.view # s.view => res.sync.view = s.next
    BY <2>1
  <2>5. s.phase # "StoppingData"
    OBVIOUS
  <2> QED
    BY <1>4, <2>2, <2>3, <2>4, <2>5 DEF TakesOutcome, res
<1> QED
  BY <1>1, <1>3, <1>4

LEMMA PanicKeeps ==
  ASSUME NEW s, IsSync(s), Collecting(s)
  PROVE  KeepsCollects(s, Panic(s)) /\ KeepsCollects(s, SignalQueues(s))
<1> DEFINE p == Panic(s)
           t == SignalQueues(s)
<1>1. p.collects = s.collects /\ p.count = s.count /\ p.phase = "Panicked"
  BY DEF IsSync, SyncFields, Panic
<1>2. t.collects = s.collects /\ t.count = s.count /\ t.phase = s.phase /\ t.next = s.next
  BY DEF IsSync, SyncFields, SignalQueues
<1> HIDE DEF p, t
<1>3. s.count \in Nat /\ "Panicked" # "StoppingData"
  BY DEF Collecting
<1> QED
  BY <1>1, <1>2, <1>3 DEF KeepsCollects, p, t

\* In the phases before STOP-DATA no view is installed.
LEMMA KeptOutcome ==
  ASSUME NEW s, Collecting(s), s.phase \notin Passing, NEW t, KeepsCollects(s, t), NEW messages
  PROVE  Collecting(t) /\ TakesOutcome(s, t, messages) /\ s.phase # "Syncing"
<1>1. s.phase # "Syncing" /\ s.phase # "StoppingData"
  BY DEF Passing
<1> QED
  BY <1>1, KeptCollecting DEF TakesOutcome

LEMMA ProcessMessageOutcome ==
  ASSUME NEW self, NEW s, IsSync(s), WithMembers(s), Collecting(s), NEW last,
         NEW m, m.view \in Int, NEW sound, NEW empty
  PROVE  /\ Collecting(ProcessMessage(self, s, last, m, sound, empty).sync)
         /\ TakesOutcome(s, ProcessMessage(self, s, last, m, sound, empty).sync, {m})
         /\ s.phase = "Syncing" => ProcessMessage(self, s, last, m, sound, empty).sends = {}
<1> DEFINE res == ProcessMessage(self, s, last, m, sound, empty)
<1>1. CASE s.phase = "Init"
  <2>1. res.sync = SyncQueue(s, m)
    BY <1>1 DEF ProcessMessage, Result
  <2>2. s.phase \notin Passing
    BY <1>1 DEF Passing
  <2> HIDE DEF res
  <2> QED
    BY <2>1, <2>2, SyncQueueKeeps, KeptOutcome DEF res
<1>2. CASE s.phase \in {"Stopping", "Stopping2"}
  <2>1. res = ProcessStopping(self, s, last, m)
    BY <1>2 DEF ProcessMessage
  <2>2. s.phase \notin Passing /\ s.phase \in StopPhases
    BY <1>2 DEF Passing, StopPhases
  <2> HIDE DEF res
  <2> QED
    BY <2>1, <2>2, ProcessStoppingKeeps, KeptOutcome DEF res
<1>3. CASE s.phase \in {"ViewStopping", "ViewStopping2"}
  <2>1. res = ProcessViewStopping(self, s, last, m)
    BY <1>3 DEF ProcessMessage
  <2>2. s.phase \notin Passing
    BY <1>3 DEF Passing
  <2> HIDE DEF res
  <2> QED
    BY <2>1, <2>2, ProcessViewStoppingKeeps, KeptOutcome DEF res
<1>4. CASE s.phase = "StoppingData"
  <2>1. res = ProcessStoppingData(self, s, last, m, sound, empty) /\ s.phase # "Syncing"
    BY <1>4 DEF ProcessMessage
  <2> HIDE DEF res
  <2> QED
    BY <1>4, <2>1, ProcessStoppingDataOutcome DEF res
<1>5. CASE s.phase = "Syncing"
  <2>1. res = ProcessSyncing(s, last, m)
    BY <1>5 DEF ProcessMessage
  <2> HIDE DEF res
  <2> QED
    BY <1>5, <2>1, ProcessSyncingOutcome DEF res
<1>6. CASE s.phase \notin {"Init", "Stopping", "Stopping2", "ViewStopping", "ViewStopping2",
                           "StoppingData", "Syncing"}
  <2>1. res.sync = Panic(s)
    BY <1>6 DEF ProcessMessage, Result
  <2>2. s.phase \notin Passing
    BY <1>6 DEF Passing
  <2> HIDE DEF res
  <2> QED
    BY <2>1, <2>2, PanicKeeps, KeptOutcome DEF res
<1> QED
  BY <1>1, <1>2, <1>3, <1>4, <1>5, <1>6

LEMMA AfterPollKeeps ==
  ASSUME NEW s, IsSync(s), Collecting(s), CanProcess(s, PolledQueue(s))
  PROVE  KeepsCollects(s, AfterPoll(s))
<1> DEFINE t == AfterPoll(s)
           u == [s EXCEPT !.queue[PolledQueue(s)][1] = Tail(@)]
<1>1. t = [field \in SyncFields |-> IF field \in {"phase", "count", "queue"} THEN t[field]
                                                                             ELSE s[field]]
  BY AfterPollSync
<1>2. CASE s.phase # "Init"
  <2>1. t = u
    BY <1>2 DEF AfterPoll
  <2>2. u.phase = s.phase /\ u.count = s.count
    BY DEF IsSync, SyncFields
  <2> HIDE DEF t, u
  <2>3. t.collects = s.collects /\ t.next = s.next
    BY <1>1 DEF SyncFields
  <2> QED
    BY <2>1, <2>2, <2>3 DEF KeepsCollects, Collecting, t
<1>3. CASE s.phase = "Init"
  <2>1. PICK phase : t = EnterPhase(u, phase, 0)
    BY <1>3 DEF AfterPoll
  <2>2. u = [field \in SyncFields |-> u[field]]
    BY DEF IsSync
  <2> HIDE DEF t, u
  <2>3. t.count = 0
    BY <2>1, <2>2 DEF EnterPhase, SyncFields
  <2>4. t.collects = s.collects
    BY <1>1 DEF SyncFields
  <2> QED
    BY SMTT(120), <2>3, <2>4 DEF KeepsCollects, t
<1> QED
  BY <1>2, <1>3

LEMMA ResumeViewChangeKeeps ==
  ASSUME NEW s, IsSync(s), Collecting(s), NEW last
  PROVE  KeepsCollects(s, ResumeViewChange(s, last).sync)
<1> DEFINE t == [s EXCEPT !.finalizing = NoState]
           res == ResumeViewChange(s, last)
<1>1. /\ t = [field \in SyncFields |-> t[field]] /\ t.view = s.view /\ t.queue = s.queue
      /\ t.next = s.next /\ t.phase = s.phase /\ t.collects = s.collects /\ t.count = s.count
  BY DEF IsSync, SyncFields
<1>2. \/ res.sync = s
      \/ res = Finalize(t, last, s.finalizing, NoDecision, {})
  BY DEF ResumeViewChange, Result
<1> HIDE DEF t, res
<1>3. IsSync(t) /\ t.count \in Nat
  BY <1>1, SameQueues DEF IsSync, Collecting
<1>4. CASE res.sync = s
  BY <1>4, SameKeeps DEF res
<1>5. CASE res = Finalize(t, last, s.finalizing, NoDecision, {})
  <2>1. KeepsCollects(t, res.sync)
    BY <1>3, <1>5, FinalizeKeeps
  <2> QED
    BY <1>1, <2>1 DEF KeepsCollects, res
<1> QED
  BY <1>2, <1>4, <1>5

LEMMA NothingCollected ==
  ASSUME NEW t, t.collects = {}, t.count = 0
  PROVE  Collecting(t)
<1>1. IsFiniteSet(Senders(t))
  <2>1. Senders(t) = {}
    BY DEF Senders
  <2> QED
    BY <2>1, FS_EmptySet
<1>2. Cardinality(Collectors(t, t.next.seq)) \in Nat
  BY <1>1, CollectorsFinite
<1> QED
  BY SMTT(120), <1>1, <1>2 DEF Collecting

LEMMA BeginViewChangeCollecting ==
  ASSUME NEW self, NEW s, IsSync(s), Collecting(s), NEW last
  PROVE  Collecting(BeginViewChange(self, s, last).sync)
<1> DEFINE res == BeginViewChange(self, s, last).sync
           t == [s EXCEPT !.phase = "Stopping2"]
           u == EnterPhase(s, "Stopping2", 0)
           w == EnterPhase(ClearState(s), "Stopping2", 0)
<1>1. res \in {s, t, u, w}
  <2> HIDE DEF t, u, w
  <2> QED
    BY DEF BeginViewChange, Result, t, u, w
<1>2. t.collects = s.collects /\ t.count = s.count /\ t.phase = "Stopping2"
  BY DEF IsSync, SyncFields
<1>3. u.collects = s.collects /\ u.count = 0
  BY DEF IsSync, SyncFields, EnterPhase
<1>4. w.collects = {} /\ w.count = 0
  BY DEF IsSync, SyncFields, EnterPhase, ClearState
<1> HIDE DEF t, u, w, res
<1>5. KeepsCollects(s, t) /\ KeepsCollects(s, u)
  BY SMTT(120), <1>2, <1>3 DEF KeepsCollects, Collecting
<1>6. Collecting(t) /\ Collecting(u) /\ Collecting(w)
  BY <1>4, <1>5, KeptCollecting, NothingCollected
<1> QED
  BY <1>1, <1>6 DEF res

LEMMA StartJoinQuorumCollecting ==
  ASSUME NEW self, NEW s, IsSync(s), Collecting(s), NEW node, NEW last
  PROVE  Collecting(StartJoinQuorum(self, s, node, last).sync)
<1> DEFINE w == EnterPhase(ClearState(s), "ViewStopping2", 0)
<1>1. w.collects = {} /\ w.count = 0
  BY DEF IsSync, SyncFields, EnterPhase, ClearState
<1>2. StartJoinQuorum(self, s, node, last).sync \in {s, w}
  BY DEF StartJoinQuorum, Result
<1> HIDE DEF w
<1>3. Collecting(w)
  BY <1>1, NothingCollected
<1> QED
  BY <1>2, <1>3

LEMMA AttemptJoinQuorumKeeps ==
  ASSUME NEW self, NEW s, IsSync(s), WithMembers(s)
  PROVE  /\ KeepsCollects(s, AttemptJoinQuorum(self, s))
         /\ AttemptJoinQuorum(self, s).view = s.view /\ WithMembers(AttemptJoinQuorum(self, s))
<1> DEFINE next == NextViewWithNewNode(s.view, self)
           t(phase) == EnterPhase([s EXCEPT !.next = next, !.addingNode = self], phase, 0)
           res == AttemptJoinQuorum(self, s)
<1>1. PICK phase : res = t(phase)
  BY DEF AttemptJoinQuorum
<1>2. HasMembers(next)
  BY NewNodeMembers DEF WithMembers
<1> HIDE DEF next
<1>3. /\ t(phase).view = s.view /\ t(phase).next = next /\ t(phase).count = 0
      /\ t(phase).collects = s.collects
  BY DEF IsSync, SyncFields, EnterPhase
<1> HIDE DEF t, res
<1>4. KeepsCollects(s, res)
  BY SMTT(120), <1>1, <1>3 DEF KeepsCollects
<1>5. res.view = s.view /\ WithMembers(res)
  BY <1>1, <1>2, <1>3 DEF WithMembers
<1> QED
  BY <1>4, <1>5 DEF res

LEMMA ReceiveViewKeeps ==
  ASSUME NEW self, NEW s, IsSync(s), Collecting(s), s.phase \notin Passing,
         NEW view, view.seq \in Int
  PROVE  KeepsCollects(s, ReceiveView(self, s, view))
<1> DEFINE t == InstallInTbo(s, PreviousView(view))
           u(phase) == [EnterPhase(t, phase, 0) EXCEPT !.next = view]
           w == InstallInTbo(t, view)
           res == ReceiveView(self, s, view)
<1>1. (\E phase \in Passing : res = u(phase)) \/ res = w
  <2> HIDE DEF t
  <2> QED
    BY DEF ReceiveView, Passing, t
<1>2. PreviousView(view).seq \in Int
  BY SMTT(120) DEF PreviousView, Peek, NewViewInfo
<1>3. /\ IsSync(t)
      /\ t = [field \in SyncFields |-> IF field \in {"view", "queue"} THEN t[field] ELSE s[field]]
  BY <1>2, InstallInTboSync
<1> HIDE DEF t
<1>4. t.collects = s.collects /\ t.count = s.count /\ t.phase = s.phase
  BY <1>3 DEF SyncFields
<1>5. w = [field \in SyncFields |-> IF field \in {"view", "queue"} THEN w[field] ELSE t[field]]
  BY <1>3, InstallInTboSync
<1> HIDE DEF w
<1>6. w.collects = s.collects /\ w.count = s.count /\ w.phase = s.phase
  BY <1>4, <1>5 DEF SyncFields
<1>7. \A phase : u(phase).collects = s.collects /\ u(phase).count = 0
  BY <1>3, <1>4 DEF EnterPhase, SyncFields, IsSync
<1> HIDE DEF u, res
<1>8. \A phase : KeepsCollects(s, u(phase))
  BY SMTT(120), <1>7 DEF KeepsCollects
<1>9. KeepsCollects(s, w)
  BY <1>6 DEF KeepsCollects, Collecting, Passing
<1> QED
  BY <1>1, <1>8, <1>9 DEF res

LedInv ==
  /\ AlignedInv
  /\ \A m \in net : m.to \in Correct
  /\ \A r \in Correct : WithMembers(sync[r]) /\ Collecting(sync[r])

\* What a step may make of the synchronizer of every replica.
StaysLed ==
  /\ \A m \in net' : m.to \in Correct
  /\ \A k \in Correct : /\ WithMembers(sync'[k]) /\ Collecting(sync'[k])
                        /\ TakesOutcome(sync[k], sync'[k], Processed(k))

LEMMA InitLed == Init => LedInv
<1> SUFFICES ASSUME Init PROVE LedInv
  OBVIOUS
<1> DEFINE s == InitSync(FromQuorum(0, Members))
<1>1. /\ s.collects = {} /\ s.count = 0 /\ s.view.members = Members /\ s.next = NoView
  BY DEF InitSync, FromQuorum
<1>2. sync = [r \in Correct |-> s] /\ net \in PeerSends
  BY DEF Init, s
<1> HIDE DEF s
<1>3. HasMembers(s.view)
  BY <1>1, ViewChangeAssumption DEF HasMembers
<1>4. WithMembers(s)
  BY <1>1, <1>3, NoViewMembers DEF WithMembers
<1>5. Collecting(s)
  BY <1>1, NothingCollected
<1>6. \A m \in net : m.to \in Correct
  BY <1>2, ViewChangeAssumption
<1> QED
  BY <1>2, <1>4, <1>5, <1>6, InitAligned DEF LedInv

LEMMA UpdateLed ==
  ASSUME LedInv, NEW r \in Correct, NEW s, WithMembers(s), Collecting(s),
         TakesOutcome(sync[r], s, Processed(r)), NEW newMode, NEW last, NEW newNet,
         Update(r, s, newMode, last, newNet)
  PROVE  StaysLed
<1>1. /\ \A k \in Correct : sync'[k] = IF k = r THEN s ELSE sync[k]
      /\ \A m \in net' : m.to \in Correct
  BY DEF Update, LedInv, AlignedInv
<1>2. ASSUME NEW k \in Correct
      PROVE  /\ WithMembers(sync'[k]) /\ Collecting(sync'[k])
             /\ TakesOutcome(sync[k], sync'[k], Processed(k))
  <2>1. CASE k = r
    BY <1>1, <2>1
  <2>2. CASE k # r
    <3>1. sync'[k] = sync[k]
      BY <1>1, <2>2
    <3> QED
      BY <3>1 DEF LedInv, TakesOutcome
  <2> QED
    BY <2>1, <2>2
<1> QED
  BY <1>1, <1>2 DEF StaysLed

\* The synchronizer is signalled, or its replica panics: the outcome stands.
LEMMA MarkedOutcome ==
  ASSUME NEW s, NEW t, IsSync(t), WithMembers(t), Collecting(t), NEW messages,
         TakesOutcome(s, t, messages), NEW u \in {Panic(t), SignalQueues(t)}
  PROVE  WithMembers(u) /\ Collecting(u) /\ TakesOutcome(s, u, messages)
<1>1. u.view = t.view /\ u.next = t.next
  <2>1. CASE u = Panic(t)
    BY <2>1, PanicReports
  <2>2. CASE u = SignalQueues(t)
    BY <2>2, SignalQueuesAwake
  <2> QED
    BY <2>1, <2>2
<1>2. KeepsCollects(t, u)
  BY PanicKeeps
<1>3. WithMembers(u) /\ Collecting(u)
  BY <1>1, <1>2, KeptCollecting DEF WithMembers
<1>4. Collectors(u, u.view.seq) = Collectors(t, t.view.seq)
  BY <1>1, <1>2 DEF Collectors, KeepsCollects
<1> QED
  BY <1>1, <1>3, <1>4 DEF TakesOutcome

LEMMA ReceiveLed ==
  ASSUME LedInv, NEW r \in Correct, NEW m \in net, NEW o \in Outcomes,
         ReceiveNormal(r, m, o) \/ ReceiveSync(r, m, o)
  PROVE  StaysLed
<1>1. PICK res : res = ProcessMessage(r, sync[r], lastExec[r], m, o.sound, o.empty)
  OBVIOUS
<1>2. IsSync(sync[r]) /\ WithMembers(sync[r]) /\ Collecting(sync[r]) /\ m.view \in Int
  BY DEF LedInv, AlignedInv, HaveViews
<1>3. IsSync(res.sync) /\ WithMembers(res.sync)
  BY <1>1, <1>2, ProcessMessageSync, ProcessMessageReports DEF IsResult, Reports
<1>4. /\ Collecting(res.sync) /\ TakesOutcome(sync[r], res.sync, {m})
      /\ sync[r].phase = "Syncing" => res.sends = {}
  BY <1>1, <1>2, ProcessMessageOutcome
<1>5. PICK t \in {Panic(res.sync), SignalQueues(res.sync)} :
        /\ m.to = r
        /\ Update(r, t, ModeAfter(r, res.status), res.last, (net \ {m}) \cup res.sends)
  <2>1. CASE ReceiveNormal(r, m, o)
    BY <1>1, <2>1 DEF ReceiveNormal
  <2>2. CASE ReceiveSync(r, m, o)
    BY <1>1, <2>2 DEF ReceiveSync
  <2> QED
    BY <2>1, <2>2
<1>6. TakesOutcome(sync[r], res.sync, Processed(r))
  <2>1. sync[r].phase = "Syncing" => m \in Processed(r)
    <3> SUFFICES ASSUME sync[r].phase = "Syncing" PROVE m \in Processed(r)
      OBVIOUS
    <3>1. m \notin net'
      BY <1>4, <1>5 DEF Update
    <3> QED
      BY <1>5, <3>1 DEF Processed
  <2> QED
    BY <1>4, <2>1 DEF TakesOutcome
<1>7. WithMembers(t) /\ Collecting(t) /\ TakesOutcome(sync[r], t, Processed(r))
  BY <1>3, <1>4, <1>6, MarkedOutcome
<1> QED
  BY <1>5, <1>7, UpdateLed

LEMMA PollMessageLed ==
  ASSUME LedInv, NEW r \in Correct, NEW o \in Outcomes, PollMessage(r, o)
  PROVE  StaysLed
<1> DEFINE s == AfterPoll(sync[r])
           m == PolledMessage(sync[r])
<1>1. PICK res : res = ProcessMessage(r, s, lastExec[r], m, o.sound, o.empty)
  OBVIOUS
<1>2. /\ IsSync(sync[r]) /\ WithMembers(sync[r]) /\ Collecting(sync[r])
      /\ CanProcess(sync[r], PolledQueue(sync[r]))
  BY DEF LedInv, AlignedInv, PollMessage
<1>3. Update(r, SignalQueues(res.sync), ModeAfter(r, res.status), res.last, net \cup res.sends)
  BY <1>1 DEF PollMessage
<1>4. m.view \in Int /\ IsSync(s)
  <2>1. sync[r].view.seq \in Int
    BY <1>2 DEF IsSync
  <2> QED
    BY SMTT(120), <1>2, <2>1, AfterPollSync
<1>5. /\ s.view = sync[r].view /\ s.next = sync[r].next
      /\ sync[r].phase # "Init" => s.phase = sync[r].phase
  BY <1>2, AfterPollReports
<1>6. Collecting(s)
  BY <1>2, AfterPollKeeps, KeptCollecting
<1>7. m \in Processed(r)
  <2>1. net \subseteq net'
    BY <1>3 DEF Update, LedInv
  <2> QED
    BY <2>1 DEF Processed
<1> HIDE DEF s, m
<1>8. WithMembers(s)
  BY <1>2, <1>5 DEF WithMembers
<1>9. IsSync(res.sync) /\ WithMembers(res.sync)
  BY <1>1, <1>4, <1>8, ProcessMessageSync, ProcessMessageReports DEF IsResult, Reports
<1>10. Collecting(res.sync) /\ TakesOutcome(s, res.sync, {m})
  BY <1>1, <1>4, <1>6, <1>8, ProcessMessageOutcome
<1>11. TakesOutcome(sync[r], res.sync, Processed(r))
  <2>1. sync[r].phase \in Passing => s.phase = sync[r].phase
    BY <1>5 DEF Passing
  <2>2. /\ sync[r].phase = "Syncing" => s.phase = "Syncing"
        /\ sync[r].phase = "StoppingData" => s.phase = "StoppingData"
    BY <2>1 DEF Passing
  <2> QED
    BY <1>5, <1>7, <1>10, <2>2 DEF TakesOutcome
<1>12. /\ WithMembers(SignalQueues(res.sync)) /\ Collecting(SignalQueues(res.sync))
       /\ TakesOutcome(sync[r], SignalQueues(res.sync), Processed(r))
  BY <1>9, <1>10, <1>11, MarkedOutcome
<1> QED
  BY <1>3, <1>12, UpdateLed

LEMMA NextLed ==
  ASSUME LedInv, [Next]_vars
  PROVE  LedInv' /\ StaysLed
<1>0. ASSUME NEW r \in Correct
      PROVE  IsSync(sync[r]) /\ WithMembers(sync[r]) /\ Collecting(sync[r])
  BY DEF LedInv, AlignedInv
<1>1. ASSUME NEW r \in Correct, PollNothing(r)
      PROVE  StaysLed
  <2> DEFINE t == [sync[r] EXCEPT !.signalled = FALSE]
  <2>1. Update(r, t, mode[r], lastExec[r], net)
    BY <1>1 DEF PollNothing
  <2>2. /\ t.view = sync[r].view /\ t.next = sync[r].next /\ t.phase = sync[r].phase
        /\ t.collects = sync[r].collects /\ t.count = sync[r].count
    BY <1>0 DEF IsSync, SyncFields
  <2> HIDE DEF t
  <2>3. WithMembers(t) /\ KeepsCollects(sync[r], t) /\ TakesOutcome(sync[r], t, Processed(r))
    BY <1>0, <2>2 DEF WithMembers, KeepsCollects, Collecting, TakesOutcome
  <2> QED
    BY <1>0, <2>1, <2>3, KeptCollecting, UpdateLed
<1>2. ASSUME NEW r \in Correct, PollResume(r)
      PROVE  StaysLed
  <2>1. PICK res : res = ResumeViewChange(sync[r], lastExec[r])
    OBVIOUS
  <2>2. sync[r].phase = "SyncingState" /\ Update(r, res.sync, "Normal", res.last, net \cup res.sends)
    BY <1>2, <2>1 DEF PollResume
  <2>3. WithMembers(res.sync) /\ KeepsCollects(sync[r], res.sync)
    BY <1>0, <2>1, <2>2, ResumeViewChangeReports, ResumeViewChangeKeeps
  <2>4. sync[r].phase \notin Passing
    BY <2>2 DEF Passing
  <2> QED
    BY <1>0, <2>2, <2>3, <2>4, KeptOutcome, UpdateLed
<1>3. ASSUME NEW r \in Correct, NEW m \in net, QueueOffContext(r, m)
      PROVE  StaysLed
  <2> DEFINE s == SyncQueue(sync[r], m)
  <2>1. IsSync(sync[r]) /\ m.view \in Int
    BY <1>0 DEF LedInv, AlignedInv, HaveViews
  <2>2. /\ IsSync(s) /\ s.view = sync[r].view /\ s.next = sync[r].next
        /\ KeepsCollects(sync[r], s)
    BY <1>0, <2>1, SyncQueueSync, SyncQueueReports, SyncQueueKeeps
  <2>3. Update(r, SignalQueues(s), mode[r], lastExec[r], net \ {m})
    BY <1>3 DEF QueueOffContext
  <2> HIDE DEF s
  <2>4. WithMembers(s) /\ Collecting(s) /\ TakesOutcome(sync[r], s, Processed(r))
    BY <1>0, <2>2, KeptCollecting DEF WithMembers, TakesOutcome
  <2>5. /\ WithMembers(SignalQueues(s)) /\ Collecting(SignalQueues(s))
        /\ TakesOutcome(sync[r], SignalQueues(s), Processed(r))
    BY <2>2, <2>4, MarkedOutcome
  <2> QED
    BY <2>3, <2>5, UpdateLed
<1>4. ASSUME NEW r \in Correct, Timeout(r)
      PROVE  StaysLed
  <2>1. PICK res : res = BeginViewChange(r, sync[r], lastExec[r])
    OBVIOUS
  <2>2. Update(r, res.sync, "Sync", res.last, net \cup res.sends)
    BY <1>4, <2>1 DEF Timeout
  <2>3. Starts(sync[r], res.sync) /\ Collecting(res.sync)
    BY <1>0, <2>1, BeginViewChangeReports, BeginViewChangeCollecting
  <2>4. WithMembers(res.sync) /\ TakesOutcome(sync[r], res.sync, Processed(r))
    BY <1>0, <2>3 DEF WithMembers, TakesOutcome, Starts
  <2> QED
    BY <2>2, <2>3, <2>4, UpdateLed
<1>5. ASSUME NEW r \in Correct, NEW j \in JoinRequests, AttemptQuorumNodeJoin(r, j.node)
      PROVE  StaysLed
  <2>1. PICK res : res = StartJoinQuorum(r, sync[r], j.node, lastExec[r])
    OBVIOUS
  <2>2. Update(r, res.sync, mode[r], res.last, net \cup res.sends)
    BY <1>5, <2>1 DEF AttemptQuorumNodeJoin
  <2>3. Starts(sync[r], res.sync) /\ Collecting(res.sync)
    BY <1>0, <2>1, StartJoinQuorumReports, StartJoinQuorumCollecting
  <2>4. WithMembers(res.sync) /\ TakesOutcome(sync[r], res.sync, Processed(r))
    BY <1>0, <2>3 DEF WithMembers, TakesOutcome, Starts
  <2> QED
    BY <2>2, <2>3, <2>4, UpdateLed
<1>6. ASSUME NEW r \in Correct, JoiningQuorum(r)
      PROVE  StaysLed
  <2>1. PICK t : t = AttemptJoinQuorum(r, sync[r])
    OBVIOUS
  <2>2. Update(r, t, "Sync", lastExec[r], net)
    BY <1>6, <2>1 DEF JoiningQuorum
  <2>3. KeepsCollects(sync[r], t) /\ t.view = sync[r].view /\ WithMembers(t)
    BY <1>0, <2>1, AttemptJoinQuorumKeeps
  <2>4. Collecting(t) /\ TakesOutcome(sync[r], t, Processed(r))
    BY <1>0, <2>3, KeptCollecting DEF TakesOutcome
  <2> QED
    BY <2>2, <2>3, <2>4, UpdateLed
<1>7. ASSUME NEW r \in Correct, NEW i \in InstallViews, InstallView(r, i.seq)
      PROVE  StaysLed
  <2>1. PICK view : view = Peek(sync[r].view, i.seq)
    OBVIOUS
  <2>2. view.seq \in Int
    BY SMTT(120), <2>1, ViewChangeAssumption DEF Peek, NewViewInfo
  <2>3. HasMembers(view)
    BY <1>0, <2>1, PeekMembers DEF WithMembers
  <2>4. sync[r].phase \notin Passing
    <3>1. sync[r].phase \in {"Init", "SyncingState"}
      BY <1>7, ViewChangeAssumption DEF InstallView
    <3> QED
      BY <3>1 DEF Passing
  <2>5. PICK t, newMode : /\ t = ReceiveView(r, sync[r], view)
                          /\ Update(r, t, newMode, lastExec[r], net)
    BY <1>7, <2>1 DEF InstallView
  <2>6. WithMembers(t) /\ KeepsCollects(sync[r], t)
    BY <1>0, <2>2, <2>3, <2>4, <2>5, ReceiveViewAwake, ReceiveViewKeeps DEF Receives
  <2> QED
    BY <1>0, <2>4, <2>5, <2>6, KeptOutcome, UpdateLed
<1>8. ASSUME UNCHANGED vars
      PROVE  StaysLed
  <2>1. sync' = sync /\ net' = net
    BY <1>8 DEF vars
  <2> QED
    BY <2>1 DEF LedInv, StaysLed, TakesOutcome
<1>9. StaysLed
  BY <1>1, <1>2, <1>3, <1>4, <1>5, <1>6, <1>7, <1>8, ReceiveLed, PollMessageLed
     DEF Next, Step
<1>10. AlignedInv'
  BY NextAligned DEF LedInv
<1>11. ASSUME NEW k \in Correct
       PROVE  WithMembers(sync[k])' /\ Collecting(sync[k])'
  BY <1>9 DEF StaysLed, WithMembers, HasMembers, Collecting, Collectors, Senders
<1> QED
  BY <1>9, <1>10, <1>11 DEF LedInv, StaysLed

(***************************************************************************)
(* A replica that waits for the outcome of a view change enters the new    *)
(* view with a SYNC of that view's leader, and the leader itself only with *)
(* STOP-DATA of a quorum of different senders for that very view.  It      *)
(* holds whatever is left of the collects of earlier changes, whichever    *)
(* nodes join, and for messages that were queued before their turn.        *)
(***************************************************************************)
THEOREM TakesOutcomeFromLeaderHolds == Spec => TakesOutcomeFromLeader
<1>1. Init => LedInv
  BY InitLed
<1>2. LedInv /\ [Next]_vars => LedInv'
  BY NextLed
<1>3. LedInv /\ [Next]_vars =>
        [\A r \in Correct : sync'[r].view # sync[r].view =>
           /\ sync[r].phase = "Syncing" =>
                \E m \in Processed(r) :
                  m.kind = "Sync" /\ m.view = sync'[r].view.seq /\ m.from = Leader(sync'[r].view)
           /\ sync[r].phase = "StoppingData" =>
                Cardinality({m.from : m \in {c \in sync'[r].collects : c.view = sync'[r].view.seq}})
                  >= QuorumSize(sync'[r].view)]_vars
  <2> SUFFICES ASSUME LedInv, [Next]_vars, NEW r \in Correct
               PROVE  TakesOutcome(sync[r], sync'[r], Processed(r))
    BY DEF TakesOutcome, Collectors
  <2> QED
    BY NextLed DEF StaysLed
<1> QED
  BY <1>1, <1>2, <1>3, PTL DEF Spec, TakesOutcomeFromLeader

-----------------------------------------------------------------------------
(***************************************************************************)
(* The view that is next, and the phase of the ordering protocol.          *)
(***************************************************************************)
NextFollows(s) == s.phase \in Passing => s.next.seq = s.view.seq + 1

LEMMA SameFollows ==
  ASSUME NEW s, NextFollows(s), NEW t, t.view = s.view, t.next = s.next,
         t.phase \in Passing => s.phase \in Passing
  PROVE  NextFollows(t)
BY DEF NextFollows

LEMMA StoppingQuorumFollows ==
  ASSUME NEW self, NEW s, IsSync(s), NEW next, next.seq = s.view.seq + 1, NEW last
  PROVE  NextFollows(StoppingQuorum(self, s, next, last).sync)
<1> DEFINE t(phase) == EnterPhase([s EXCEPT !.next = next, !.stopped = {}], phase, 0)
<1>1. PICK phase : StoppingQuorum(self, s, next, last).sync = t(phase)
  BY DEF StoppingQuorum, Result
<1>2. t(phase).view = s.view /\ t(phase).next = next
  BY DEF IsSync, SyncFields, EnterPhase
<1> HIDE DEF t
<1> QED
  BY <1>1, <1>2 DEF NextFollows

LEMMA ProcessStoppingFollows ==
  ASSUME NEW self, NEW s, IsSync(s), s.phase \in StopPhases, NEW last, NEW m, m.view \in Int
  PROVE  NextFollows(ProcessStopping(self, s, last, m).sync)
<1> DEFINE t == [s EXCEPT !.stopped = @ \cup {m}, !.count = @ + 1]
           u == [t EXCEPT !.phase = "Stopping2"]
           quorum == StoppingQuorum(self, t, NextView(s.view), last)
           stop == ProcessStop(self, s, last, m)
           res == ProcessStopping(self, s, last, m)
<1>1. res.sync \in {s, SyncQueue(s, m), stop.sync}
  <2> HIDE DEF stop
  <2> QED
    BY DEF ProcessStopping, Result, stop
<1>2. stop.sync \in {t, u, quorum.sync}
  <2> HIDE DEF t, u, quorum
  <2> QED
    BY DEF ProcessStop, Result, t, u, quorum
<1> HIDE DEF stop, res
<1>3. /\ t = [field \in SyncFields |-> t[field]]
      /\ t.view = s.view /\ t.queue = s.queue /\ t.next = s.next /\ t.phase = s.phase
  BY DEF IsSync, SyncFields
<1> HIDE DEF t
<1>4. u.phase = "Stopping2"
  BY <1>3 DEF SyncFields
<1> HIDE DEF u
<1>5. NextFollows(s) /\ NextFollows(SyncQueue(s, m)) /\ NextFollows(t) /\ NextFollows(u)
  <2>1. SyncQueue(s, m).phase = s.phase
    BY SyncQueueReports
  <2>2. s.phase \notin Passing /\ u.phase \notin Passing
    BY <1>4 DEF StopPhases, Passing
  <2> QED
    BY <1>3, <2>1, <2>2 DEF NextFollows
<1>6. NextFollows(quorum.sync)
  <2>1. IsSync(t)
    BY <1>3, SameQueues DEF IsSync
  <2>2. NextView(s.view).seq = t.view.seq + 1
    BY <1>3 DEF NextView, Peek, NewViewInfo
  <2> QED
    BY <2>1, <2>2, StoppingQuorumFollows
<1> HIDE DEF quorum
<1> QED
  BY <1>1, <1>2, <1>5, <1>6 DEF res

LEMMA ProcessViewStoppingFollows ==
  ASSUME NEW self, NEW s, IsSync(s), s.phase \in Joining, NEW last, NEW m, m.view \in Int
  PROVE  NextFollows(ProcessViewStopping(self, s, last, m).sync)
<1> DEFINE t == [s EXCEPT !.adding = @ \cup {[node |-> m.node, voter |-> m.from]}, !.count = @ + 1]
           u == [t EXCEPT !.addingNode = m.node]
           next == NextViewWithNewNode(s.view, MostVoted(t))
           quorum == StoppingQuorum(self, u, next, last)
           join == ProcessJoin(self, s, last, m)
           w(phase) == [t EXCEPT !.phase = phase]
           queued == SyncQueue(s, m)
           stopping == EnterPhase(queued, "Stopping", 0)
           res == ProcessViewStopping(self, s, last, m)
<1>1. res.sync \in {queued, stopping, join.sync}
  <2> HIDE DEF join, queued, stopping
  <2> QED
    BY DEF ProcessViewStopping, Result, join, queued, stopping
<1> HIDE DEF res
<1>2. join.sync \in {w("ViewStopping"), w("ViewStopping2"), w("Panicked"), quorum.sync}
  <2>1. \/ join = Result(w("ViewStopping2"), "Running", {}, last)
        \/ join = quorum
        \/ join = Result(IF t.count >= Len(s.view.members) THEN Panic(t) ELSE w("ViewStopping"),
                        "Running", {}, last)
    <3> HIDE DEF t, next
    <3> QED
      BY SMTT(120) DEF ProcessJoin, t, next
  <2> HIDE DEF t, join, next, quorum
  <2> QED
    BY SMTT(120), <2>1 DEF Panic, Result
<1>3. /\ t = [field \in SyncFields |-> t[field]]
      /\ t.view = s.view /\ t.queue = s.queue /\ t.next = s.next
  BY DEF IsSync, SyncFields
<1>4. next.seq = s.view.seq + 1
  BY DEF NextViewWithNewNode, FromQuorum
<1> HIDE DEF t, join, next
<1>5. \A phase : w(phase).phase = phase
  BY <1>3 DEF SyncFields
<1> HIDE DEF w
<1>6. IsSync(u) /\ u.view = s.view
  <2>1. /\ u = [field \in SyncFields |-> u[field]]
        /\ u.view = s.view /\ u.queue = s.queue /\ u.next = s.next
    BY <1>3 DEF SyncFields
  <2> HIDE DEF u
  <2> QED
    BY <2>1, SameQueues DEF IsSync
<1> HIDE DEF u
<1>7. NextFollows(quorum.sync)
  BY <1>4, <1>6, StoppingQuorumFollows
<1> HIDE DEF quorum
<1>8. IsSync(queued) /\ queued.phase = s.phase
  BY SyncQueueSync, SyncQueueReports
<1> HIDE DEF queued
<1>9. stopping.phase = "Stopping"
  BY <1>8 DEF EnterPhase, IsSync, SyncFields
<1> HIDE DEF stopping
<1>10. /\ queued.phase \notin Passing /\ stopping.phase \notin Passing
       /\ \A phase \in {"ViewStopping", "ViewStopping2", "Panicked"} : w(phase).phase \notin Passing
  BY <1>5, <1>8, <1>9 DEF Joining, Passing
<1>11. /\ NextFollows(queued) /\ NextFollows(stopping)
       /\ \A phase \in {"ViewStopping", "ViewStopping2", "Panicked"} : NextFollows(w(phase))
  BY <1>10 DEF NextFollows
<1> QED
  BY <1>1, <1>2, <1>7, <1>11 DEF res

LEMMA ProcessStoppingDataFollows ==
  ASSUME NEW self, NEW s, IsSync(s), NextFollows(s), s.count \in Nat, s.phase = "StoppingData",
         NEW last, NEW m, m.view \in Int, NEW sound, NEW empty
  PROVE  NextFollows(ProcessStoppingData(self, s, last, m, sound, empty).sync)
<1> DEFINE res == ProcessStoppingData(self, s, last, m, sound, empty)
           t == [s EXCEPT !.collects = @ \cup {m}]
           u == [t EXCEPT !.count = @ + 1]
           state == [proof |-> HighestProof(t.collects), sound |-> sound, empty |-> empty]
           finalized == Finalize(t, last, state, state.proof, Syncs(self, s.next, state))
<1>1. res.sync \in {s, SyncQueue(s, m), u, finalized.sync}
  <2> HIDE DEF t, u, state, finalized
  <2> QED
    BY DEF ProcessStoppingData, Result, t, u, state, finalized
<1>2. /\ t = [field \in SyncFields |-> t[field]] /\ t.view = s.view /\ t.queue = s.queue
      /\ t.next = s.next /\ t.phase = s.phase /\ t.count = s.count
  BY DEF IsSync, SyncFields
<1> HIDE DEF t, res, state
<1>3. u.view = s.view /\ u.next = s.next /\ u.phase = s.phase
  BY <1>2 DEF SyncFields
<1> HIDE DEF u
<1>4. IsSync(t)
  BY <1>2, SameQueues DEF IsSync
<1>5. finalized.sync.phase \in Passing => finalized.sync = t
  BY <1>2, <1>4, FinalizeKeeps
<1> HIDE DEF finalized
<1>6. NextFollows(t) /\ NextFollows(u)
  BY <1>2, <1>3, SameFollows
<1>7. NextFollows(finalized.sync)
  BY <1>5, <1>6 DEF NextFollows
<1>8. NextFollows(SyncQueue(s, m))
  BY SyncQueueReports, SameFollows
<1> QED
  BY <1>1, <1>6, <1>7, <1>8 DEF res

LEMMA ProcessSyncingFollows ==
  ASSUME NEW s, IsSync(s), NextFollows(s), s.count \in Nat, s.phase = "Syncing", NEW last,
         NEW m, m.view \in Int
  PROVE  NextFollows(ProcessSyncing(s, last, m).sync)
<1> DEFINE res == ProcessSyncing(s, last, m)
           state == [proof |-> m.proof, sound |-> m.sound, empty |-> m.empty]
           finalized == Finalize(s, last, state, m.proof, {})
<1>1. res.sync \in {s, SyncQueue(s, m), finalized.sync}
  <2> HIDE DEF finalized, state
  <2> QED
    BY DEF ProcessSyncing, Result, finalized, state
<1> HIDE DEF res, state
<1>2. finalized.sync.phase \in Passing => finalized.sync = s
  BY SMTT(120), FinalizeKeeps
<1> HIDE DEF finalized
<1>3. NextFollows(finalized.sync)
  BY <1>2 DEF NextFollows
<1>4. NextFollows(SyncQueue(s, m))
  BY SyncQueueReports, SameFollows
<1> QED
  BY <1>1, <1>3, <1>4 DEF res

LEMMA ProcessMessageFollows ==
  ASSUME NEW self, NEW s, IsSync(s), NextFollows(s), s.count \in Nat, NEW last,
         NEW m, m.view \in Int, NEW sound, NEW empty
  PROVE  NextFollows(ProcessMessage(self, s, last, m, sound, empty).sync)
<1> DEFINE res == ProcessMessage(self, s, last, m, sound, empty)
<1>1. CASE s.phase = "Init"
  <2>1. res.sync = SyncQueue(s, m)
    BY <1>1 DEF ProcessMessage, Result
  <2>2. /\ SyncQueue(s, m).view = s.view /\ SyncQueue(s, m).next = s.next
        /\ SyncQueue(s, m).phase = s.phase
    BY SyncQueueReports
  <2> HIDE DEF res
  <2> QED
    BY <2>1, <2>2, SameFollows DEF res
<1>2. CASE s.phase \in {"Stopping", "Stopping2"}
  <2>1. res = ProcessStopping(self, s, last, m) /\ s.phase \in StopPhases
    BY <1>2 DEF ProcessMessage, StopPhases
  <2> HIDE DEF res
  <2> QED
    BY <2>1, ProcessStoppingFollows DEF res
<1>3. CASE s.phase \in {"ViewStopping", "ViewStopping2"}
  <2>1. res = ProcessViewStopping(self, s, last, m) /\ s.phase \in Joining
    BY <1>3 DEF ProcessMessage, Joining
  <2> HIDE DEF res
  <2> QED
    BY <2>1, ProcessViewStoppingFollows DEF res
<1>4. CASE s.phase = "StoppingData"
  <2>1. res = ProcessStoppingData(self, s, last, m, sound, empty)
    BY <1>4 DEF ProcessMessage
  <2> HIDE DEF res
  <2> QED
    BY <1>4, <2>1, ProcessStoppingDataFollows DEF res
<1>5. CASE s.phase = "Syncing"
  <2>1. res = ProcessSyncing(s, last, m)
    BY <1>5 DEF ProcessMessage
  <2> HIDE DEF res
  <2> QED
    BY <1>5, <2>1, ProcessSyncingFollows DEF res
<1>6. CASE s.phase \notin {"Init", "Stopping", "Stopping2", "ViewStopping", "ViewStopping2",
                           "StoppingData", "Syncing"}
  <2>1. res.sync = Panic(s)
    BY <1>6 DEF ProcessMessage, Result
  <2>2. "Panicked" \notin Passing
    BY DEF Passing
  <2> HIDE DEF res
  <2> QED
    BY <2>1, <2>2, PanicReports DEF res, NextFollows
<1> QED
  BY <1>1, <1>2, <1>3, <1>4, <1>5, <1>6

LEMMA AttemptJoinQuorumFollows ==
  ASSUME NEW self, NEW s, IsSync(s)
  PROVE  NextFollows(AttemptJoinQuorum(self, s))
<1> DEFINE next == NextViewWithNewNode(s.view, self)
           t(phase) == EnterPhase([s EXCEPT !.next = next, !.addingNode = self], phase, 0)
<1>1. PICK phase : AttemptJoinQuorum(self, s) = t(phase)
  BY DEF AttemptJoinQuorum
<1>2. next.seq = s.view.seq + 1
  BY DEF NextViewWithNewNode, FromQuorum
<1> HIDE DEF next
<1>3. t(phase).view = s.view /\ t(phase).next = next
  BY DEF IsSync, SyncFields, EnterPhase
<1> HIDE DEF t
<1> QED
  BY <1>1, <1>2, <1>3 DEF NextFollows

\* A view that a state transfer brings is installed, or changed to from the one
\* before it, which is installed where it is not the current one.
LEMMA ReceiveViewFollows ==
  ASSUME NEW self, NEW s, IsSync(s), s.phase \notin Passing,
         NEW view, view.seq \in Int, view.seq > s.view.seq
  PROVE  NextFollows(ReceiveView(self, s, view))
<1> DEFINE previous == PreviousView(view)
           q == [k \in DOMAIN s.queue |-> DropQueues(s.queue[k], previous.seq - s.view.seq)]
           moved == [s EXCEPT !.view = previous, !.queue = q]
           t == InstallInTbo(s, previous)
           u(phase) == [EnterPhase(t, phase, 0) EXCEPT !.next = view]
           w == InstallInTbo(t, view)
           res == ReceiveView(self, s, view)
<1>1. (\E phase \in Passing : res = u(phase)) \/ res = w
  <2> HIDE DEF t
  <2> QED
    BY DEF ReceiveView, Passing, t
<1>2. previous.seq = view.seq - 1
  BY DEF PreviousView, Peek, NewViewInfo
<1> HIDE DEF previous
<1>3. t = IF previous.seq <= s.view.seq THEN s ELSE moved
  BY DEF InstallInTbo
<1>4. /\ IsSync(t)
      /\ t = [field \in SyncFields |-> IF field \in {"view", "queue"} THEN t[field] ELSE s[field]]
  <2>1. previous.seq \in Int
    BY SMTT(120), <1>2
  <2> QED
    BY <2>1, InstallInTboSync
<1> HIDE DEF t, q
<1>5. t.view.seq + 1 = view.seq
  <2>1. moved.view = previous
    BY DEF IsSync, SyncFields
  <2>2. s.view.seq \in Int
    BY DEF IsSync
  <2> HIDE DEF moved
  <2>3. CASE previous.seq <= s.view.seq
    BY SMTT(120), <1>2, <1>3, <2>2, <2>3
  <2>4. CASE ~ (previous.seq <= s.view.seq)
    BY SMTT(120), <1>2, <1>3, <2>1, <2>4
  <2> QED
    BY <2>3, <2>4
<1> HIDE DEF moved
<1>6. w = [field \in SyncFields |-> IF field \in {"view", "queue"} THEN w[field] ELSE t[field]]
  BY <1>4, InstallInTboSync
<1> HIDE DEF w
<1>7. w.phase = s.phase
  BY <1>4, <1>6 DEF SyncFields
<1>8. \A phase : u(phase).view = t.view /\ u(phase).next = view
  BY <1>4 DEF EnterPhase, SyncFields, IsSync
<1> HIDE DEF u, res
<1>9. NextFollows(w)
  BY <1>7 DEF NextFollows
<1>10. \A phase : NextFollows(u(phase))
  BY <1>5, <1>8 DEF NextFollows
<1> QED
  BY <1>1, <1>9, <1>10 DEF res

FollowsInv ==
  /\ LedInv
  /\ mode = [r \in Correct |-> mode[r]]
  /\ \A r \in Correct : /\ NextFollows(sync[r])
                        /\ mode[r] = "Normal" => sync[r].phase \notin Passing \cup {"Stopping2"}

\* The phase that the ordering protocol is in, and that of its synchronizer.
Fits(s, phase) ==
  NextFollows(s) /\ (phase = "Normal" => s.phase \notin Passing \cup {"Stopping2"})

StaysFit ==
  /\ mode' = [k \in Correct |-> mode'[k]]
  /\ \A k \in Correct : Fits(sync'[k], mode'[k])

LEMMA UpdateFits ==
  ASSUME FollowsInv, NEW r \in Correct, NEW s, NEW newMode, Fits(s, newMode), NEW last, NEW newNet,
         Update(r, s, newMode, last, newNet)
  PROVE  StaysFit
<1>1. /\ \A k \in Correct : sync'[k] = IF k = r THEN s ELSE sync[k]
      /\ \A k \in Correct : mode'[k] = IF k = r THEN newMode ELSE mode[k]
      /\ mode' = [k \in Correct |-> mode'[k]]
  BY DEF Update, FollowsInv, LedInv, AlignedInv
<1>2. ASSUME NEW k \in Correct
      PROVE  Fits(sync'[k], mode'[k])
  <2>1. CASE k = r
    BY <1>1, <2>1
  <2>2. CASE k # r
    <3>1. sync'[k] = sync[k] /\ mode'[k] = mode[k]
      BY <1>1, <2>2
    <3> QED
      BY <3>1 DEF FollowsInv, Fits
  <2> QED
    BY <2>1, <2>2
<1> QED
  BY <1>1, <1>2 DEF StaysFit

\* What the ordering protocol makes of a message its synchronizer has processed.
LEMMA ReportsFit ==
  ASSUME NEW r, NEW s, NEW res, IsSync(res.sync), Reports(res, s), NextFollows(res.sync),
         mode[r] = "Normal" => s.phase \notin Passing \cup {"Stopping2"}
  PROVE  /\ Fits(SignalQueues(res.sync), ModeAfter(r, res.status))
         /\ mode[r] = "Normal" => res.status \in {"Nil", "Running"}
<1> DEFINE t == SignalQueues(res.sync)
           newMode == ModeAfter(r, res.status)
<1>1. t.view = res.sync.view /\ t.next = res.sync.next /\ t.phase = res.sync.phase
  BY SignalQueuesAwake
<1>2. ReportsPhase(res.status, res.sync.phase, s.phase)
  BY DEF Reports
<1>3. newMode = "Normal" => res.sync.phase \notin Passing \cup {"Stopping2"}
  BY <1>2 DEF ReportsPhase, ModeAfter, Passing
<1>4. mode[r] = "Normal" => res.status \in {"Nil", "Running"}
  BY <1>2 DEF ReportsPhase
<1> HIDE DEF t, newMode
<1>5. NextFollows(t)
  BY <1>1 DEF NextFollows
<1> QED
  BY <1>1, <1>3, <1>4, <1>5 DEF Fits, t, newMode

LEMMA AfterPollPhase ==
  ASSUME NEW s, IsSync(s), s.phase = "Init"
  PROVE  AfterPoll(s).phase \notin Passing \cup {"Stopping2"}
<1> DEFINE u == [s EXCEPT !.queue[PolledQueue(s)][1] = Tail(@)]
<1>1. PICK phase \in {"Stopping", "ViewStopping"} : AfterPoll(s) = EnterPhase(u, phase, 0)
  BY DEF AfterPoll
<1>2. u = [field \in SyncFields |-> u[field]]
  BY DEF IsSync
<1> HIDE DEF u
<1>3. AfterPoll(s).phase = phase
  BY <1>1, <1>2 DEF EnterPhase, SyncFields
<1> QED
  BY <1>3 DEF Passing

LEMMA ReceiveFits ==
  ASSUME FollowsInv, NEW r \in Correct, NEW m \in net, NEW o \in Outcomes,
         ReceiveNormal(r, m, o) \/ ReceiveSync(r, m, o)
  PROVE  StaysFit
<1>1. PICK res : res = ProcessMessage(r, sync[r], lastExec[r], m, o.sound, o.empty)
  OBVIOUS
<1>2. IsSync(sync[r]) /\ WithMembers(sync[r]) /\ sync[r].count \in Nat /\ m.view \in Int
  BY DEF FollowsInv, LedInv, AlignedInv, HaveViews, Collecting
<1>3. /\ NextFollows(sync[r])
      /\ mode[r] = "Normal" => sync[r].phase \notin Passing \cup {"Stopping2"}
  BY DEF FollowsInv
<1>4. IsSync(res.sync) /\ Reports(res, sync[r])
  BY <1>1, <1>2, ProcessMessageSync, ProcessMessageReports DEF IsResult
<1>5. NextFollows(res.sync)
  BY <1>1, <1>2, <1>3, ProcessMessageFollows
<1>6. /\ Fits(SignalQueues(res.sync), ModeAfter(r, res.status))
      /\ mode[r] = "Normal" => res.status \in {"Nil", "Running"}
  BY <1>3, <1>4, <1>5, ReportsFit
<1>7. Update(r, SignalQueues(res.sync), ModeAfter(r, res.status), res.last,
             (net \ {m}) \cup res.sends)
  <2>1. CASE ReceiveNormal(r, m, o)
    BY <1>1, <1>6, <2>1 DEF ReceiveNormal
  <2>2. CASE ReceiveSync(r, m, o)
    BY <1>1, <2>2 DEF ReceiveSync
  <2> QED
    BY <2>1, <2>2
<1> QED
  BY <1>6, <1>7, UpdateFits

LEMMA PollMessageFits ==
  ASSUME FollowsInv, NEW r \in Correct, NEW o \in Outcomes, PollMessage(r, o)
  PROVE  StaysFit
<1> DEFINE s == AfterPoll(sync[r])
           m == PolledMessage(sync[r])
<1>1. PICK res : res = ProcessMessage(r, s, lastExec[r], m, o.sound, o.empty)
  OBVIOUS
<1>2. /\ IsSync(sync[r]) /\ WithMembers(sync[r]) /\ Collecting(sync[r])
      /\ CanProcess(sync[r], PolledQueue(sync[r]))
  BY DEF FollowsInv, LedInv, AlignedInv, PollMessage
<1>3. Update(r, SignalQueues(res.sync), ModeAfter(r, res.status), res.last, net \cup res.sends)
  BY <1>1 DEF PollMessage
<1>4. m.view \in Int /\ IsSync(s)
  <2>1. sync[r].view.seq \in Int
    BY <1>2 DEF IsSync
  <2> QED
    BY SMTT(120), <1>2, <2>1, AfterPollSync
<1>5. /\ s.view = sync[r].view /\ s.next = sync[r].next
      /\ sync[r].phase # "Init" => s.phase = sync[r].phase
  BY <1>2, AfterPollReports
<1>6. sync[r].phase = "Init" => s.phase \notin Passing \cup {"Stopping2"}
  BY <1>2, AfterPollPhase
<1>7. s.count \in Nat
  BY <1>2, AfterPollKeeps, KeptCollecting DEF Collecting
<1> HIDE DEF s, m
<1>8. WithMembers(s)
  BY <1>2, <1>5 DEF WithMembers
<1>9. /\ NextFollows(s)
      /\ mode[r] = "Normal" => s.phase \notin Passing \cup {"Stopping2"}
  <2>1. /\ NextFollows(sync[r])
        /\ mode[r] = "Normal" => sync[r].phase \notin Passing \cup {"Stopping2"}
    BY DEF FollowsInv
  <2> QED
    BY <1>5, <1>6, <2>1 DEF NextFollows
<1>10. IsSync(res.sync) /\ Reports(res, s)
  BY <1>1, <1>4, <1>8, ProcessMessageSync, ProcessMessageReports DEF IsResult
<1>11. NextFollows(res.sync)
  BY <1>1, <1>4, <1>7, <1>9, ProcessMessageFollows
<1>12. Fits(SignalQueues(res.sync), ModeAfter(r, res.status))
  BY <1>9, <1>10, <1>11, ReportsFit
<1> QED
  BY <1>3, <1>12, UpdateFits

\* The other steps of poll(), and a message that is queued off context.
LEMMA PollFits ==
  ASSUME FollowsInv, NEW r \in Correct,
         PollNothing(r) \/ PollResume(r) \/ \E m \in net : QueueOffContext(r, m)
  PROVE  StaysFit
<1>0. IsSync(sync[r]) /\ WithMembers(sync[r]) /\ Fits(sync[r], mode[r])
  BY DEF FollowsInv, LedInv, AlignedInv, Fits
<1>1. CASE PollNothing(r)
  <2> DEFINE t == [sync[r] EXCEPT !.signalled = FALSE]
  <2>1. Update(r, t, mode[r], lastExec[r], net)
    BY <1>1 DEF PollNothing
  <2>2. t.view = sync[r].view /\ t.next = sync[r].next /\ t.phase = sync[r].phase
    BY <1>0 DEF IsSync, SyncFields
  <2> HIDE DEF t
  <2>3. Fits(t, mode[r])
    BY <1>0, <2>2 DEF Fits, NextFollows
  <2> QED
    BY <2>1, <2>3, UpdateFits
<1>2. CASE PollResume(r)
  <2>1. PICK res : res = ResumeViewChange(sync[r], lastExec[r])
    OBVIOUS
  <2>2. sync[r].phase = "SyncingState" /\ Update(r, res.sync, "Normal", res.last, net \cup res.sends)
    BY <1>2, <2>1 DEF PollResume
  <2>3. res.sync.phase \in {"Init", "SyncingState", "Panicked"}
    BY <1>0, <2>1, <2>2, ResumeViewChangeReports
  <2>4. res.sync.phase \notin Passing \cup {"Stopping2"}
    BY <2>3 DEF Passing
  <2>5. Fits(res.sync, "Normal")
    BY <2>4 DEF Fits, NextFollows
  <2> QED
    BY <2>2, <2>5, UpdateFits
<1>3. ASSUME NEW m \in net, QueueOffContext(r, m)
      PROVE  StaysFit
  <2> DEFINE s == SyncQueue(sync[r], m)
  <2>1. IsSync(sync[r]) /\ m.view \in Int
    BY <1>0 DEF FollowsInv, LedInv, AlignedInv, HaveViews
  <2>2. IsSync(s) /\ s.view = sync[r].view /\ s.next = sync[r].next /\ s.phase = sync[r].phase
    BY <1>0, <2>1, SyncQueueSync, SyncQueueReports
  <2>3. Update(r, SignalQueues(s), mode[r], lastExec[r], net \ {m})
    BY <1>3 DEF QueueOffContext
  <2> HIDE DEF s
  <2>4. /\ SignalQueues(s).view = s.view /\ SignalQueues(s).next = s.next
        /\ SignalQueues(s).phase = s.phase
    BY <2>2, SignalQueuesAwake
  <2>5. Fits(SignalQueues(s), mode[r])
    BY <1>0, <2>2, <2>4 DEF Fits, NextFollows
  <2> QED
    BY <2>3, <2>5, UpdateFits
<1> QED
  BY <1>1, <1>2, <1>3

\* What the timers, the reconfiguration protocol and the state transfer begin.
LEMMA BeginFits ==
  ASSUME FollowsInv, NEW r \in Correct,
         \/ Timeout(r)
         \/ \E j \in JoinRequests : AttemptQuorumNodeJoin(r, j.node)
         \/ JoiningQuorum(r)
         \/ \E i \in InstallViews : InstallView(r, i.seq)
  PROVE  StaysFit
<1>0. IsSync(sync[r]) /\ WithMembers(sync[r]) /\ Fits(sync[r], mode[r])
  BY DEF FollowsInv, LedInv, AlignedInv, Fits
<1>1. CASE Timeout(r)
  <2>1. PICK res : res = BeginViewChange(r, sync[r], lastExec[r])
    OBVIOUS
  <2>2. Update(r, res.sync, "Sync", res.last, net \cup res.sends)
    BY <1>1, <2>1 DEF Timeout
  <2>3. /\ Starts(sync[r], res.sync)
        /\ res.sync.phase = IF sync[r].phase \in Passing THEN sync[r].phase ELSE "Stopping2"
    BY <1>0, <2>1, BeginViewChangeReports
  <2>4. res.sync.phase \in Passing => sync[r].phase \in Passing
    BY <2>3 DEF Passing
  <2>5. NextFollows(res.sync)
    BY <1>0, <2>3, <2>4 DEF Fits, NextFollows, Starts
  <2>6. Fits(res.sync, "Sync")
    BY <2>5 DEF Fits
  <2> QED
    BY <2>2, <2>6, UpdateFits
<1>2. ASSUME NEW j \in JoinRequests, AttemptQuorumNodeJoin(r, j.node)
      PROVE  StaysFit
  <2>1. PICK res : res = StartJoinQuorum(r, sync[r], j.node, lastExec[r])
    OBVIOUS
  <2>2. Update(r, res.sync, mode[r], res.last, net \cup res.sends)
    BY <1>2, <2>1 DEF AttemptQuorumNodeJoin
  <2>3. /\ Starts(sync[r], res.sync)
        /\ res.sync.phase = sync[r].phase \/ res.sync.phase = "ViewStopping2"
    BY SMTT(120), <1>0, <2>1, StartJoinQuorumReports
  <2>4. "ViewStopping2" \notin Passing \cup {"Stopping2"}
    BY DEF Passing
  <2>5. Fits(res.sync, mode[r])
    BY <1>0, <2>3, <2>4 DEF Fits, NextFollows, Starts
  <2> QED
    BY <2>2, <2>5, UpdateFits
<1>3. CASE JoiningQuorum(r)
  <2>1. Update(r, AttemptJoinQuorum(r, sync[r]), "Sync", lastExec[r], net)
    BY <1>3 DEF JoiningQuorum
  <2>2. NextFollows(AttemptJoinQuorum(r, sync[r]))
    BY <1>0, AttemptJoinQuorumFollows
  <2>3. Fits(AttemptJoinQuorum(r, sync[r]), "Sync")
    BY <2>2 DEF Fits
  <2> QED
    BY <2>1, <2>3, UpdateFits
<1>4. ASSUME NEW i \in InstallViews, InstallView(r, i.seq)
      PROVE  StaysFit
  <2>1. PICK view : view = Peek(sync[r].view, i.seq)
    OBVIOUS
  <2>2. view.seq \in Int /\ view.seq > sync[r].view.seq
    <3>1. view.seq = i.seq /\ i.seq \in Int
      BY SMTT(120), <2>1, ViewChangeAssumption DEF Peek, NewViewInfo
    <3>2. i.seq > sync[r].view.seq
      BY <1>4 DEF InstallView
    <3> QED
      BY <3>1, <3>2
  <2>3. HasMembers(view)
    BY <1>0, <2>1, PeekMembers DEF WithMembers
  <2>4. sync[r].phase \notin Passing
    <3>1. sync[r].phase \in {"Init", "SyncingState"}
      BY <1>4, ViewChangeAssumption DEF InstallView
    <3> QED
      BY <3>1 DEF Passing
  <2> DEFINE runs == RunsAfterReceiving(r, sync[r], view)
             newMode == IF runs THEN "Sync" ELSE mode[r]
  <2>5. PICK t : t = ReceiveView(r, sync[r], view) /\ Update(r, t, newMode, lastExec[r], net)
    BY <1>4, <2>1 DEF InstallView
  <2>6. Receives(sync[r], t, runs)
    BY <1>0, <2>2, <2>3, <2>5, ReceiveViewAwake
  <2>7. NextFollows(t)
    BY <1>0, <2>2, <2>4, <2>5, ReceiveViewFollows
  <2>8. Fits(t, newMode)
    <3> HIDE DEF runs
    <3>1. CASE runs
      BY <2>7, <3>1 DEF Fits
    <3>2. CASE ~ runs
      BY <1>0, <2>6, <2>7, <3>2 DEF Fits, Receives
    <3> QED
      BY <3>1, <3>2
  <2> HIDE DEF newMode
  <2> QED
    BY <2>5, <2>8, UpdateFits
<1> QED
  BY <1>1, <1>2, <1>3, <1>4

LEMMA NextFits ==
  ASSUME FollowsInv, [Next]_vars
  PROVE  FollowsInv'
<1>1. ASSUME UNCHANGED vars
      PROVE  StaysFit
  <2>1. sync' = sync /\ mode' = mode
    BY <1>1 DEF vars
  <2> QED
    BY <2>1 DEF FollowsInv, StaysFit, Fits
<1>2. StaysFit
  BY <1>1, ReceiveFits, PollMessageFits, PollFits, BeginFits DEF Next, Step
<1>3. LedInv'
  BY NextLed DEF FollowsInv
<1> QED
  BY <1>2, <1>3 DEF FollowsInv, StaysFit, Fits, NextFollows

(***************************************************************************)
(* The ordering protocol and its synchronizer never disagree about where a *)
(* view change is: the normal phase, which does not expect one to finish,  *)
(* goes with no phase of the synchronizer that can finish one, and the     *)
(* view that is changed to is the one after the current view.  It holds    *)
(* whichever nodes join and whatever views a state transfer brings.        *)
(***************************************************************************)
THEOREM PhasesAgreeHolds == Spec => []PhasesAgree
<1>1. Init => FollowsInv
  <2> SUFFICES ASSUME Init PROVE FollowsInv
    OBVIOUS
  <2>1. LedInv
    BY InitLed
  <2>2. /\ mode = [r \in Correct |-> "Normal"]
        /\ \A r \in Correct : sync[r].phase = "Init"
    BY DEF Init, InitSync
  <2>3. "Init" \notin Passing \cup {"Stopping2"}
    BY DEF Passing
  <2> QED
    BY <2>1, <2>2, <2>3 DEF FollowsInv, NextFollows
<1>2. FollowsInv /\ [Next]_vars => FollowsInv'
  BY NextFits
<1>3. FollowsInv => PhasesAgree
  BY DEF FollowsInv, PhasesAgree, NextFollows, Passing
<1> QED
  BY <1>1, <1>2, <1>3, PTL DEF Spec
=============================================================================
