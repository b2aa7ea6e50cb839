---------------------------- MODULE Synchronizer ----------------------------
(***************************************************************************)
(* The Synchronizer of one replica, which runs the view change protocol:   *)
(* STOP (or STOP-QUORUM-JOIN, when a node is to be added), then STOP-DATA  *)
(* to the new leader, then the leader's SYNC.  The module has no variables *)
(* (module ViewChange has them); it defines the operations on a record s   *)
(* with fields                                                             *)
(*   view, next   the current view, and the one being changed to           *)
(*   phase, count the ProtoPhase and the messages it has counted           *)
(*   stopped      the STOP messages counted                                *)
(*   adding       [node, voter] pairs: who voted to add which node         *)
(*   addingNode   the node the change being made adds, if any              *)
(*   collects     the STOP-DATA messages counted                           *)
(*   queue        stop, stopData and sync messages for views view + 1,     *)
(*                view + 2, ... (the TboQueue)                             *)
(*   signalled    get_queue: is it worth looking into the queues?          *)
(*   finalizing   what to resume once the state transfer is over           *)
(*                                                                         *)
(* Of a STOP the model keeps a number for the requests it carries: that of *)
(* a correct replica is 0.                                                 *)
(*                                                                         *)
(* Of a SYNC the model keeps the last proof among its collects, whether    *)
(* they are sound and whether the proposed batch is empty.  The phase      *)
(* "Panicked" stands for unreachable!() and todo!(): the process ends.     *)
(***************************************************************************)
EXTENDS ViewInfo, TboQueues, FiniteSets

NoView == NewViewInfo(-1, 0)

NoNode == -1

\* The last decision of a log without decisions, and no proof.
NoDecision == -1

NoState == [proof |-> NoDecision, sound |-> FALSE, empty |-> FALSE]

\* unwrap_or(SeqNo::ZERO): having no decision counts as having decided 0.
OrZero(seq) == IF seq = NoDecision THEN 0 ELSE seq

StopKinds == {"Stop", "StopQuorumJoin"}

InitSync(view) ==
  [view |-> view, next |-> NoView, phase |-> "Init", count |-> 0, stopped |-> {},
   adding |-> {}, addingNode |-> NoNode, collects |-> {},
   queue |-> [stop |-> << >>, stopData |-> << >>, sync |-> << >>],
   signalled |-> FALSE, finalizing |-> NoState]

Panic(s) == [s EXCEPT !.phase = "Panicked"]

\* Mutant of SignalQueues: get_queue is not raised.
SignalQueuesNot(s) == s

SignalQueues(s) == [s EXCEPT !.signalled = TRUE]

EnterPhase(s, phase, count) == [s EXCEPT !.phase = phase, !.count = count]

-----------------------------------------------------------------------------
(***************************************************************************)
(* The TboQueue.                                                           *)
(***************************************************************************)
QueueFor(m) == CASE m.kind \in StopKinds  -> "stop"
                 [] m.kind = "StopData" -> "stopData"
                 [] OTHER               -> "sync"

\* A message of the current view or an older one is dropped.
SyncQueue(s, m) ==
  IF m.view <= s.view.seq THEN s
    ELSE [s EXCEPT !.queue[QueueFor(m)] = Put(@, m.view - s.view.seq, m)]

CanProcess(s, q) == Len(s.queue[q]) > 0 /\ s.queue[q][1] # << >>

\* Mutant of InstallInTbo: the queues stay where they are.
InstallInTboKeepingQueues(s, view) ==
  IF view.seq <= s.view.seq THEN s ELSE [s EXCEPT !.view = view]

\* The view is replaced by a later one and the queues move with it; the view
\* in place stays when it is asked for again.
InstallInTbo(s, view) ==
  IF view.seq <= s.view.seq THEN s
    ELSE [s EXCEPT !.view  = view,
                   !.queue = [q \in DOMAIN @ |-> DropQueues(@[q], view.seq - s.view.seq)]]

GoesBack(s) == s.next # NoView /\ s.next.seq < s.view.seq

AdvanceView(s) ==
  IF s.next = NoView THEN s ELSE [InstallInTbo(s, s.next) EXCEPT !.next = NoView]

-----------------------------------------------------------------------------
(***************************************************************************)
(* What processing a message amounts to: the synchronizer it leaves, the   *)
(* status it reports, the messages it sends and the last decision of the   *)
(* log.                                                                    *)
(***************************************************************************)
Result(s, status, sends, last) ==
  [sync |-> s, status |-> status, sends |-> sends, last |-> last]

MembersOf(view) == {view.members[i] : i \in DOMAIN view.members}

Stops(self, s) ==
  {[kind |-> "Stop", from |-> self, to |-> r, view |-> s.view.seq + 1, rqs |-> 0]
     : r \in MembersOf(s.view)}

JoinStops(self, s, node) ==
  {[kind |-> "StopQuorumJoin", from |-> self, to |-> r, view |-> s.view.seq + 1, node |-> node]
     : r \in MembersOf(s.view)}

\* Mutant of Syncs: the SYNC also goes to nodes outside the new view.
SyncsToEverybody(self, view, state) ==
  {[kind |-> "Sync", from |-> self, to |-> r, view |-> view.seq, proof |-> state.proof,
    sound |-> state.sound, empty |-> state.empty] : r \in (0..9) \ {self}}

Syncs(self, view, state) ==
  {[kind |-> "Sync", from |-> self, to |-> r, view |-> view.seq, proof |-> state.proof,
    sound |-> state.sound, empty |-> state.empty] : r \in MembersOf(view) \ {self}}

StopStatus(s) == IF s.count > NumFaulty(s.view) THEN "Running" ELSE "Nil"

\* handle_stopping_quorum() and what follows it: the STOPs are taken, the
\* STOP-DATA goes to the leader of the view that is next.
StoppingQuorum(self, s, next, last) ==
  LET phase == IF Leader(next) = self THEN "StoppingData" ELSE "Syncing"
  IN  Result(EnterPhase([s EXCEPT !.next = next, !.stopped = {}], phase, 0), "Running",
             {[kind |-> "StopData", from |-> self, to |-> Leader(next), view |-> next.seq,
               proof |-> last]},
             last)

\* Mutant of ProcessStop: a replica joins the others one STOP too late.
ProcessStopLate(self, s, last, m) ==
  LET t == [s EXCEPT !.stopped = @ \cup {m}, !.count = @ + 1]
  IN  CASE s.phase = "Stopping" /\ t.count > NumFaulty(s.view) + 1 ->
             Result([t EXCEPT !.phase = "Stopping2"], "Running", Stops(self, s), last)
        [] s.phase = "Stopping" /\ t.count <= NumFaulty(s.view) + 1 ->
             Result(t, "Nil", {}, last)
        [] s.phase = "Stopping2" /\ t.count >= QuorumSize(s.view) ->
             StoppingQuorum(self, t, NextView(s.view), last)
        [] s.phase = "Stopping2" /\ t.count < QuorumSize(s.view) ->
             Result(t, "Running", {}, last)

\* Mutant of ProcessStop: a quorum of STOPs does not end the phase.
ProcessStopForever(self, s, last, m) ==
  LET t == [s EXCEPT !.stopped = @ \cup {m}, !.count = @ + 1]
  IN  IF s.phase = "Stopping" /\ t.count > NumFaulty(s.view)
        THEN Result([t EXCEPT !.phase = "Stopping2"], "Running", Stops(self, s), last)
        ELSE Result(t, "Running", {}, last)

\* A replica that has not stopped yet does so once f + 1 others have.
ProcessStop(self, s, last, m) ==
  LET t == [s EXCEPT !.stopped = @ \cup {m}, !.count = @ + 1]
  IN  CASE s.phase = "Stopping" /\ t.count > NumFaulty(s.view) ->
             Result([t EXCEPT !.phase = "Stopping2"], "Running", Stops(self, s), last)
        [] s.phase = "Stopping2" /\ t.count >= QuorumSize(s.view) ->
             StoppingQuorum(self, t, NextView(s.view), last)
        [] OTHER -> Result(t, IF s.phase = "Stopping" THEN "Nil" ELSE "Running", {}, last)

\* Mutant of HasStopped: STOPs are not told apart by their sender.
HasStoppedIgnored(s, node) == FALSE

HasStopped(s, node) == \E m \in s.stopped : m.from = node

ForNextChange(s, m) == m.view = s.view.seq + 1

ProcessStopping(self, s, last, m) ==
  CASE m.kind \in {"StopData", "Sync"} \/ ~ ForNextChange(s, m) ->
         Result(SyncQueue(s, m), StopStatus(s), {}, last)
    [] m.kind = "StopQuorumJoin" /\ ForNextChange(s, m) ->
         Result(s, StopStatus(s), {}, last)
    [] OTHER ->
         IF HasStopped(s, m.from) THEN Result(s, StopStatus(s), {}, last)
                                  ELSE ProcessStop(self, s, last, m)

-----------------------------------------------------------------------------
(***************************************************************************)
(* Adding a node.                                                          *)
(***************************************************************************)
VotersFor(s, node) == {p.voter : p \in {q \in s.adding : q.node = node}}

\* The node with the most votes, the smallest of several.
MostVoted(s) ==
  LET nodes  == {p.node : p \in s.adding}
      votes(n) == Cardinality(VotersFor(s, n))
  IN  CHOOSE n \in nodes : \A k \in nodes :
        votes(k) < votes(n) \/ (votes(k) = votes(n) /\ n <= k)

\* Mutant of HasJoinQuorum: the messages are counted, not the voters.
HasJoinQuorumOfMessages(s) == s.count >= QuorumSize(s.view)

HasJoinQuorum(s) == Cardinality(VotersFor(s, MostVoted(s))) >= QuorumSize(s.view)

ProcessJoin(self, s, last, m) ==
  LET t == [s EXCEPT !.adding = @ \cup {[node |-> m.node, voter |-> m.from]}, !.count = @ + 1]
  IN  CASE t.count < QuorumSize(s.view) ->
             Result([t EXCEPT !.phase = "ViewStopping2"], "Running", {}, last)
        [] t.count >= QuorumSize(s.view) /\ HasJoinQuorum(t) ->
             StoppingQuorum(self, [t EXCEPT !.addingNode = m.node],
                            NextViewWithNewNode(s.view, MostVoted(t)), last)
        [] OTHER ->
             Result(IF t.count >= Len(s.view.members) THEN Panic(t)
                      ELSE [t EXCEPT !.phase = "ViewStopping"],
                    "Running", {}, last)

\* A STOP takes precedence over the node to be added.
ProcessViewStopping(self, s, last, m) ==
  CASE m.kind \in {"StopData", "Sync"} \/ ~ ForNextChange(s, m) ->
         Result(SyncQueue(s, m), StopStatus(s), {}, last)
    [] m.kind = "Stop" /\ ForNextChange(s, m) ->
         Result(EnterPhase(SyncQueue(s, m), "Stopping", 0), "Running", {}, last)
    [] OTHER -> ProcessJoin(self, s, last, m)

-----------------------------------------------------------------------------
(***************************************************************************)
(* Finishing a view change.                                                *)
(***************************************************************************)
\* Mutant of NeedsTransfer: off by one, a single decision is transferred too.
NeedsTransferOfOne(last, proof) == OrZero(last) + 1 <= OrZero(proof)

\* More than one decision is missing.
NeedsTransfer(last, proof) == OrZero(last) + 1 < OrZero(proof)

\* The decision that is missing is the one the proof is for.
CatchesUp(last, proof) == OrZero(last) + 1 = OrZero(proof)

\* pre_finalize() and finalize(): proof is what pre_finalize() is given.
Finalize(s, last, state, proof, sends) ==
  CASE NeedsTransfer(last, proof) ->
         Result([s EXCEPT !.finalizing = state, !.phase = "SyncingState"], "RunCst", sends, last)
    [] ~ NeedsTransfer(last, proof) /\ state.empty /\ ~ state.sound ->
         Result(s, "Running", sends, last)
    [] OTHER ->
         IF GoesBack(s) THEN Result(Panic(s), "Running", sends, last)
           ELSE Result([EnterPhase(AdvanceView(s), "Init", 0) EXCEPT
                          !.adding = IF s.addingNode = NoNode THEN @ ELSE {},
                          !.addingNode = NoNode],
                       "NewView", sends,
                       IF CatchesUp(last, state.proof) /\ last # NoDecision
                         THEN state.proof ELSE last)

HighestProof(collects) ==
  CHOOSE p \in {m.proof : m \in collects} : \A m \in collects : m.proof <= p

HasCollected(s, node) == \E m \in s.collects : m.from = node

\* The leader to be collects the STOP-DATA.  Sound and empty are what it finds
\* of the collects and of its pending requests.
ProcessStoppingData(self, s, last, m, sound, empty) ==
  LET t     == [s EXCEPT !.collects = @ \cup {m}]
      state == [proof |-> HighestProof(t.collects), sound |-> sound, empty |-> empty]
  IN  CASE m.kind # "StopData" -> Result(SyncQueue(s, m), "Running", {}, last)
        [] m.kind = "StopData" /\ m.view # s.next.seq ->
             Result(IF Leader(Peek(s.next, m.view)) = self THEN SyncQueue(s, m) ELSE s,
                    "Running", {}, last)
        [] m.kind = "StopData" /\ m.view = s.next.seq
             /\ (Leader(s.next) # self \/ HasCollected(s, m.from)) ->
             Result(s, "Running", {}, last)
        [] OTHER ->
             IF s.count + 1 < QuorumSize(s.next)
               THEN Result([t EXCEPT !.count = @ + 1], "Running", {}, last)
               ELSE Finalize(t, last, state, state.proof, Syncs(self, s.next, state))

\* Mutant of FromLeader: anybody's SYNC is taken.
FromAnyone(s, m) == TRUE

FromLeader(s, m) == m.from = Leader(s.next)

ProcessSyncing(s, last, m) ==
  CASE m.kind # "Sync" \/ m.view # s.next.seq -> Result(SyncQueue(s, m), "Running", {}, last)
    [] OTHER ->
         IF FromLeader(s, m)
           THEN Finalize(s, last, [proof |-> m.proof, sound |-> m.sound, empty |-> m.empty],
                         m.proof, {})
           ELSE Result(s, "Running", {}, last)

ProcessMessage(self, s, last, m, sound, empty) ==
  CASE s.phase = "Init"                              -> Result(SyncQueue(s, m), "Nil", {}, last)
    [] s.phase \in {"Stopping", "Stopping2"}         -> ProcessStopping(self, s, last, m)
    [] s.phase \in {"ViewStopping", "ViewStopping2"} -> ProcessViewStopping(self, s, last, m)
    [] s.phase = "StoppingData" -> ProcessStoppingData(self, s, last, m, sound, empty)
    [] s.phase = "Syncing"      -> ProcessSyncing(s, last, m)
    [] OTHER                    -> Result(Panic(s), "Running", {}, last)

\* Mutant of ResumeViewChange: the proof is compared with the log once more.
ResumeViewChangeAgain(s, last) ==
  IF s.finalizing = NoState THEN Result(s, "Nil", {}, last)
    ELSE Finalize([s EXCEPT !.finalizing = NoState], last, s.finalizing, s.finalizing.proof, {})

ResumeViewChange(s, last) ==
  IF s.finalizing = NoState THEN Result(s, "Nil", {}, last)
    ELSE Finalize([s EXCEPT !.finalizing = NoState], last, s.finalizing, NoDecision, {})

-----------------------------------------------------------------------------
(***************************************************************************)
(* poll(): the queue it looks into.                                        *)
(***************************************************************************)
PolledQueue(s) == CASE s.phase = "StoppingData" -> "stopData"
                    [] s.phase = "Syncing"      -> "sync"
                    [] OTHER                    -> "stop"

PolledMessage(s) == Head(s.queue[PolledQueue(s)][1])

\* The message has been extracted; the first STOP starts the protocol.
AfterPoll(s) ==
  LET t == [s EXCEPT !.queue[PolledQueue(s)][1] = Tail(@)]
  IN  IF s.phase # "Init" THEN t
        ELSE EnterPhase(t, IF PolledMessage(s).kind = "StopQuorumJoin" THEN "ViewStopping"
                                                                       ELSE "Stopping", 0)

(***************************************************************************)
(* What starts a view change locally.                                      *)
(***************************************************************************)
ClearState(s) ==
  [s EXCEPT !.stopped = {}, !.collects = {}, !.adding = {}, !.addingNode = NoNode]

\* begin_view_change() after requests have timed out.
BeginViewChange(self, s, last) ==
  CASE s.phase = "Stopping" ->
         Result([s EXCEPT !.phase = "Stopping2"], "Running", Stops(self, s), last)
    [] s.phase \in {"ViewStopping", "ViewStopping2"} ->
         Result(EnterPhase(s, "Stopping2", 0), "Running", Stops(self, s), last)
    [] s.phase \in {"Stopping2", "StoppingData", "Syncing"} -> Result(s, "Running", {}, last)
    [] OTHER ->
         Result(EnterPhase(ClearState(s), "Stopping2", 0), "Running", Stops(self, s), last)

\* start_join_quorum(): only a replica that is not changing views takes part.
StartJoinQuorum(self, s, node, last) ==
  IF IsMember(s.view, node) \/ s.phase # "Init" THEN Result(s, "Nil", {}, last)
    ELSE Result(EnterPhase(ClearState(s), "ViewStopping2", 0), "Nil", JoinStops(self, s, node), last)

\* attempt_join_quorum(): a node outside the quorum awaits the change adding it.
AttemptJoinQuorum(self, s) ==
  LET next == NextViewWithNewNode(s.view, self)
  IN  EnterPhase([s EXCEPT !.next = next, !.addingNode = self],
                 IF Leader(next) = self THEN "StoppingData" ELSE "Syncing", 0)

\* received_view_from_state_transfer(): the view is installed, unless there are
\* messages with which the change to it can still be run.
ReceiveView(self, s, view) ==
  LET t == InstallInTbo(s, PreviousView(view))
  IN  CASE Leader(view) = self /\ CanProcess(t, "stopData") ->
             [EnterPhase(t, "StoppingData", 0) EXCEPT !.next = view]
        [] ~ (Leader(view) = self /\ CanProcess(t, "stopData")) /\ CanProcess(t, "sync") ->
             [EnterPhase(t, "Syncing", 0) EXCEPT !.next = view]
        [] OTHER -> InstallInTbo(t, view)

RunsAfterReceiving(self, s, view) ==
  LET t == InstallInTbo(s, PreviousView(view))
  IN  (Leader(view) = self /\ CanProcess(t, "stopData")) \/ CanProcess(t, "sync")
=============================================================================
