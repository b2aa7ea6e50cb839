----------------------------- MODULE ViewChange -----------------------------
(***************************************************************************)
(* The view change protocol: the synchronizers of the replicas in Correct, *)
(* each driven by the poll() / process_message() loop of its               *)
(* PBFTOrderProtocol, which is either in its normal or in its sync phase.  *)
(* The other nodes send the messages of PeerSends and nothing else; with a *)
(* single replica in Correct the module is the model of one synchronizer.  *)
(*                                                                         *)
(* Consensus (module Consensus) is left out: all that matters of it here   *)
(* is the last decision of a replica's log.                                *)
(***************************************************************************)
EXTENDS Synchronizer

CONSTANTS
  Correct,       \* the replicas modelled
  Members,       \* the members of the first view, in order
  MaxView,       \* requests time out, and views are installed, before this view
  TimesOut,      \* the replicas whose requests time out
  JoinRequests,  \* [at, node]: at is told, by reconfiguration, to add the node
  PeerSends,     \* sets of messages, one of which the other nodes send
  InitialLog,    \* last decision of each replica's log at the start
  Outcomes,      \* [sound, empty] a new leader may find
  InstallViews   \* [phase, seq]: views a state transfer may install, and when

VARIABLES
  sync,          \* the synchronizer of each replica
  mode,          \* its ConsensusPhase: "Normal" or "Sync"
  lastExec,      \* last decision of its log
  net            \* messages in flight

vars == <<sync, mode, lastExec, net>>

Phases == {"Init", "Stopping", "Stopping2", "ViewStopping", "ViewStopping2",
           "StoppingData", "Syncing", "SyncingState", "Panicked"}

ASSUME ViewChangeAssumption ==
  /\ Correct \subseteq Nat /\ IsFiniteSet(Correct)
  /\ Members \in Seq(Nat) /\ Len(Members) > 0
  /\ MaxView \in Nat /\ TimesOut \subseteq Correct
  /\ JoinRequests \subseteq [at : Correct, node : Nat]
  /\ \A j \in JoinRequests : j.at # j.node
  /\ \A m \in UNION PeerSends : m.from \notin Correct /\ m.to \in Correct /\ m.view \in Nat
  /\ InitialLog \in [Correct -> Nat \cup {NoDecision}]
  /\ Outcomes \subseteq [sound : BOOLEAN, empty : BOOLEAN]
  /\ InstallViews \subseteq [phase : {"Init", "SyncingState"}, seq : Nat]

Init ==
  /\ sync = [r \in Correct |-> InitSync(FromQuorum(0, Members))]
  /\ mode = [r \in Correct |-> "Normal"]
  /\ lastExec = InitialLog
  /\ net \in PeerSends

Runs(r) == sync[r].phase # "Panicked"

Update(r, s, newMode, last, newNet) ==
  /\ sync' = [sync EXCEPT ![r] = s]
  /\ mode' = [mode EXCEPT ![r] = newMode]
  /\ lastExec' = [lastExec EXCEPT ![r] = last]
  /\ net' = {m \in newNet : m.to \in Correct}

\* Mutant of ModeAfter: a running view change does not end the normal phase.
ModeAfterStaying(r, status) ==
  CASE status = "RunCst"            -> "Sync"
    [] status = "NewView"           -> "Normal"
    [] status \in {"Nil", "Running"} -> mode[r]

\* The phase of the ordering protocol after a status of the synchronizer.
ModeAfter(r, status) ==
  CASE status \in {"Running", "RunCst"} -> "Sync"
    [] status = "NewView"               -> "Normal"
    [] status = "Nil"                   -> mode[r]

(***************************************************************************)
(* poll() has nothing left to do, and a message is received.               *)
(***************************************************************************)
WaitsForMessage(r) ==
  \/ mode[r] = "Normal" /\ ~ CanProcess(sync[r], "stop")
  \/ mode[r] = "Sync" /\ ~ sync[r].signalled

\* update_normal_phase() does not expect a view change to be finished or to
\* need a state transfer.
ReceiveNormal(r, m, o) ==
  LET res == ProcessMessage(r, sync[r], lastExec[r], m, o.sound, o.empty)
  IN  /\ Runs(r) /\ WaitsForMessage(r) /\ mode[r] = "Normal"
      /\ m \in net /\ m.to = r
      /\ Update(r,
           IF res.status \in {"Nil", "Running"} THEN SignalQueues(res.sync) ELSE Panic(res.sync),
           ModeAfter(r, res.status), res.last, (net \ {m}) \cup res.sends)

ReceiveSync(r, m, o) ==
  LET res == ProcessMessage(r, sync[r], lastExec[r], m, o.sound, o.empty)
  IN  /\ Runs(r) /\ WaitsForMessage(r) /\ mode[r] = "Sync"
      /\ m \in net /\ m.to = r
      /\ Update(r, SignalQueues(res.sync), ModeAfter(r, res.status), res.last,
                (net \ {m}) \cup res.sends)

\* A message that arrives while the ordering protocol does not run.
QueueOffContext(r, m) ==
  /\ Runs(r) /\ sync[r].phase = "SyncingState"
  /\ m \in net /\ m.to = r
  /\ Update(r, SignalQueues(SyncQueue(sync[r], m)), mode[r], lastExec[r], net \ {m})

(***************************************************************************)
(* poll() looks into the queues of the synchronizer: in the normal phase   *)
(* while there are STOPs, in the sync phase while it is signalled.         *)
(***************************************************************************)
Polls(r) ==
  /\ Runs(r) /\ sync[r].signalled
  /\ mode[r] = "Normal" => CanProcess(sync[r], "stop")

\* Mutant of PollMessage: processing a queued message signals nothing.
PollMessageUnsignalled(r, o) ==
  LET s   == sync[r]
      res == ProcessMessage(r, AfterPoll(s), lastExec[r], PolledMessage(s), o.sound, o.empty)
  IN  /\ Polls(r) /\ s.phase # "SyncingState"
      /\ CanProcess(s, PolledQueue(s))
      /\ Update(r, [res.sync EXCEPT !.signalled = FALSE], ModeAfter(r, res.status), res.last,
                net \cup res.sends)

PollMessage(r, o) ==
  LET s   == sync[r]
      res == ProcessMessage(r, AfterPoll(s), lastExec[r], PolledMessage(s), o.sound, o.empty)
  IN  /\ Polls(r) /\ s.phase # "SyncingState"
      /\ CanProcess(s, PolledQueue(s))
      /\ Update(r, SignalQueues(res.sync), ModeAfter(r, res.status), res.last, net \cup res.sends)

PollNothing(r) ==
  /\ Polls(r) /\ sync[r].phase # "SyncingState"
  /\ ~ CanProcess(sync[r], PolledQueue(sync[r]))
  /\ Update(r, [sync[r] EXCEPT !.signalled = FALSE], mode[r], lastExec[r], net)

\* The state transfer is over.  It does not touch the log.
PollResume(r) ==
  LET res == ResumeViewChange(sync[r], lastExec[r])
  IN  /\ Polls(r) /\ sync[r].phase = "SyncingState"
      /\ Update(r, res.sync, "Normal", res.last, net \cup res.sends)

(***************************************************************************)
(* Requests have timed out for the second time.                            *)
(***************************************************************************)
Timeout(r) ==
  LET res == BeginViewChange(r, sync[r], lastExec[r])
  IN  /\ Runs(r) /\ r \in TimesOut /\ sync[r].view.seq < MaxView
      /\ Update(r, res.sync, "Sync", res.last, net \cup res.sends)

(***************************************************************************)
(* The reconfiguration protocol: a member is told to add a node, and the   *)
(* node is told that it may join.                                          *)
(***************************************************************************)
AttemptQuorumNodeJoin(r, node) ==
  LET res == StartJoinQuorum(r, sync[r], node, lastExec[r])
  IN  /\ Runs(r) /\ [at |-> r, node |-> node] \in JoinRequests
      /\ Update(r, res.sync, mode[r], res.last, net \cup res.sends)

JoiningQuorum(r) ==
  /\ Runs(r) /\ \E j \in JoinRequests : j.node = r
  /\ ~ IsMember(sync[r].view, r) /\ ~ IsMember(sync[r].next, r)
  /\ Update(r, AttemptJoinQuorum(r, sync[r]), "Sync", lastExec[r], net)

\* A later view arrives with a state transfer: the one a view change has asked
\* for, or that of a replica that starts.
InstallView(r, seq) ==
  LET view == Peek(sync[r].view, seq)
  IN  /\ Runs(r) /\ [phase |-> sync[r].phase, seq |-> seq] \in InstallViews
      /\ seq > sync[r].view.seq
      /\ Update(r, ReceiveView(r, sync[r], view),
                IF RunsAfterReceiving(r, sync[r], view) THEN "Sync" ELSE mode[r],
                lastExec[r], net)

Step(r) ==
  \/ \E m \in net, o \in Outcomes : ReceiveNormal(r, m, o) \/ ReceiveSync(r, m, o)
  \/ \E o \in Outcomes : PollMessage(r, o)
  \/ PollNothing(r)
  \/ PollResume(r)

Next ==
  \E r \in Correct :
    \/ Step(r)
    \/ \E m \in net : QueueOffContext(r, m)
    \/ Timeout(r)
    \/ \E j \in JoinRequests : AttemptQuorumNodeJoin(r, j.node)
    \/ JoiningQuorum(r)
    \/ \E i \in InstallViews : InstallView(r, i.seq)

Spec == Init /\ [][Next]_vars

FairSpec ==
  /\ Spec
  /\ \A r \in Correct :
       /\ WF_vars(Step(r)) /\ WF_vars(Timeout(r)) /\ WF_vars(JoiningQuorum(r))
       /\ \A j \in JoinRequests : WF_vars(AttemptQuorumNodeJoin(r, j.node))

-----------------------------------------------------------------------------
Message ==
  [kind : {"Stop"}, from : Nat, to : Nat, view : Nat, rqs : Nat]
    \cup [kind : {"StopQuorumJoin"}, from : Nat, to : Nat, view : Nat, node : Nat]
    \cup [kind : {"StopData"}, from : Nat, to : Nat, view : Nat, proof : Nat \cup {NoDecision}]
    \cup [kind : {"Sync"}, from : Nat, to : Nat, view : Nat, proof : Nat \cup {NoDecision},
          sound : BOOLEAN, empty : BOOLEAN]

(***************************************************************************)
(* The type invariant: views have members, the counter of a phase stays    *)
(* below the number of members, and everything sent is well formed.        *)
(***************************************************************************)
TypeOK ==
  /\ mode \in [Correct -> {"Normal", "Sync"}]
  /\ lastExec \in [Correct -> Nat \cup {NoDecision}]
  /\ net \subseteq Message
  /\ \A r \in Correct :
       /\ sync[r].phase \in Phases
       /\ sync[r].phase # "Panicked" => sync[r].count < Len(sync[r].view.members)
       /\ sync[r].stopped \cup sync[r].collects \subseteq Message
       /\ sync[r].next # NoView => Len(sync[r].next.members) >= Len(sync[r].view.members)

(***************************************************************************)
(* Every message of a queue is for the view the queue stands for, wherever *)
(* the current view has moved since it was queued.                         *)
(***************************************************************************)
QueuesAligned ==
  \A r \in Correct : \A q \in DOMAIN sync[r].queue : \A i \in DOMAIN sync[r].queue[q] :
    \A j \in DOMAIN sync[r].queue[q][i] :
      LET m == sync[r].queue[q][i][j]
      IN  QueueFor(m) = q /\ m.view = sync[r].view.seq + i

(***************************************************************************)
(* The two state machines agree: in the normal phase, where a finished     *)
(* view change is not expected, the synchronizer is not past the point     *)
(* where it can finish one, and the view it changes to follows its own.    *)
(***************************************************************************)
PhasesAgree ==
  \A r \in Correct :
    /\ mode[r] = "Normal" => sync[r].phase \notin {"Stopping2", "StoppingData", "Syncing"}
    /\ sync[r].phase \in {"StoppingData", "Syncing"} =>
         sync[r].next.seq = sync[r].view.seq + 1

(***************************************************************************)
(* Nothing the code calls unreachable or todo has been reached, and the    *)
(* normal phase does not run while the synchronizer waits for a state      *)
(* transfer, the phase in which a message would reach it.                  *)
(***************************************************************************)
NoPanic ==
  \A r \in Correct :
    /\ sync[r].phase # "Panicked"
    /\ mode[r] = "Normal" => sync[r].phase # "SyncingState"

(***************************************************************************)
(* No lost wakeup: a replica that waits for the network has no queued      *)
(* message that its phase can process, and poll() never spins on STOPs     *)
(* that it is not signalled to look at.                                    *)
(***************************************************************************)
NoLostWakeup ==
  \A r \in Correct :
    /\ mode[r] = "Sync" /\ ~ sync[r].signalled => ~ CanProcess(sync[r], PolledQueue(sync[r]))
    /\ mode[r] = "Normal" /\ CanProcess(sync[r], "stop") => sync[r].signalled

(***************************************************************************)
(* A STOP counts once, for the view it asks for.                           *)
(***************************************************************************)
CountsStops ==
  \A r \in Correct : sync[r].phase \in {"Stopping", "Stopping2"} =>
    /\ sync[r].count = Cardinality({m.from : m \in sync[r].stopped})
    /\ \A m \in sync[r].stopped : m.view = sync[r].view.seq + 1

(***************************************************************************)
(* Replicas that are in the same view agree on its members: who joins is   *)
(* not left to the order in which the votes arrive, and a node that has    *)
(* prepared to join does not do so in a view that leaves it out.           *)
(***************************************************************************)
ViewsAgree ==
  \A r, s \in Correct : sync[r].view.seq = sync[s].view.seq =>
    sync[r].view.members = sync[s].view.members

(***************************************************************************)
(* A node is added on the votes of a quorum of different members for that  *)
(* very node, however often and for whomever the others vote.              *)
(***************************************************************************)
JoinHasQuorum ==
  [][\A r \in Correct :
       /\ sync[r].phase \in {"ViewStopping", "ViewStopping2"}
       /\ sync'[r].phase \in {"StoppingData", "Syncing"}
       => LET members == sync'[r].next.members
          IN  Cardinality(VotersFor(sync'[r], members[Len(members)])) >= QuorumSize(sync[r].view)]_vars

\* The message that a step of a replica processes: the one it receives, which
\* leaves the network, or else the first of the queue it polls.
Processed(r) ==
  IF net \subseteq net' THEN {PolledMessage(sync[r])} ELSE {m \in net \ net' : m.to = r}

(***************************************************************************)
(* A replica that waits for the outcome of a view change takes it from a   *)
(* SYNC of the new view's leader, whatever else it has received, and the   *)
(* one that leads from STOP-DATA of a quorum for that very view.           *)
(***************************************************************************)
TakesOutcomeFromLeader ==
  [][\A r \in Correct : sync'[r].view # sync[r].view =>
       /\ sync[r].phase = "Syncing" =>
            \E m \in Processed(r) :
              m.kind = "Sync" /\ m.view = sync'[r].view.seq /\ m.from = Leader(sync'[r].view)
       /\ sync[r].phase = "StoppingData" =>
            Cardinality({m.from : m \in {c \in sync'[r].collects : c.view = sync'[r].view.seq}})
              >= QuorumSize(sync'[r].view)]_vars

(***************************************************************************)
(* A leader that has crashed is replaced: requests of its view time out,   *)
(* and again in the views after it, and the replicas end up deciding in    *)
(* view MaxView.                                                           *)
(***************************************************************************)
ReplacesLeader ==
  <>(\A r \in Correct : mode[r] = "Normal" /\ sync[r].view.seq >= MaxView)

(***************************************************************************)
(* A view change that waits for a state transfer is resumed after it, also *)
(* where the transfer installs a view.                                     *)
(***************************************************************************)
ResumesAfterTransfer ==
  \A r \in Correct : sync[r].phase = "SyncingState" ~> sync[r].phase = "Init"

-----------------------------------------------------------------------------
(***************************************************************************)
(* What a comment of the code says, and the code does not do.              *)
(***************************************************************************)

(***************************************************************************)
(* begin_view_change(): a replica may be running the protocol already, and *)
(* start another view because it has timed out again, for instance because *)
(* the leader of the new view is faulty.                                   *)
(***************************************************************************)
TimesOutAgain ==
  \A r \in Correct : sync[r].phase = "Syncing" ~> sync[r].phase # "Syncing"
=============================================================================
