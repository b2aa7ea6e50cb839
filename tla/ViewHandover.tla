---------------------------- MODULE ViewHandover ----------------------------
(***************************************************************************)
(* One consensus instance across a view change: module Instance runs it in *)
(* the view that is left, replicas stop and report what they have in a     *)
(* STOP-DATA, and the new leader turns a quorum of COLLECTs into the SYNC  *)
(* that starts the instance again in the next view.  There it is taken to  *)
(* be what module InstanceProofs shows it to be, an AtomicDecision.        *)
(***************************************************************************)
EXTENDS Instance, Sound

CONSTANT Idle       \* faulty replicas that report an empty log, having seen nothing

VARIABLES
  collects,         \* the COLLECTs the new leader has received
  proposal,         \* the batch of its SYNC
  outcome           \* what each replica decides in the next view

handoverVars == <<decision, signalled, available, proposed, net, faultyMsgs, offContext,
                  collects, proposal, outcome>>

FaultsTolerated == (Quorum - 1) \div 2

\* What the working log reports of the PREPAREs it holds: deciding().
Deciding(d) ==
  LET pair == [ts |-> ViewSeq, value |-> InstanceDigest(d)]
      n    == Cardinality(d.prepares)
  IN  [writeSet |-> [i \in 1..n |-> pair],
       quorumPrepares |-> IF FaultsTolerated > 0 /\ n >= 2 * FaultsTolerated
                            THEN pair ELSE NoPair]

\* A replica that has decided the instance reports its proof, and has nothing
\* of the next instance yet.
CollectOf(r) ==
  IF Decided(r)
    THEN [from |-> r, proof |-> InstanceSeq, executing |-> InstanceSeq + 1,
          writeSet |-> << >>, quorumPrepares |-> NoPair]
    ELSE [from |-> r, proof |-> InstanceSeq - 1, executing |-> InstanceSeq,
          writeSet |-> Deciding(decision[r]).writeSet,
          quorumPrepares |-> Deciding(decision[r]).quorumPrepares]

EmptyCollect(r) ==
  [from |-> r, proof |-> InstanceSeq - 1, executing |-> InstanceSeq,
   writeSet |-> << >>, quorumPrepares |-> NoPair]

HandoverInit ==
  /\ Init
  /\ collects = {}
  /\ proposal = NoBatch
  /\ outcome = [r \in Correct |-> NoBatch]

HasStopped(r) == \E c \in collects : c.from = r

NoSync == proposal = NoBatch

\* Until it stops, a replica runs the instance.
Run(r) ==
  /\ ~ HasStopped(r)
  /\ Step(r)
  /\ UNCHANGED <<collects, proposal, outcome>>

StopData(r) ==
  /\ NoSync /\ ~ HasStopped(r)
  /\ Cardinality(collects) < Quorum
  /\ collects' = collects \cup {IF r \in Correct THEN CollectOf(r) ELSE EmptyCollect(r)}
  /\ UNCHANGED <<decision, signalled, available, proposed, net, faultyMsgs, offContext,
                 proposal, outcome>>

\* The new leader proposes the requests that are pending with it, whatever the
\* COLLECTs bind.  When they hold a proof of the instance it proposes for the
\* next one, and the instance is decided by the proof.
Sync(b) ==
  /\ NoSync
  /\ Cardinality(collects) = Quorum
  /\ proposal' = b
  /\ UNCHANGED <<decision, signalled, available, proposed, net, faultyMsgs, offContext,
                 collects, outcome>>

SyncIsForInstance == CurrentCid(collects) = InstanceSeq

\* A replica decides the instance again in the next view.
DecideNext(r) ==
  /\ ~ NoSync /\ SyncIsForInstance
  /\ HasStopped(r) /\ ~ Decided(r) /\ outcome[r] = NoBatch
  /\ outcome' = [outcome EXCEPT ![r] = [l \in Leaders |-> proposal]]
  /\ UNCHANGED <<decision, signalled, available, proposed, net, faultyMsgs, offContext,
                 collects, proposal>>

HandoverNext ==
  \/ \E r \in Correct : Run(r) \/ DecideNext(r)
  \/ \E r \in Correct \cup Idle : StopData(r)
  \/ \E b \in Batch : Sync(b)

HandoverSpec == HandoverInit /\ [][HandoverNext]_handoverVars

-----------------------------------------------------------------------------
(***************************************************************************)
(* The service goes on as usual despite a faulty replica and a view        *)
(* change: nothing is decided for the instance in the next view but what   *)
(* has been decided for it in the view before.                             *)
(***************************************************************************)
AgreementAcrossViews ==
  \A r, s \in Correct : Decided(r) /\ outcome[s] # NoBatch =>
    outcome[s] = InstanceDigest(decision[r])
=============================================================================
