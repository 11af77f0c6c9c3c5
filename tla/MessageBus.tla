------------------------------ MODULE MessageBus ------------------------------
(***************************************************************************)
(* agents/message-bus.ts for one node: an incoming queue per registered    *)
(* agent, and the log of everything sent.  Each method runs without an     *)
(* await; what interleaves is the order of the agents' calls.              *)
(*                                                                         *)
(* A message is its number in the log with its two ends; the content is    *)
(* left out.  A call that is rejected changes nothing: it is the guard of  *)
(* its action.                                                             *)
(***************************************************************************)
EXTENDS Naturals, Sequences, SequencesExt, FiniteSets

CONSTANTS
  BusAgents,  \* the agents of the node
  MaxLog      \* bound on the messages sent

ASSUME BusAssumption == IsFiniteSet(BusAgents) /\ MaxLog \in Nat

VARIABLES
  queues,    \* queues.get(nodeId): the incoming queue of each registered agent
  log,       \* the messages sent through the bus
  received,  \* history: what each agent has collected since it was registered
  joinedAt   \* history: the length of the log when each agent was registered

busVars == <<queues, log, received, joinedAt>>

BusRegistered == DOMAIN queues

Message == [id : 1 .. MaxLog, from : BusAgents, to : BusAgents]

BusTypeOK ==
  /\ BusRegistered \subseteq BusAgents
  /\ queues \in [BusRegistered -> Seq(Message)]
  /\ log \in Seq(Message) /\ Len(log) <= MaxLog
  /\ received \in [BusAgents -> Seq(Message)]
  /\ joinedAt \in [BusAgents -> 0 .. Len(log)]

BusInit ==
  /\ queues = <<>>
  /\ log = <<>>
  /\ received = [a \in BusAgents |-> <<>>]
  /\ joinedAt = [a \in BusAgents |-> 0]

WithQueue_Faulty(a) == [b \in BusRegistered \cup {a} |-> IF b = a THEN <<>> ELSE queues[b]]

\* A queue for a, empty if it is new.
WithQueue(a) == [b \in BusRegistered \cup {a} |-> IF b \in BusRegistered THEN queues[b] ELSE <<>>]

\* registerAgent: of no effect on an agent that is registered.
RegisterAgent(a) ==
  /\ queues' = WithQueue(a)
  /\ IF a \in BusRegistered
     THEN UNCHANGED <<received, joinedAt>>
     ELSE /\ received' = [received EXCEPT ![a] = <<>>]
          /\ joinedAt' = [joinedAt EXCEPT ![a] = Len(log)]
  /\ UNCHANGED log

\* unregisterAgent: what the agent has not collected is discarded.
UnregisterAgent(a) ==
  /\ queues' = [b \in BusRegistered \ {a} |-> queues[b]]
  /\ UNCHANGED <<log, received, joinedAt>>

\* send.
Send(from, to) ==
  /\ {from, to} \subseteq BusRegistered
  /\ Len(log) < MaxLog
  /\ LET message == [id |-> Len(log) + 1, from |-> from, to |-> to] IN
       /\ log' = Append(log, message)
       /\ queues' = [queues EXCEPT ![to] = Append(@, message)]
  /\ UNCHANGED <<received, joinedAt>>

\* broadcast: a message of its own to every other agent, logged in the order of the queues.
Broadcast(from) ==
  /\ from \in BusRegistered
  /\ Len(log) + Cardinality(BusRegistered) <= MaxLog + 1
  /\ \E order \in SetToSeqs(BusRegistered \ {from}) :
       LET message(i) == [id |-> Len(log) + i, from |-> from, to |-> order[i]]
           place(a) == CHOOSE i \in DOMAIN order : order[i] = a
       IN /\ log' = log \o [i \in DOMAIN order |-> message(i)]
          /\ queues' = [a \in BusRegistered |->
                          IF a = from THEN queues[a] ELSE Append(queues[a], message(place(a)))]
  /\ UNCHANGED <<received, joinedAt>>

\* The queues after collect has emptied a's.
Drained(a) == [queues EXCEPT ![a] = <<>>]

\* collect.
Collect(a) ==
  /\ a \in BusRegistered
  /\ received' = [received EXCEPT ![a] = @ \o queues[a]]
  /\ queues' = Drained(a)
  /\ UNCHANGED <<log, joinedAt>>

BusNext ==
  \/ \E a \in BusAgents : RegisterAgent(a) \/ UnregisterAgent(a) \/ Collect(a) \/ Broadcast(a)
  \/ \E a, b \in BusAgents : Send(a, b)

BusSpec == BusInit /\ [][BusNext]_busVars

-----------------------------------------------------------------------------
\* The messages to an agent since it was registered, as numbers in the log.
SentTo(a) == {i \in joinedAt[a] + 1 .. Len(log) : log[i].to = a}

\* While an agent stays registered nothing sent to it is lost, duplicated or reordered:
\* what it has collected and what is queued are together the messages to it in the log
\* since it was registered, each once and in the order of the log.
DeliveredOnceInOrder ==
  \A a \in BusRegistered :
    LET delivered == received[a] \o queues[a] IN
    /\ Range(delivered) = {log[i] : i \in SentTo(a)}
    /\ \A i, j \in DOMAIN delivered : i < j => delivered[i].id < delivered[j].id

=============================================================================
