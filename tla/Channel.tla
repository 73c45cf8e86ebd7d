------------------------------ MODULE Channel ------------------------------
(***************************************************************************)
(* What a persistent session promises at QoS 1, without identifiers,       *)
(* connections or queues: a message it is offered is held until the client *)
(* has received and acknowledged it.  It may arrive more than once and in  *)
(* any order.  Only a channel with no room left may drop a message, and    *)
(* never one that the client has seen.                                     *)
(***************************************************************************)
EXTENDS Naturals, FiniteSets

CONSTANTS Message,
          Room,     \* it holds this many before it drops any
          Limit     \* it never holds more

VARIABLES offered,    \* messages it took responsibility for
          held,       \* messages it has yet to see acknowledged
          received,   \* messages the client has received
          acked,      \* messages released on an acknowledgement
          dropped     \* messages given up

channelVars == <<offered, held, received, acked, dropped>>

ChannelInit ==
    offered = {} /\ held = {} /\ received = {} /\ acked = {} /\ dropped = {}

Offer(m) ==
    /\ m \notin offered
    /\ offered' = offered \cup {m}
    /\ \/ held' = held \cup {m} /\ UNCHANGED dropped
       \/ /\ Cardinality(held) >= Room
          /\ \E d \in (held \cup {m}) \ received :
                /\ held' = (held \cup {m}) \ {d}
                /\ dropped' = dropped \cup {d}
    /\ Cardinality(held') <= Limit
    /\ UNCHANGED <<received, acked>>

\* The first time, or again.
Receive(m) ==
    /\ m \in held \cup acked
    /\ received' = received \cup {m}
    /\ UNCHANGED <<offered, held, acked, dropped>>

Release(m) ==
    /\ m \in held \cap received
    /\ held' = held \ {m}
    /\ acked' = acked \cup {m}
    /\ UNCHANGED <<offered, received, dropped>>

ChannelNext == \E m \in Message : Offer(m) \/ Receive(m) \/ Release(m)

ChannelSpec == ChannelInit /\ [][ChannelNext]_channelVars
============================================================================
