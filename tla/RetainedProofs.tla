--------------------------- MODULE RetainedProofs ---------------------------
(***************************************************************************)
(* Theorems about Retained, for any clients, publishers, topics and        *)
(* filters, and any number of messages.                                    *)
(***************************************************************************)
EXTENDS Retained, TLAPS

USE RetainedAssumption
    DEF storeVars, pubVars, subVars, NoMsg, NoFilter, Message, Kinds
----------------------------------------------------------------------------
(***************************************************************************)
(* The inductive invariant.                                                *)
(***************************************************************************)
\* The program counters agree: only a publisher that has matched fans out, only a
\* subscriber that has looked has a backlog, and a message has one publisher.
ControlInv ==
    /\ Len(log) <= MaxMessages
    /\ \A p \in Publishers :
          /\ matched[p] => publishing[p] # NoMsg
          /\ ~matched[p] => fanout[p] = {}
          /\ \A q \in Publishers :
                publishing[p] = publishing[q] /\ publishing[p] # NoMsg => p = q
    /\ \A c \in Clients :
          /\ looked[c] => subscribing[c] # NoFilter
          /\ ~looked[c] => backlog[c] = {}

TypeInv == TypeOK /\ ControlInv

\* The publisher of m has yet to deliver it to c, or to find out whether it must.
Coming(c, m) ==
    \E p \in Publishers : publishing[p] = m /\ (~matched[p] \/ c \in fanout[p])

\* Nothing is delivered live before its turn, nor twice.
LiveInv ==
    \A c \in Clients : \A m \in Message :
        /\ live[c][m] <= 1
        /\ m > Len(log) \/ Coming(c, m) => live[c][m] = 0

\* Who is due a message still holds a matching filter, and has got it or will.
DueInv ==
    \A m \in 1..Len(log) : \A c \in due[m] :
        /\ c \in Subscribed(subs, log[m].topic)
        /\ live[c][m] = 1 \/ Coming(c, m)

\* The SUBSCRIBE of c will still find the retained message of t.
WillLook(c, t) ==
    subscribing[c] # NoFilter /\ ~looked[c] /\ Matches(subscribing[c], t)

\* Between the two halves nothing falls: for every retained message and every
\* subscriber to its topic, it was received, or one side is on its way to it.
GapInv ==
    \A t \in TopicNames : \A c \in Subscribed(subs, t) :
        retained[t] # NoMsg =>
            \/ retained[t] \in stored[c] \cup backlog[c]
            \/ live[c][retained[t]] > 0
            \/ Coming(c, retained[t])
            \/ WillLook(c, t)
----------------------------------------------------------------------------
(***************************************************************************)
(* Types and control.                                                      *)
(***************************************************************************)
\* A filter that is being subscribed is never mistaken for none.
LEMMA FilterNotEmpty == \A f \in Filters : f # NoFilter
BY DEF RetainedAssumption, IsTopicFilter

\* The numbers of the messages in the log.
LEMMA LogType ==
    ASSUME TypeInv
    PROVE  Len(log) \in 0..MaxMessages /\ \A m \in 1..Len(log) : m \in Message
BY DEF TypeInv, TypeOK, ControlInv, RetainedAssumption

\* The log only grows at its end.
LEMMA LogGrows ==
    ASSUME TypeOK, NEW t \in TopicNames, NEW k \in Kinds,
           log' = Append(log, [topic |-> t, kind |-> k])
    PROVE  /\ log' \in Seq([topic : TopicNames, kind : Kinds])
           /\ Len(log) \in Nat /\ Len(log') = Len(log) + 1
           /\ \A i \in 1..Len(log) : log'[i] = log[i]
           /\ log'[Len(log) + 1] = [topic |-> t, kind |-> k]
BY DEF TypeOK

\* Publish: the new message is the only one of its number.
LEMMA PublishType ==
    ASSUME TypeInv, NEW p \in Publishers, NEW t \in TopicNames, NEW k \in Kinds,
           Publish(p, t, k)
    PROVE  TypeInv'
<1> USE DEF TypeInv, TypeOK, ControlInv, RetainedAssumption
<1> DEFINE m == Len(log) + 1
<1>1. /\ log' \in Seq([topic : TopicNames, kind : Kinds])
      /\ Len(log) \in Nat /\ Len(log') = Len(log) + 1
      /\ \A i \in 1..Len(log) : log'[i] = log[i]
      /\ log'[Len(log) + 1] = [topic |-> t, kind |-> k]
  BY LogGrows DEF Publish
<1>2. m \in Message /\ m \in 1..Len(log') /\ Len(log') <= MaxMessages
  BY <1>1 DEF Publish
<1>3. retained' \in [TopicNames -> 0..Len(log')]
  BY <1>1, <1>2 DEF Publish, Retention, Store, Remove
<1>4. \A u \in TopicNames :
         retained'[u] # NoMsg => log'[retained'[u]] = [topic |-> u, kind |-> "retain"]
  <2> SUFFICES ASSUME NEW u \in TopicNames, retained'[u] # NoMsg
               PROVE  log'[retained'[u]] = [topic |-> u, kind |-> "retain"]
    OBVIOUS
  <2>1. CASE k = "retain" /\ u = t
    BY <2>1, <1>1 DEF Publish, Retention, Store
  <2>2. CASE ~(k = "retain" /\ u = t)
    <3>1. retained'[u] = retained[u]
      BY <2>2 DEF Publish, Retention, Store, Remove
    <3>2. retained[u] \in 1..Len(log)
      BY <3>1, <1>1
    <3> QED BY <3>1, <3>2, <1>1
  <2> QED BY <2>1, <2>2
<1>5. publishing' \in [Publishers -> 0..Len(log')] /\ due' \in [Message -> SUBSET Clients]
  BY <1>1, <1>2 DEF Publish, Subscribed
<1>6. \A q \in Publishers : publishing[q] # m
  BY <1>1
<1>7. TypeOK'
  BY <1>1, <1>3, <1>4, <1>5 DEF Publish
<1>8. ControlInv'
  BY <1>2, <1>6 DEF Publish
<1> QED BY <1>7, <1>8

\* The rest of a PUBLISH.
LEMMA FanoutType ==
    ASSUME TypeInv, NEW p \in Publishers, Match(p) \/ DeliverLive(p) \/ PublishEnds(p)
    PROVE  TypeInv'
<1> USE DEF TypeInv, TypeOK, ControlInv, RetainedAssumption
<1>1. CASE Match(p)
  BY <1>1 DEF Match, Subscribed
<1>2. CASE DeliverLive(p)
  <2>1. PICK c \in fanout[p] :
           /\ live' = [live EXCEPT ![c][publishing[p]] = @ + 1]
           /\ fanout' = [fanout EXCEPT ![p] = @ \ {c}]
    BY <1>2 DEF DeliverLive
  <2>2. c \in Clients /\ publishing[p] \in Message
    BY <2>1
  <2>3. live' \in [Clients -> [Message -> Nat]]
    BY <2>1, <2>2
  <2> QED BY <1>2, <2>1, <2>3 DEF DeliverLive
<1>3. CASE PublishEnds(p)
  BY <1>3 DEF PublishEnds
<1> QED BY <1>1, <1>2, <1>3

\* SUBSCRIBE and UNSUBSCRIBE.
LEMMA SubscribeType ==
    ASSUME TypeInv, NEW c \in Clients,
           \/ \E f \in Filters : Subscribe(c, f) \/ Unsubscribe(c, f)
           \/ Matching(c) \/ DeliverRetained(c) \/ SubscribeEnds(c)
    PROVE  TypeInv'
<1> USE DEF TypeInv, TypeOK, ControlInv, RetainedAssumption
<1>1. ASSUME NEW f \in Filters, Subscribe(c, f) PROVE TypeInv'
  BY <1>1, FilterNotEmpty DEF Subscribe
<1>2. ASSUME NEW f \in Filters, Unsubscribe(c, f) PROVE TypeInv'
  BY <1>2 DEF Unsubscribe, Subscribed
<1>3. CASE Matching(c)
  <2>1. {retained[t] : t \in {u \in TopicNames : Matches(subscribing[c], u)}} \ {NoMsg}
           \in SUBSET Message
    OBVIOUS
  <2> QED BY <1>3, <2>1 DEF Matching
<1>4. CASE DeliverRetained(c)
  <2>1. PICK m \in backlog[c] :
           /\ stored' = [stored EXCEPT ![c] = @ \cup {m}]
           /\ backlog' = [backlog EXCEPT ![c] = @ \ {m}]
    BY <1>4 DEF DeliverRetained
  <2>2. m \in Message
    BY <2>1
  <2>3. TypeOK'
    BY <1>4, <2>1, <2>2 DEF DeliverRetained
  <2>4. ControlInv'
    BY <1>4, <2>1 DEF DeliverRetained
  <2> QED BY <2>3, <2>4
<1>5. CASE SubscribeEnds(c)
  BY <1>5 DEF SubscribeEnds
<1> QED BY <1>1, <1>2, <1>3, <1>4, <1>5

\* One step of any goroutine.
LEMMA TypeStep == TypeInv /\ [Next]_vars => TypeInv'
<1> SUFFICES ASSUME TypeInv, [Next]_vars PROVE TypeInv'
  OBVIOUS
<1>1. CASE UNCHANGED vars
  BY <1>1 DEF vars, TypeInv, TypeOK, ControlInv
<1> QED BY <1>1, PublishType, FanoutType, SubscribeType DEF Next

\* Nothing is published or subscribed.
LEMMA TypeInit == Init => TypeInv
BY DEF Init, TypeInv, TypeOK, ControlInv, RetainedAssumption

\* Type correctness; in particular the store holds, under each topic, a message
\* that was published to it, asked to be retained and was not empty.
THEOREM TypeCorrect == Spec => []TypeOK
<1>1. TypeInv => TypeOK
  BY DEF TypeInv
<1> QED BY <1>1, TypeInit, TypeStep, PTL DEF Spec
----------------------------------------------------------------------------
(***************************************************************************)
(* What each step does to the messages that are coming.                    *)
(***************************************************************************)
\* Steps that leave the publishers alone.
LEMMA ComingFrame ==
    ASSUME UNCHANGED <<publishing, matched, fanout>>, NEW c, NEW m
    PROVE  Coming(c, m)' <=> Coming(c, m)
BY DEF Coming

\* Publish starts one message for everybody.
LEMMA ComingPublish ==
    ASSUME TypeInv, NEW p \in Publishers, NEW t, NEW k, Publish(p, t, k), NEW c,
           NEW m \in 1..(Len(log) + 1)
    PROVE  Coming(c, m)' <=> m = Len(log) + 1 \/ Coming(c, m)
<1> USE DEF TypeInv, TypeOK, ControlInv, Publish, Coming
<1>1. publishing'[p] = Len(log) + 1 /\ ~matched'[p]
  OBVIOUS
<1>2. CASE m = Len(log) + 1
  BY <1>1, <1>2
<1>3. CASE m # Len(log) + 1
  <2>1. \A q \in Publishers : publishing'[q] = m <=> publishing[q] = m
    BY <1>3
  <2> QED BY <2>1, <1>3
<1> QED BY <1>2, <1>3

\* Match settles whom the message is coming to.
LEMMA ComingMatch ==
    ASSUME TypeInv, NEW p \in Publishers, Match(p), NEW c, NEW m
    PROVE  Coming(c, m)' <=>
             /\ Coming(c, m)
             /\ m = publishing[p] => c \in Subscribed(subs, log[m].topic)
<1> USE DEF TypeInv, TypeOK, ControlInv, Match, Coming
<1>1. CASE m = publishing[p]
  <2>1. \A q \in Publishers : publishing[q] = m <=> q = p
    BY <1>1
  <2>2. Coming(c, m)
    BY <1>1
  <2> QED BY <1>1, <2>1, <2>2
<1>2. CASE m # publishing[p]
  BY <1>2
<1> QED BY <1>1, <1>2

\* Publish returns only when its message is coming to nobody.
LEMMA ComingEnds ==
    ASSUME TypeInv, NEW p \in Publishers, PublishEnds(p), NEW c, NEW m \in Message
    PROVE  Coming(c, m)' <=> Coming(c, m)
BY DEF TypeInv, TypeOK, ControlInv, PublishEnds, Coming

\* A delivery takes one subscriber off the list of the one publisher concerned.
LEMMA ComingDeliver ==
    ASSUME TypeInv, NEW p \in Publishers, NEW d \in fanout[p],
           fanout' = [fanout EXCEPT ![p] = @ \ {d}],
           UNCHANGED <<publishing, matched>>,
           NEW c, NEW m
    PROVE  Coming(c, m)' <=> Coming(c, m) /\ ~(c = d /\ m = publishing[p])
<1> USE DEF TypeInv, TypeOK, ControlInv, Coming
<1>1. matched[p] /\ publishing[p] # NoMsg
  OBVIOUS
<1>2. CASE m = publishing[p]
  <2>1. \A q \in Publishers : publishing[q] = m <=> q = p
    BY <1>1, <1>2
  <2> QED BY <1>1, <1>2, <2>1
<1>3. CASE m # publishing[p]
  BY <1>3
<1> QED BY <1>2, <1>3
----------------------------------------------------------------------------
(***************************************************************************)
(* AckedReached.                                                           *)
(***************************************************************************)
AckInv == LiveInv /\ DueInv

\* A new message is due to everybody subscribed, and has reached nobody.
LEMMA PublishAck ==
    ASSUME TypeInv, AckInv, NEW p \in Publishers, NEW t \in TopicNames,
           NEW k \in Kinds, Publish(p, t, k)
    PROVE  AckInv'
<1> USE DEF AckInv
<1>1. /\ Len(log) \in Nat /\ Len(log') = Len(log) + 1
      /\ \A i \in 1..Len(log) : log'[i] = log[i]
      /\ log'[Len(log) + 1] = [topic |-> t, kind |-> k]
  BY LogGrows DEF Publish, TypeInv
<1>2. UNCHANGED <<live, subs>>
  BY DEF Publish
<1>3. \A c : \A m \in 1..(Len(log) + 1) :
         Coming(c, m)' <=> m = Len(log) + 1 \/ Coming(c, m)
  BY ComingPublish
<1>4. LiveInv'
  <2> SUFFICES ASSUME NEW c \in Clients, NEW m \in Message
               PROVE  /\ live[c][m] <= 1
                      /\ m > Len(log') \/ Coming(c, m)' => live[c][m] = 0
    BY <1>2 DEF LiveInv
  <2>1. CASE m > Len(log)
    BY <2>1 DEF LiveInv
  <2>2. CASE ~(m > Len(log))
    <3>1. m \in 1..Len(log)
      BY <2>2, <1>1
    <3> QED BY <3>1, <1>1, <1>3 DEF LiveInv
  <2> QED BY <2>1, <2>2
<1>5. ASSUME NEW m \in 1..Len(log'), NEW c \in due'[m]
      PROVE  /\ c \in Subscribed(subs, log'[m].topic)
             /\ live[c][m] = 1 \/ Coming(c, m)'
  <2>1. CASE m = Len(log) + 1
    <3>1. m \in Message /\ due'[m] = Subscribed(subs, t)
      BY <2>1, <1>1, LogType DEF Publish, RetainedAssumption, TypeInv, TypeOK
    <3> QED BY <2>1, <3>1, <1>1, <1>3, <1>5
  <2>2. CASE m # Len(log) + 1
    <3>1. m \in 1..Len(log) /\ due'[m] = due[m]
      BY <2>2, <1>1, LogType DEF Publish, TypeInv, TypeOK
    <3> QED BY <3>1, <1>1, <1>3, <1>5 DEF DueInv
  <2> QED BY <2>1, <2>2
<1> QED BY <1>2, <1>4, <1>5 DEF DueInv

\* The rest of a PUBLISH: whoever is due the message is on the list until it has
\* got it, once.
LEMMA FanoutAck ==
    ASSUME TypeInv, AckInv, NEW p \in Publishers,
           Match(p) \/ DeliverLive(p) \/ PublishEnds(p)
    PROVE  AckInv'
<1> USE DEF AckInv
<1>1. CASE Match(p)
  <2>1. UNCHANGED <<log, live, due, subs>>
    BY <1>1 DEF Match
  <2> QED BY <1>1, <2>1, ComingMatch DEF LiveInv, DueInv
<1>2. CASE DeliverLive(p)
  <2>1. PICK d \in fanout[p] :
           /\ live' = [live EXCEPT ![d][publishing[p]] = @ + 1]
           /\ fanout' = [fanout EXCEPT ![p] = @ \ {d}]
    BY <1>2 DEF DeliverLive
  <2>2. UNCHANGED <<log, publishing, matched, due, subs>>
    BY <1>2 DEF DeliverLive
  <2>3. d \in Clients /\ publishing[p] \in Message /\ publishing[p] \in 1..Len(log)
    BY <2>1 DEF TypeInv, TypeOK, ControlInv, RetainedAssumption
  <2>4. Coming(d, publishing[p])
    BY DEF Coming
  <2>5. live[d][publishing[p]] = 0
    BY <2>3, <2>4 DEF LiveInv
  <2>6. live'[d][publishing[p]] = 1
    BY <2>1, <2>3, <2>5 DEF TypeInv, TypeOK
  <2>7. \A c \in Clients, m \in Message :
           ~(c = d /\ m = publishing[p]) => live'[c][m] = live[c][m]
    BY <2>1, <2>3 DEF TypeInv, TypeOK
  <2>8. \A c, m : Coming(c, m)' <=> Coming(c, m) /\ ~(c = d /\ m = publishing[p])
    BY <2>1, <2>2, ComingDeliver
  <2>9. LiveInv'
    <3> SUFFICES ASSUME NEW c \in Clients, NEW m \in Message
                 PROVE  /\ live'[c][m] <= 1
                        /\ m > Len(log) \/ Coming(c, m)' => live'[c][m] = 0
      BY <2>2 DEF LiveInv
    <3>1. CASE c = d /\ m = publishing[p]
      BY <3>1, <2>3, <2>6, <2>8
    <3>2. CASE ~(c = d /\ m = publishing[p])
      BY <3>2, <2>7, <2>8 DEF LiveInv
    <3> QED BY <3>1, <3>2
  <2>10. \A m \in 1..Len(log) : m \in Message /\ due[m] \subseteq Clients
    BY LogType DEF TypeInv, TypeOK
  <2>11. DueInv'
    BY <2>2, <2>6, <2>7, <2>8, <2>10 DEF DueInv
  <2> QED BY <2>9, <2>11
<1>3. CASE PublishEnds(p)
  <2>1. UNCHANGED <<log, live, due, subs>>
    BY <1>3 DEF PublishEnds
  <2>2. \A m \in 1..Len(log) : m \in Message
    BY LogType
  <2> QED BY <1>3, <2>1, <2>2, ComingEnds DEF LiveInv, DueInv
<1> QED BY <1>1, <1>2, <1>3

\* Subscribing adds filters; unsubscribing takes back what is due.
LEMMA SubscribeAck ==
    ASSUME TypeInv, AckInv, NEW c \in Clients,
           \/ \E f \in Filters : Subscribe(c, f) \/ Unsubscribe(c, f)
           \/ Matching(c) \/ DeliverRetained(c) \/ SubscribeEnds(c)
    PROVE  AckInv'
<1>1. UNCHANGED <<log, live, publishing, matched, fanout>>
  BY DEF Subscribe, Unsubscribe, Matching, DeliverRetained, SubscribeEnds
<1>2. \A d, m : Coming(d, m)' <=> Coming(d, m)
  BY <1>1, ComingFrame
<1>3. LiveInv'
  BY <1>1, <1>2 DEF AckInv, LiveInv
<1>4. \A m \in 1..Len(log) : \A d \in due'[m] :
         d \in due[m] /\ d \in Subscribed(subs', log[m].topic)
  <2>1. ASSUME NEW f \in Filters, Subscribe(c, f), NEW m \in 1..Len(log), NEW d \in due'[m]
        PROVE  d \in due[m] /\ d \in Subscribed(subs', log[m].topic)
    BY <2>1 DEF Subscribe, AckInv, DueInv, Subscribed, TypeInv, TypeOK
  <2>2. ASSUME NEW f \in Filters, Unsubscribe(c, f), NEW m \in 1..Len(log), NEW d \in due'[m]
        PROVE  d \in due[m] /\ d \in Subscribed(subs', log[m].topic)
    <3>1. m \in Message
      BY LogType
    <3> QED BY <2>2, <3>1 DEF Unsubscribe
  <2>3. ASSUME Matching(c) \/ DeliverRetained(c) \/ SubscribeEnds(c)
        PROVE  UNCHANGED <<due, subs>>
    BY <2>3 DEF Matching, DeliverRetained, SubscribeEnds
  <2> QED BY <2>1, <2>2, <2>3 DEF AckInv, DueInv
<1> QED BY <1>1, <1>2, <1>3, <1>4 DEF AckInv, DueInv

\* One step of any goroutine.
LEMMA AckStep == TypeInv /\ AckInv /\ [Next]_vars => AckInv'
<1> SUFFICES ASSUME TypeInv, AckInv, [Next]_vars PROVE AckInv'
  OBVIOUS
<1>1. CASE UNCHANGED vars
  BY <1>1, ComingFrame DEF vars, AckInv, LiveInv, DueInv
<1> QED BY <1>1, PublishAck, FanoutAck, SubscribeAck DEF Next

\* A publisher that has its PUBACK has reached, exactly once, every client that was
\* subscribed from the beginning of its Publish on, however SUBSCRIBE, UNSUBSCRIBE
\* and other publishers interleave with it.
THEOREM AckMeansReached == Spec => []AckedReached
<1>1. Init => AckInv
  BY DEF Init, AckInv, LiveInv, DueInv, Coming
<1>2. TypeInv /\ AckInv => AckedReached
  <2> SUFFICES ASSUME TypeInv, AckInv, NEW m \in 1..Len(log)
               PROVE  /\ \A c \in Clients : live[c][m] <= 1
                      /\ m \notin {publishing[p] : p \in Publishers} =>
                             \A c \in due[m] : live[c][m] = 1
    BY DEF AckedReached
  <2>1. m \in Message
    BY LogType
  <2> QED BY <2>1 DEF AckInv, LiveInv, DueInv, Coming
<1>3. TypeInv /\ AckInv /\ [Next]_vars => (TypeInv /\ AckInv)'
  BY TypeStep, AckStep
<1> QED BY <1>1, <1>2, <1>3, TypeInit, PTL DEF Spec
----------------------------------------------------------------------------
(***************************************************************************)
(* NoGap.                                                                  *)
(***************************************************************************)
\* How a retained message m of topic t has reached c, or is about to.
Reaches(c, t, m) ==
    \/ m \in stored[c] \cup backlog[c]
    \/ live[c][m] > 0
    \/ Coming(c, m)
    \/ WillLook(c, t)

\* A step that changes neither the store nor the index only has to keep what
\* reaches whom.
LEMMA FrameGap ==
    ASSUME GapInv, UNCHANGED <<retained, subs>>,
           ASSUME NEW t \in TopicNames, NEW c \in Subscribed(subs, t),
                  retained[t] # NoMsg, Reaches(c, t, retained[t]), NEW m, m = retained[t]
           PROVE  Reaches(c, t, m)'
    PROVE  GapInv'
<1> SUFFICES ASSUME NEW t \in TopicNames, NEW c \in Subscribed(subs, t), NEW m,
                    m = retained[t], m # NoMsg
             PROVE  Reaches(c, t, m)'
  BY DEF GapInv, Reaches
<1>1. Reaches(c, t, retained[t])
  BY DEF GapInv, Reaches
<1> QED BY <1>1

\* Publish stores before it matches: its message is coming to everybody, and every
\* other topic keeps what it had.
LEMMA PublishGap ==
    ASSUME TypeInv, GapInv, NEW p \in Publishers, NEW t \in TopicNames,
           NEW k \in Kinds, Publish(p, t, k)
    PROVE  GapInv'
<1>1. /\ UNCHANGED <<subs, stored, backlog, live, subscribing, looked>>
      /\ Len(log) \in Nat
  BY LogType DEF Publish
<1>2. \A c : \A m \in 1..(Len(log) + 1) :
         Coming(c, m)' <=> m = Len(log) + 1 \/ Coming(c, m)
  BY ComingPublish
<1>3. \A u \in TopicNames :
         retained'[u] \in {retained[u], Len(log) + 1, NoMsg} /\ retained[u] \in 0..Len(log)
  BY DEF Publish, Retention, Store, Remove, TypeInv, TypeOK
<1> SUFFICES ASSUME NEW u \in TopicNames, NEW c \in Subscribed(subs, u), NEW m,
                    m = retained'[u], m # NoMsg
             PROVE  Reaches(c, u, m)'
  BY <1>1 DEF GapInv, Reaches
<1>4. CASE m = Len(log) + 1
  BY <1>1, <1>2, <1>4 DEF Reaches
<1>5. CASE m # Len(log) + 1
  <2>1. m = retained[u] /\ m \in 1..Len(log)
    BY <1>1, <1>3, <1>5
  <2>2. Reaches(c, u, m)
    BY <2>1 DEF GapInv, Reaches
  <2> QED BY <1>1, <1>2, <2>1, <2>2 DEF Reaches, WillLook
<1> QED BY <1>4, <1>5

\* The rest of a PUBLISH: who is subscribed is on the list, and leaves it by
\* receiving.
LEMMA FanoutGap ==
    ASSUME TypeInv, GapInv, NEW p \in Publishers,
           Match(p) \/ DeliverLive(p) \/ PublishEnds(p)
    PROVE  GapInv'
<1>1. UNCHANGED <<retained, subs, stored, backlog, subscribing, looked, log>>
  BY DEF Match, DeliverLive, PublishEnds
<1> SUFFICES ASSUME NEW t \in TopicNames, NEW c \in Subscribed(subs, t),
                    retained[t] # NoMsg, Reaches(c, t, retained[t]),
                    NEW m, m = retained[t]
             PROVE  Reaches(c, t, m)'
  BY <1>1, FrameGap
<1>2. m \in Message /\ c \in Clients /\ log[m].topic = t
  <2>1. m \in 1..Len(log) /\ log[m] = [topic |-> t, kind |-> "retain"]
    BY LogType DEF TypeInv, TypeOK
  <2>2. c \in Clients
    BY DEF Subscribed
  <2> QED BY <2>1, <2>2, LogType
<1>3. CASE Match(p)
  <2>1. live' = live
    BY <1>3 DEF Match
  <2>2. Coming(c, m) => Coming(c, m)'
    BY <1>2, <1>3, ComingMatch
  <2> QED BY <1>1, <2>1, <2>2 DEF Reaches, WillLook
<1>4. CASE DeliverLive(p)
  <2>1. PICK d \in fanout[p] :
           /\ live' = [live EXCEPT ![d][publishing[p]] = @ + 1]
           /\ fanout' = [fanout EXCEPT ![p] = @ \ {d}]
    BY <1>4 DEF DeliverLive
  <2>2. UNCHANGED <<publishing, matched>>
    BY <1>4 DEF DeliverLive
  <2>3. Coming(c, m)' <=> Coming(c, m) /\ ~(c = d /\ m = publishing[p])
    BY <2>1, <2>2, ComingDeliver
  <2>4. d \in Clients /\ publishing[p] \in Message
    BY <2>1, LogType DEF TypeInv, TypeOK, ControlInv
  <2>5. live[c][m] \in Nat /\ live'[c][m] =
           IF c = d /\ m = publishing[p] THEN live[c][m] + 1 ELSE live[c][m]
    BY <2>1, <2>4, <1>2 DEF TypeInv, TypeOK
  <2> QED BY <1>1, <2>3, <2>5 DEF Reaches, WillLook
<1>5. CASE PublishEnds(p)
  <2>1. live' = live
    BY <1>5 DEF PublishEnds
  <2>2. Coming(c, m) => Coming(c, m)'
    BY <1>2, <1>5, ComingEnds
  <2> QED BY <1>1, <2>1, <2>2 DEF Reaches, WillLook
<1> QED BY <1>3, <1>4, <1>5

\* SUBSCRIBE writes the index before it looks at the store.
LEMMA SubscribeGap ==
    ASSUME TypeInv, GapInv, NEW d \in Clients, NEW f \in Filters, Subscribe(d, f)
    PROVE  GapInv'
<1>1. /\ UNCHANGED <<retained, stored, backlog, live, looked>>
      /\ UNCHANGED <<publishing, matched, fanout>>
  BY DEF Subscribe
<1>2. \A c, m : Coming(c, m)' <=> Coming(c, m)
  BY <1>1, ComingFrame
<1>3. f # NoFilter /\ ~looked[d] /\ subscribing[d] = NoFilter /\ subscribing'[d] = f
  BY FilterNotEmpty DEF Subscribe, TypeInv, TypeOK, ControlInv
<1> SUFFICES ASSUME NEW t \in TopicNames, NEW c \in Subscribed(subs', t), NEW m,
                    m = retained[t], m # NoMsg
             PROVE  Reaches(c, t, m)'
  BY <1>1 DEF GapInv, Reaches
<1>4. CASE c \in Subscribed(subs, t)
  <2>1. Reaches(c, t, m)
    BY <1>4 DEF GapInv, Reaches
  <2>2. WillLook(c, t) => WillLook(c, t)'
    BY <1>1, <1>3 DEF WillLook, Subscribe, TypeInv, TypeOK
  <2> QED BY <1>1, <1>2, <2>1, <2>2 DEF Reaches
<1>5. CASE c \notin Subscribed(subs, t)
  <2>1. c = d /\ Matches(f, t)
    BY <1>5 DEF Subscribed, Subscribe, TypeInv, TypeOK
  <2> QED BY <1>1, <1>3, <2>1 DEF Reaches, WillLook
<1> QED BY <1>4, <1>5

\* Unsubscribing leaves fewer to reach.
LEMMA UnsubscribeGap ==
    ASSUME TypeInv, GapInv, NEW d \in Clients, NEW f \in Filters, Unsubscribe(d, f)
    PROVE  GapInv'
<1>1. UNCHANGED <<retained, stored, backlog, live, looked, subscribing,
                  publishing, matched, fanout>>
  BY DEF Unsubscribe
<1>2. \A c, m : Coming(c, m)' <=> Coming(c, m)
  BY <1>1, ComingFrame
<1>3. \A t : Subscribed(subs', t) \subseteq Subscribed(subs, t)
  BY DEF Unsubscribe, Subscribed, TypeInv, TypeOK
<1>4. \A c, t : WillLook(c, t)' <=> WillLook(c, t)
  BY <1>1 DEF WillLook
<1> QED BY <1>1, <1>2, <1>3, <1>4 DEF GapInv

\* What Matching finds is delivered before SUBSCRIBE returns.
LEMMA DeliverGap ==
    ASSUME TypeInv, GapInv, NEW d \in Clients,
           Matching(d) \/ DeliverRetained(d) \/ SubscribeEnds(d)
    PROVE  GapInv'
<1>1. UNCHANGED <<retained, subs, live, publishing, matched, fanout>>
  BY DEF Matching, DeliverRetained, SubscribeEnds
<1> SUFFICES ASSUME NEW t \in TopicNames, NEW c \in Subscribed(subs, t),
                    retained[t] # NoMsg, Reaches(c, t, retained[t]),
                    NEW m, m = retained[t]
             PROVE  Reaches(c, t, m)'
  BY <1>1, FrameGap
<1>2. c \in Clients /\ (Coming(c, m)' <=> Coming(c, m))
  BY <1>1, ComingFrame DEF Subscribed
<1>3. CASE Matching(d)
  <2>1. c # d => Reaches(c, t, m)'
    BY <1>1, <1>2, <1>3 DEF Matching, Reaches, WillLook, TypeInv, TypeOK
  <2>2. backlog[d] = {} /\ stored' = stored
    BY <1>3 DEF Matching, TypeInv, ControlInv
  <2>3. c = d /\ WillLook(c, t) => m \in backlog'[c]
    BY <1>3 DEF Matching, WillLook, TypeInv, TypeOK
  <2> QED BY <1>1, <1>2, <2>1, <2>2, <2>3 DEF Reaches
<1>4. CASE DeliverRetained(d)
  <2>1. PICK x \in backlog[d] :
           /\ stored' = [stored EXCEPT ![d] = @ \cup {x}]
           /\ backlog' = [backlog EXCEPT ![d] = @ \ {x}]
    BY <1>4 DEF DeliverRetained
  <2>2. m \in stored[c] \cup backlog[c] => m \in stored'[c] \cup backlog'[c]
    BY <1>2, <2>1 DEF TypeInv, TypeOK
  <2>3. UNCHANGED <<subscribing, looked>>
    BY <1>4 DEF DeliverRetained
  <2> QED BY <1>1, <1>2, <2>2, <2>3 DEF Reaches, WillLook
<1>5. CASE SubscribeEnds(d)
  <2>1. WillLook(c, t) => WillLook(c, t)'
    BY <1>2, <1>5 DEF SubscribeEnds, WillLook, TypeInv, TypeOK
  <2> QED BY <1>1, <1>2, <1>5, <2>1 DEF SubscribeEnds, Reaches
<1> QED BY <1>3, <1>4, <1>5

\* One step of any goroutine.
LEMMA GapStep == TypeInv /\ GapInv /\ [Next]_vars => GapInv'
<1> SUFFICES ASSUME TypeInv, GapInv, [Next]_vars PROVE GapInv'
  OBVIOUS
<1>1. CASE UNCHANGED vars
  BY <1>1, ComingFrame DEF vars, GapInv, WillLook
<1> QED BY <1>1, PublishGap, FanoutGap, SubscribeGap, UnsubscribeGap, DeliverGap DEF Next

\* Between stored state and live traffic there is no gap: when neither a SUBSCRIBE
\* of the client nor a PUBLISH to the topic is under way, a subscriber has got the
\* retained message of every topic it is subscribed to.
THEOREM NothingBetween == Spec => []NoGap
<1>1. Init => GapInv
  BY DEF Init, GapInv
<1>2. TypeInv /\ GapInv => NoGap
  <2> SUFFICES ASSUME TypeInv, GapInv, NEW t \in TopicNames, NEW c \in Subscribed(subs, t),
                      subscribing[c] = NoFilter, retained[t] # NoMsg,
                      \A p \in Publishers :
                         publishing[p] # NoMsg => log[publishing[p]].topic # t
               PROVE  retained[t] \in stored[c] \/ live[c][retained[t]] > 0
    BY DEF NoGap
  <2>1. log[retained[t]].topic = t /\ c \in Clients
    <3>1. log[retained[t]] = [topic |-> t, kind |-> "retain"]
      BY DEF TypeInv, TypeOK
    <3>2. c \in Clients
      BY DEF Subscribed
    <3> QED BY <3>1, <3>2
  <2>2. ~Coming(c, retained[t]) /\ ~WillLook(c, t)
    BY <2>1 DEF Coming, WillLook
  <2>3. backlog[c] = {}
    BY <2>1 DEF TypeInv, ControlInv
  <2> QED BY <2>2, <2>3 DEF GapInv
<1>3. TypeInv /\ GapInv /\ [Next]_vars => (TypeInv /\ GapInv)'
  BY TypeStep, GapStep
<1> QED BY <1>1, <1>2, <1>3, TypeInit, PTL DEF Spec
============================================================================
