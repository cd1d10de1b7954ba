------------------------ MODULE LiveBroadcastProofs ------------------------
(***************************************************************************)
(* Theorems about LiveBroadcast for any number of browsers, any limit and  *)
(* any number of packets: the limit on clients, the slots behind it and    *)
(* the order in which a connection receives snapshots.                     *)
(***************************************************************************)
EXTENDS LiveBroadcast, FiniteSetTheorems, TLAPS

Handlers == {"none", "accepted", "sending", "waiting", "refusing"}
Slot == Nat \cup {Nothing}      \* a snapshot or none

\* Every variable has its type.
TypeInv ==
    /\ revision \in Nat
    /\ publishing \in BOOLEAN
    /\ latest \in Slot
    /\ subscribers \in SUBSET Dashboards
    /\ queue \in [Dashboards -> Slot]
    /\ debugClients \in Nat
    /\ handler \in [Browsers -> Handlers]
    /\ sending \in [Browsers -> Slot]
    /\ sent \in [Browsers -> Slot]
    /\ gone \in SUBSET Browsers

\* Every step of the module, one name per action.
LEMMA NextCases ==
    ASSUME Next
    PROVE  \/ ReceivePacket \/ Publish \/ PublisherDies
           \/ \E b \in Browsers : Accept(b) \/ Vanish(b) \/ Refuse(b) \/ Refused(b)
           \/ \E c \in Dashboards : Subscribe(c)
           \/ \E c \in Dashboards : SubscribeFails(c)
           \/ \E c \in Dashboards : Wake(c)
           \/ \E c \in Dashboards : Sent(c)
           \/ \E c \in Dashboards : SendFails(c)
           \/ \E d \in Debuggers : DebugJoin(d)
           \/ \E d \in Debuggers : DebugSent(d)
           \/ \E d \in Debuggers : DebugNext(d)
           \/ \E d \in Debuggers : DebugFails(d)
  BY DEF Next, DashboardStep, DebugStep

\* Either kind of browser is a browser.
LEMMA Kinds == Dashboards \subseteq Browsers /\ Debuggers \subseteq Browsers
  BY DEF Browsers

\* The types hold initially.
LEMMA TypeInit == Init => TypeInv
  BY DEF Init, TypeInv, Slot, Handlers

\* Every step preserves the types.
LEMMA TypeStep == TypeInv /\ [Next]_vars => TypeInv'
  <1> SUFFICES ASSUME TypeInv, [Next]_vars PROVE TypeInv'
    OBVIOUS
  <1> USE Kinds DEF TypeInv, Slot, Handlers
  <1>1. CASE ReceivePacket
    BY <1>1 DEF ReceivePacket
  <1>2. CASE Publish
    BY <1>2 DEF Publish, QueuesAfterPublish
  <1>3. CASE PublisherDies
    BY <1>3 DEF PublisherDies
  <1>4. CASE \E b \in Browsers : Accept(b) \/ Vanish(b) \/ Refuse(b) \/ Refused(b)
    BY <1>4 DEF Accept, Vanish, Refuse, Refused
  <1>5. CASE \E c \in Dashboards : Subscribe(c)
    <2>1. PICK c \in Dashboards : Subscribe(c)
      BY <1>5
    <2>2. QueuesAfterPublish(revision, subscribers) \in [Dashboards -> Slot]
      BY DEF QueuesAfterPublish
    <2>3. latest' \in Slot
      BY <2>1 DEF Subscribe
    <2>4. queue' \in [Dashboards -> Slot]
      BY <2>1, <2>2 DEF Subscribe
    <2>5. sending' \in [Browsers -> Slot] /\ handler' \in [Browsers -> Handlers]
      BY <2>1, <2>3 DEF Subscribe
    <2> QED
      BY <2>1, <2>3, <2>4, <2>5 DEF Subscribe
  <1>6. CASE \E c \in Dashboards : SubscribeFails(c)
    BY <1>6 DEF SubscribeFails
  <1>7. CASE \E c \in Dashboards : Wake(c)
    BY <1>7 DEF Wake
  <1>8. CASE \E c \in Dashboards : Sent(c)
    BY <1>8 DEF Sent
  <1>9. CASE \E c \in Dashboards : SendFails(c)
    BY <1>9 DEF SendFails
  <1>10. CASE \E d \in Debuggers : DebugJoin(d)
    BY <1>10 DEF DebugJoin
  <1>11. CASE \E d \in Debuggers : DebugSent(d)
    BY <1>11 DEF DebugSent
  <1>12. CASE \E d \in Debuggers : DebugNext(d)
    BY <1>12 DEF DebugNext
  <1>13. CASE \E d \in Debuggers : DebugFails(d)
    BY <1>13 DEF DebugFails
  <1>14. CASE UNCHANGED vars
    BY <1>14 DEF vars
  <1> QED
    BY <1>1, <1>2, <1>3, <1>4, <1>5, <1>6, <1>7, <1>8, <1>9, <1>10, <1>11, <1>12, <1>13, <1>14, NextCases

----------------------------------------------------------------------------
(* The slots and the limit.                                                *)

\* The browsers that are served, and those of one kind, are finitely many.
LEMMA ServedFinite ==
    /\ IsFiniteSet(Served)
    /\ IsFiniteSet(Served \cap Dashboards) /\ IsFiniteSet(Served \cap Debuggers)
    /\ Cardinality(Served \cap Dashboards) \in Nat /\ Cardinality(Served \cap Debuggers) \in Nat
  <1>1. IsFiniteSet(Browsers)
    BY BroadcastAssumption, FS_Union DEF Browsers
  <1>2. Served \subseteq Browsers
    BY DEF Served
  <1>3. /\ IsFiniteSet(Served) /\ IsFiniteSet(Served \cap Dashboards)
        /\ IsFiniteSet(Served \cap Debuggers)
    BY <1>1, <1>2, FS_Subset, Served \cap Dashboards \subseteq Served,
       Served \cap Debuggers \subseteq Served
  <1> QED
    BY <1>3, FS_CardinalityType

\* The counted clients never exceed the limit.
SlotInv ==
    /\ SlotsMatchHandlers
    /\ websocket_clients <= MaxClients

\* What a handler that starts or stops serving does to the browsers served.
LEMMA ServedMoves ==
    ASSUME TypeInv, NEW b \in Browsers, NEW h \in Handlers,
           handler' = [handler EXCEPT ![b] = h]
    PROVE  /\ h \in {"sending", "waiting"} => Served' = Served \cup {b}
           /\ h \notin {"sending", "waiting"} => Served' = Served \ {b}
  BY DEF TypeInv, Served

\* The slots match the handlers initially: nobody is served.
LEMMA SlotInit == Init => SlotInv
  <1> SUFFICES ASSUME Init PROVE SlotInv
    OBVIOUS
  <1>1. Served = {}
    BY DEF Init, Served
  <1>2. Cardinality({}) = 0
    BY FS_EmptySet
  <1> QED
    BY <1>1, <1>2, BroadcastAssumption
       DEF Init, SlotInv, SlotsMatchHandlers, websocket_clients

\* A step that leaves the served browsers, the subscribers and the count alone.
LEMMA SlotSame ==
    ASSUME SlotInv, Served' = Served, UNCHANGED <<subscribers, debugClients>>
    PROVE  SlotInv'
  BY DEF SlotInv, SlotsMatchHandlers, websocket_clients

\* Every step keeps the count of the slots equal to the handlers that hold one:
\* the limit is looked at in the same step that takes the slot.
LEMMA SlotStep == TypeInv /\ SlotInv /\ [Next]_vars => SlotInv'
  <1> SUFFICES ASSUME TypeInv, SlotInv, [Next]_vars PROVE SlotInv'
    OBVIOUS
  <1> USE Kinds, BroadcastAssumption
  <1>1. CASE ReceivePacket \/ Publish \/ PublisherDies \/ UNCHANGED vars
    BY <1>1, SlotSame DEF ReceivePacket, Publish, PublisherDies, vars, Served
  <1>2. CASE \E b \in Browsers : Accept(b) \/ Vanish(b) \/ Refuse(b) \/ Refused(b)
    <2>1. Served' = Served
      BY <1>2 DEF Accept, Vanish, Refuse, Refused, TypeInv, Served
    <2> QED
      BY <1>2, <2>1, SlotSame DEF Accept, Vanish, Refuse, Refused
  <1>3. CASE \E c \in Dashboards : SubscribeFails(c) \/ Wake(c) \/ Sent(c)
    <2>1. Served' = Served
      BY <1>3 DEF SubscribeFails, Wake, Sent, TypeInv, Served
    <2> QED
      BY <1>3, <2>1, SlotSame DEF SubscribeFails, Wake, Sent
  <1>4. CASE \E d \in Debuggers : DebugSent(d) \/ DebugNext(d)
    <2>1. Served' = Served
      BY <1>4 DEF DebugSent, DebugNext, TypeInv, Served
    <2> QED
      BY <1>4, <2>1, SlotSame DEF DebugSent, DebugNext
  <1>5. CASE \E c \in Dashboards : Subscribe(c)
    <2>1. PICK c \in Dashboards : Subscribe(c)
      BY <1>5
    <2>2. Served' = Served \cup {c} /\ c \notin Served
      BY <2>1, ServedMoves DEF Subscribe, Handlers, Served
    <2>3. /\ subscribers' = subscribers \cup {c} /\ debugClients' = debugClients
          /\ websocket_clients < MaxClients
      BY <2>1 DEF Subscribe, HasRoom
    <2>4. Served' \cap Dashboards = subscribers' /\ Served' \cap Debuggers = Served \cap Debuggers
      BY <2>2, <2>3 DEF SlotInv, SlotsMatchHandlers
    <2>5. Cardinality(subscribers') = Cardinality(subscribers) + 1
      BY <2>2, <2>3, ServedFinite, FS_AddElement DEF SlotInv, SlotsMatchHandlers
    <2>6. Cardinality(subscribers) \in Nat
      BY ServedFinite DEF SlotInv, SlotsMatchHandlers
    <2>7. SlotsMatchHandlers'
      BY <2>3, <2>4 DEF SlotInv, SlotsMatchHandlers
    <2>8. websocket_clients' <= MaxClients
      BY <2>3, <2>5, <2>6 DEF websocket_clients, TypeInv
    <2> QED
      BY <2>7, <2>8 DEF SlotInv
  <1>6. CASE \E c \in Dashboards : SendFails(c)
    <2>1. PICK c \in Dashboards : SendFails(c)
      BY <1>6
    <2>2. Served' = Served \ {c}
      BY <2>1, ServedMoves DEF SendFails, Handlers
    <2>3. subscribers' = subscribers \ {c} /\ debugClients' = debugClients
      BY <2>1 DEF SendFails
    <2>4. Served' \cap Dashboards = subscribers' /\ Served' \cap Debuggers = Served \cap Debuggers
      BY <2>2, <2>3 DEF SlotInv, SlotsMatchHandlers
    <2>5. /\ Cardinality(subscribers) \in Nat /\ Cardinality(subscribers') \in Nat
          /\ Cardinality(subscribers') <= Cardinality(subscribers)
      BY <2>3, ServedFinite, FS_Subset, FS_CardinalityType DEF SlotInv, SlotsMatchHandlers
    <2> QED
      BY <2>3, <2>4, <2>5 DEF SlotInv, SlotsMatchHandlers, websocket_clients, TypeInv
  <1>7. CASE \E d \in Debuggers : DebugJoin(d)
    <2>1. PICK d \in Debuggers : DebugJoin(d)
      BY <1>7
    <2>2. Served' = Served \cup {d} /\ d \notin Served
      BY <2>1, ServedMoves DEF DebugJoin, Handlers, Served
    <2>3. /\ subscribers' = subscribers /\ debugClients' = debugClients + 1
          /\ websocket_clients < MaxClients
      BY <2>1 DEF DebugJoin, HasRoom
    <2>4. /\ Served' \cap Dashboards = Served \cap Dashboards
          /\ Served' \cap Debuggers = (Served \cap Debuggers) \cup {d}
      BY <2>2
    <2>5. Cardinality(Served' \cap Debuggers) = Cardinality(Served \cap Debuggers) + 1
      BY <2>2, <2>4, ServedFinite, FS_AddElement
    <2>6. Cardinality(subscribers) \in Nat
      BY ServedFinite DEF SlotInv, SlotsMatchHandlers
    <2> QED
      BY <2>3, <2>4, <2>5, <2>6 DEF SlotInv, SlotsMatchHandlers, websocket_clients, TypeInv
  <1>8. CASE \E d \in Debuggers : DebugFails(d)
    <2>1. PICK d \in Debuggers : DebugFails(d)
      BY <1>8
    <2>2. Served' = Served \ {d} /\ d \in Served
      BY <2>1, ServedMoves DEF DebugFails, Handlers, Served
    <2>3. /\ Served' \cap Dashboards = Served \cap Dashboards
          /\ Served' \cap Debuggers = (Served \cap Debuggers) \ {d}
          /\ d \in Served \cap Debuggers
      BY <2>2
    <2>a. /\ IsFiniteSet((Served \cap Debuggers) \ {d})
          /\ Cardinality((Served \cap Debuggers) \ {d}) = Cardinality(Served \cap Debuggers) - 1
      BY <2>3, ServedFinite, FS_RemoveElement
    <2>4. /\ Cardinality(Served' \cap Debuggers) = Cardinality(Served \cap Debuggers) - 1
          /\ Cardinality(Served \cap Debuggers) \in Nat
          /\ Cardinality(Served' \cap Debuggers) \in Nat
      BY <2>3, <2>a, ServedFinite, FS_CardinalityType
    <2>5. subscribers' = subscribers /\ debugClients' = debugClients - 1
      BY <2>1, <2>4 DEF DebugFails, SlotInv, SlotsMatchHandlers
    <2>6. Cardinality(subscribers) \in Nat
      BY ServedFinite DEF SlotInv, SlotsMatchHandlers
    <2> QED
      BY <2>3, <2>4, <2>5, <2>6 DEF SlotInv, SlotsMatchHandlers, websocket_clients, TypeInv
  <1> QED
    BY <1>1, <1>2, <1>3, <1>4, <1>5, <1>6, <1>7, <1>8, NextCases

\* Two kinds of client, one limit: the browsers served are the clients counted.
LEMMA ServedCounted == SlotInv => LimitHeld
  <1> SUFFICES ASSUME SlotInv PROVE LimitHeld
    OBVIOUS
  <1> DEFINE A == Served \cap Dashboards
             B == Served \cap Debuggers
  <1>1. Served = A \cup B /\ A \cap B = {}
    BY BroadcastAssumption DEF Served, Browsers
  <1>2. /\ IsFiniteSet(A) /\ IsFiniteSet(B) /\ Cardinality(A) \in Nat /\ Cardinality(B) \in Nat
    BY ServedFinite
  <1> HIDE DEF A, B
  <1>3. Cardinality(A \cup B) = Cardinality(A) + Cardinality(B) - Cardinality(A \cap B)
    BY <1>2, FS_Union
  <1>4. Cardinality(Served) = Cardinality(A) + Cardinality(B)
    BY <1>1, <1>2, <1>3, FS_EmptySet
  <1> QED
    BY <1>4 DEF SlotInv, SlotsMatchHandlers, websocket_clients, LimitHeld, A, B

\* No slot leaks and none is lent twice, however connections end.
THEOREM SlotsAlwaysMatch == Spec => []SlotsMatchHandlers
  <1>1. SlotInv => SlotsMatchHandlers
    BY DEF SlotInv
  <1> QED
    BY <1>1, TypeInit, TypeStep, SlotInit, SlotStep, PTL DEF Spec

\* Never are more browsers served than max_websocket_clients allows, of both kinds
\* together, however their handlers interleave.
THEOREM LimitAlwaysHeld == Spec => []LimitHeld
  BY TypeInit, TypeStep, SlotInit, SlotStep, ServedCounted, PTL DEF Spec

----------------------------------------------------------------------------
(* The order of snapshots.                                                 *)

\* Snapshot a is not newer than snapshot b, where there are both.
NotAfter(a, b) == a # Nothing /\ b # Nothing => a <= b

\* NeverBackwards follows from the order of the snapshots on their way: what was
\* sent, is being sent, is queued and was published, up to the revision.
OrderInv ==
    /\ NotAfter(latest, revision)
    /\ \A b \in Browsers :
           /\ NotAfter(sent[b], sending[b])
           /\ NotAfter(sent[b], revision) /\ NotAfter(sending[b], revision)
           /\ b \notin Served => sent[b] = Nothing
    /\ \A c \in Dashboards :
           /\ NotAfter(sent[c], queue[c]) /\ NotAfter(sending[c], queue[c])
           /\ NotAfter(queue[c], revision)

\* A snapshot in a queue is the newest one, and only a subscriber has one.
QueueInv ==
    \A c \in Dashboards : queue[c] # Nothing => queue[c] = latest /\ c \in subscribers

\* No queue holds a snapshot initially.
LEMMA QueueInit == Init => QueueInv
  BY DEF Init, QueueInv

\* Every step keeps the queues at the newest snapshot: who publishes replaces what all
\* subscribers have in theirs.
LEMMA QueueStep == TypeInv /\ QueueInv /\ [Next]_vars => QueueInv'
  <1> SUFFICES ASSUME TypeInv, QueueInv, [Next]_vars, NEW x \in Dashboards, queue'[x] # Nothing
               PROVE  queue'[x] = latest' /\ x \in subscribers'
    BY DEF QueueInv
  <1> USE DEF TypeInv, QueueInv
  <1>1. CASE UNCHANGED <<queue, latest, subscribers>>
    BY <1>1
  <1>2. CASE Publish
    BY <1>2 DEF Publish, QueuesAfterPublish
  <1>3. CASE \E c \in Dashboards : Subscribe(c)
    <2>1. PICK c \in Dashboards : Subscribe(c)
      BY <1>3
    <2>2. x # c /\ subscribers' = subscribers \cup {c}
      BY <2>1 DEF Subscribe, QueuesAfterPublish
    <2>3. CASE latest = Nothing
      <3>1. queue[x] = Nothing
        BY <2>3
      <3>2. queue'[x] = IF x \in subscribers THEN revision ELSE queue[x]
        BY <2>1, <2>2, <2>3 DEF Subscribe, QueuesAfterPublish
      <3> QED
        BY <2>1, <2>2, <2>3, <3>1, <3>2 DEF Subscribe
    <2>4. CASE latest # Nothing
      <3>1. queue'[x] = queue[x] /\ latest' = latest
        BY <2>1, <2>2, <2>4 DEF Subscribe
      <3> QED
        BY <2>2, <3>1
    <2> QED
      BY <2>3, <2>4
  <1>4. CASE \E c \in Dashboards : Wake(c)
    BY <1>4 DEF Wake
  <1>5. CASE \E c \in Dashboards : Sent(c)
    BY <1>5 DEF Sent
  <1>6. CASE \E c \in Dashboards : SendFails(c)
    BY <1>6 DEF SendFails
  <1> QED
    BY <1>1, <1>2, <1>3, <1>4, <1>5, <1>6, NextCases
       DEF ReceivePacket, PublisherDies, Accept, Vanish, Refuse, Refused, SubscribeFails,
           DebugJoin, DebugSent, DebugNext, DebugFails, vars

\* The order holds initially: nothing is on its way.
LEMMA OrderInit == Init => OrderInv
  BY Kinds DEF Init, OrderInv, NotAfter

\* Every step preserves the order.
LEMMA OrderStep == TypeInv /\ OrderInv /\ [Next]_vars => OrderInv'
  <1> SUFFICES ASSUME TypeInv, OrderInv, [Next]_vars PROVE OrderInv'
    OBVIOUS
  <1> USE Kinds, BroadcastAssumption DEF TypeInv, OrderInv, NotAfter, Slot, Served, Handlers
  <1>1. CASE ReceivePacket
    BY <1>1 DEF ReceivePacket
  <1>2. CASE Publish
    BY <1>2 DEF Publish, QueuesAfterPublish
  <1>3. CASE PublisherDies
    BY <1>3 DEF PublisherDies
  <1>4. CASE \E b \in Browsers : Accept(b) \/ Vanish(b) \/ Refuse(b) \/ Refused(b)
    BY <1>4 DEF Accept, Vanish, Refuse, Refused
  <1>5. CASE \E c \in Dashboards : Subscribe(c)
    <2>1. PICK c \in Dashboards : Subscribe(c)
      BY <1>5
    <2>2. NotAfter(latest', revision) /\ revision' = revision /\ sent' = sent
      BY <2>1 DEF Subscribe
    <2>3. \A b \in Browsers : sending'[b] = IF b = c THEN latest' ELSE sending[b]
      BY <2>1 DEF Subscribe
    <2>4. \A x \in Dashboards : /\ queue'[x] \in {queue[x], revision, Nothing}
                                /\ x = c => queue'[x] = Nothing
      BY <2>1 DEF Subscribe, QueuesAfterPublish
    <2>5. sent[c] = Nothing /\ Served' = Served \cup {c}
      BY <2>1 DEF Subscribe
    <2> QED
      BY <2>2, <2>3, <2>4, <2>5
  <1>6. CASE \E c \in Dashboards : SubscribeFails(c)
    BY <1>6 DEF SubscribeFails
  <1>7. CASE \E c \in Dashboards : Wake(c)
    BY <1>7 DEF Wake
  <1>8. CASE \E c \in Dashboards : Sent(c)
    BY <1>8 DEF Sent
  <1>9. CASE \E c \in Dashboards : SendFails(c)
    BY <1>9 DEF SendFails
  <1>10. CASE \E d \in Debuggers : DebugJoin(d)
    BY <1>10 DEF DebugJoin
  <1>11. CASE \E d \in Debuggers : DebugSent(d)
    BY <1>11 DEF DebugSent
  <1>12. CASE \E d \in Debuggers : DebugNext(d)
    BY <1>12 DEF DebugNext
  <1>13. CASE \E d \in Debuggers : DebugFails(d)
    BY <1>13 DEF DebugFails
  <1>14. CASE UNCHANGED vars
    BY <1>14 DEF vars
  <1> QED
    BY <1>1, <1>2, <1>3, <1>4, <1>5, <1>6, <1>7, <1>8, <1>9, <1>10, <1>11, <1>12, <1>13, <1>14, NextCases

\* A step that changes what a connection has received, changes it to something newer.
LEMMA ForwardStep ==
    TypeInv /\ OrderInv /\ [Next]_vars =>
        \A b \in Browsers : sent[b] # Nothing /\ sent'[b] # Nothing => sent'[b] >= sent[b]
  <1> SUFFICES ASSUME TypeInv, OrderInv, [Next]_vars, NEW b \in Browsers,
                      sent[b] # Nothing, sent'[b] # Nothing
               PROVE  sent'[b] >= sent[b]
    OBVIOUS
  <1> USE Kinds, BroadcastAssumption DEF TypeInv, OrderInv, NotAfter, Slot
  <1>1. sent[b] \in Nat
    OBVIOUS
  <1>2. CASE sent'[b] = sent[b]
    BY <1>1, <1>2
  <1>3. CASE \E c \in Dashboards : Sent(c)
    BY <1>3 DEF Sent
  <1>4. CASE \E d \in Debuggers : DebugSent(d)
    BY <1>4 DEF DebugSent
  <1>5. CASE \E c \in Dashboards : SendFails(c)
    BY <1>1, <1>5 DEF SendFails
  <1>6. CASE \E d \in Debuggers : DebugFails(d)
    BY <1>1, <1>6 DEF DebugFails
  <1> QED
    BY <1>2, <1>3, <1>4, <1>5, <1>6, NextCases
       DEF ReceivePacket, Publish, PublisherDies, Accept, Vanish, Refuse, Refused, Subscribe,
           SubscribeFails, Wake, DebugJoin, DebugNext, vars

\* What a handler of a dashboard takes up, it takes from a queue or from publish().
LEMMA NewestStep ==
    TypeInv /\ QueueInv /\ [Next]_vars =>
        \A c \in Dashboards : sending'[c] \notin {sending[c], Nothing} => sending'[c] = latest'
  <1> SUFFICES ASSUME TypeInv, QueueInv, [Next]_vars, NEW x \in Dashboards,
                      sending'[x] \notin {sending[x], Nothing}
               PROVE  sending'[x] = latest'
    OBVIOUS
  <1> USE Kinds, BroadcastAssumption DEF TypeInv, QueueInv
  <1>1. CASE \E c \in Dashboards : Subscribe(c)
    BY <1>1 DEF Subscribe
  <1>2. CASE \E c \in Dashboards : Wake(c)
    BY <1>2 DEF Wake
  <1>3. CASE \E c \in Dashboards : Sent(c)
    BY <1>3 DEF Sent
  <1>4. CASE \E c \in Dashboards : SendFails(c)
    BY <1>4 DEF SendFails
  <1>5. CASE \E d \in Debuggers : DebugJoin(d) \/ DebugSent(d) \/ DebugNext(d) \/ DebugFails(d)
    <2>1. PICK d \in Debuggers : DebugJoin(d) \/ DebugSent(d) \/ DebugNext(d) \/ DebugFails(d)
      BY <1>5
    <2>2. x # d
      OBVIOUS
    <2>3. sending'[x] = sending[x]
      BY <2>1, <2>2 DEF DebugJoin, DebugSent, DebugNext, DebugFails
    <2> QED
      BY <2>3
  <1> QED
    BY <1>1, <1>2, <1>3, <1>4, <1>5, NextCases
       DEF ReceivePacket, Publish, PublisherDies, Accept, Vanish, Refuse, Refused,
           SubscribeFails, vars

\* On one connection no browser ever receives an older snapshot than before, and a
\* dashboard is always sent the newest one published.
THEOREM ConnectionsNeverGoBack == Spec => NeverBackwards
  <1>1. TypeInv /\ OrderInv /\ QueueInv /\ [Next]_vars =>
            [/\ \A b \in Browsers :
                    sent[b] # Nothing /\ sent'[b] # Nothing => sent'[b] >= sent[b]
             /\ \A c \in Dashboards :
                    sending'[c] \notin {sending[c], Nothing} => sending'[c] = latest']_vars
    BY ForwardStep, NewestStep
  <1> QED
    BY <1>1, TypeInit, TypeStep, OrderInit, OrderStep, QueueInit, QueueStep, PTL
       DEF Spec, NeverBackwards
=============================================================================
