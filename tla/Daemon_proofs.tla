--------------------------- MODULE Daemon_proofs ---------------------------
(* Theorems about Daemon, for any phones, addresses, bounds and deadlines. *)
EXTENDS Daemon, TLAPS

USE NoneAssumption, BoundsAssumption

Events == [kind : {"connected", "handshake", "closed"}, s : Sessions]

-----------------------------------------------------------------------------
(* The channel: what Append and Tail do to its positions. *)

\* An event goes to the end of the channel and moves no other.
LEMMA EventAppended ==
    ASSUME NEW q \in Seq(Events), NEW e \in Events
    PROVE  /\ Append(q, e) \in Seq(Events) /\ Len(Append(q, e)) = Len(q) + 1
           /\ \A i \in 1..Len(q) : Append(q, e)[i] = q[i]
           /\ Append(q, e)[Len(q) + 1] = e
  OBVIOUS

\* Taking the first event moves every other one place forward.
LEMMA EventTaken ==
    ASSUME NEW q \in Seq(Events), q # <<>>
    PROVE  /\ Tail(q) \in Seq(Events) /\ Len(Tail(q)) = Len(q) - 1
           /\ 1 \in 1..Len(q) /\ Head(q) = q[1] /\ Head(q) \in Events
           /\ \A i \in 1..Len(Tail(q)) : i + 1 \in 1..Len(q) /\ Tail(q)[i] = q[i + 1]
  OBVIOUS

\* Every position holds an event of some session.
LEMMA EventAt ==
    ASSUME NEW q \in Seq(Events), NEW i \in 1..Len(q)
    PROVE  q[i] \in Events /\ q[i].s \in Sessions
<1>1. q[i] \in Events
  OBVIOUS
<1>2. QED
  BY <1>1 DEF Events

-----------------------------------------------------------------------------
(* The initial states. *)

\* What the daemon starts with is in range.
LEMMA InitTypes == Init => TypeOK
<1> SUFFICES ASSUME Init PROVE TypeOK
  OBVIOUS
<1> USE DEF Init, None
<1>1. TokensOK
  BY DEF TokensOK
<1>2. DevicesOK
  BY DEF DevicesOK
<1>3. SessionsOK
  BY DEF SessionsOK
<1>4. MapsOK
  BY DEF MapsOK
<1>5. OrchOK
  BY DEF OrchOK
<1>6. RedeemedOK
  BY DEF RedeemedOK
<1>7. QED
  BY <1>1, <1>2, <1>3, <1>4, <1>5, <1>6 DEF TypeOK

\* Nothing is connected, queued or flagged when the daemon starts.
LEMMA InitSessions == Init => SessionInv
  BY DEF Init, None, SessionInv, SessionsHaveAddresses, QueueInOrder, ServesItsSession,
         PassedIsRight, SharesAddress, Known, MapsAgree, FlagWillClear

-----------------------------------------------------------------------------
(* Type correctness needs the invariant on sessions: there is a device to file  *)
(* under an address only because the session being served names one.            *)

\* While a handshake is served, its session has an address and names a device.
LEMMA ServedDevice ==
    ASSUME TypeOK, SessionInv, at # "idle"
    PROVE  serving \in Sessions /\ from[serving] \in Remotes /\ Dev(serving) \in Devices
  BY DEF TypeOK, SessionsOK, SessionInv, SessionsHaveAddresses, ServesItsSession, Dev

\* So has the session of the event at the head of the channel.
LEMMA ReceivedDevice ==
    ASSUME TypeOK, SessionInv, NEW s \in Sessions, NEW kind, Receives(kind, s)
    PROVE  /\ Known(s) /\ from[s] \in Remotes /\ Dev(s) \in Devices
           /\ queue' \in Seq(Events)
  <1>1. queue \in Seq(Events)
    BY DEF TypeOK, SessionsOK, Events
  <1>2. queue[1] = Event(kind, s) /\ 1 \in 1..Len(queue) /\ queue' \in Seq(Events)
    BY <1>1, EventTaken DEF Receives
  <1>3. Known(s)
    BY <1>2 DEF SessionInv, QueueInOrder, Event
  <1>4. QED
    BY <1>2, <1>3 DEF SessionInv, SessionsHaveAddresses, Dev, Known

\* Every step keeps every variable in its range.
LEMMA TypeStep == TypeOK /\ SessionInv /\ [Next]_vars => TypeOK'
<1> SUFFICES ASSUME TypeOK, SessionInv, [Next]_vars PROVE TypeOK'
  OBVIOUS
<1> USE DEF TypeOK, None, Remaining, Awaited, DropHandle, DropFlag, TimedOut
<1> USE DEF pairingVars, humanVars, storeVars, busVars, mapVars, sessVars, orchVars
<1>1. CASE Tick
  <2>1. TokensOK' /\ OrchOK'
    BY <1>1 DEF Tick, TokensOK, OrchOK
  <2>2. QED
    BY <1>1, <2>1 DEF Tick, RedeemedOK, DevicesOK, SessionsOK, MapsOK
<1>2. CASE Restart
  <2> USE <1>2 DEF Restart
  <2>1. TokensOK' /\ OrchOK'
    BY DEF TokensOK, OrchOK
  <2>2. DevicesOK'
    BY DEF DevicesOK
  <2>3. SessionsOK' /\ MapsOK'
    BY DEF SessionsOK, MapsOK
  <2>4. RedeemedOK'
    BY DEF RedeemedOK
  <2>5. QED
    BY <2>1, <2>2, <2>3, <2>4
<1>3. ASSUME NEW s \in Sessions, NEW r \in Remotes, NEW t \in Tokens \cup {None},
             NEW d \in Devices, Dial(s, r, d, t) PROVE TypeOK'
  <2>1. SessionsOK'
    BY <1>3 DEF Dial, SessionsOK
  <2>2. QED
    BY <1>3, <2>1 DEF Dial, TokensOK, RedeemedOK, DevicesOK, MapsOK, OrchOK
<1>0. ASSUME NEW s \in Sessions, AcceptFails(s) PROVE TypeOK'
  <2>1. SessionsOK'
    BY <1>0 DEF AcceptFails, Forgotten, SessionsOK
  <2>2. QED
    BY <1>0, <2>1 DEF AcceptFails, TokensOK, RedeemedOK, DevicesOK, MapsOK, OrchOK
<1>4. ASSUME NEW s \in Sessions, Accept(s) \/ Hello(s) \/ Close(s) PROVE TypeOK'
  <2>1. queue' \in Seq(Events)
    <3>1. queue \in Seq(Events)
      BY DEF SessionsOK, Events
    <3>2. \A kind \in {"connected", "handshake", "closed"} : Event(kind, s) \in Events
      BY DEF Event, Events
    <3>3. QED
      BY <1>4, <3>1, <3>2, EventAppended DEF Accept, Hello, Close
  <2>2. SessionsOK'
    BY <1>4, <2>1 DEF Accept, Hello, Close, SessionsOK, Events
  <2>3. QED
    BY <1>4, <2>2 DEF Accept, Hello, Close, TokensOK, RedeemedOK, DevicesOK, MapsOK, OrchOK
<1>5. ASSUME NEW t \in Tokens, StartPairing(t) \/ StoreToken(t) PROVE TypeOK'
  <2>1. TokensOK'
    BY <1>5 DEF StartPairing, StoreToken, TokensOK
  <2>2. RedeemedOK'
    BY <1>5 DEF StartPairing, StoreToken, RedeemedOK
  <2>3. QED
    BY <1>5, <2>1, <2>2 DEF StartPairing, StoreToken, DevicesOK, SessionsOK, MapsOK, OrchOK
<1>6. ASSUME NEW d \in Devices, NEW accept \in BOOLEAN, ConfirmPairing(d, accept)
      PROVE TypeOK'
  <2>1. DevicesOK' /\ OrchOK'
    BY <1>6 DEF ConfirmPairing, DevicesOK, OrchOK
  <2>2. QED
    BY <1>6, <2>1 DEF ConfirmPairing, TokensOK, RedeemedOK, SessionsOK, MapsOK
<1>7. ASSUME NEW d \in Devices, Unpair(d) \/ UnpairStep(d) PROVE TypeOK'
  <2> USE <1>7 DEF Unpair, UnpairStep, UnpairForget, UnpairPersist, UnpairRemove, Save
  <2>1. DevicesOK'
    BY DEF DevicesOK
  <2>2. QED
    BY <2>1 DEF TokensOK, RedeemedOK, SessionsOK, MapsOK, OrchOK
<1>8. ASSUME NEW s \in Sessions, OnConnected(s) \/ OnClosed(s) PROVE TypeOK'
  <2>1. from[s] \in Remotes /\ queue' \in Seq(Events)
    BY <1>8, ReceivedDevice DEF OnConnected, OnClosed
  <2>2. SessionsOK' /\ MapsOK'
    <3>1. CASE OnConnected(s)
      BY <2>1, <3>1 DEF OnConnected, SessionsOK, MapsOK, Events
    <3>2. CASE OnClosed(s)
      <4>1. MapsOK'
        BY <2>1, <3>2 DEF OnClosed, DropHandle, MapsOK
      <4>2. /\ sess' \in [Sessions -> {"none", "admitted", "accepted", "hello", "closed"}]
            /\ from' \in [Sessions -> Remotes \cup {None}]
            /\ who' \in [Sessions -> Devices \cup {None}]
            /\ token' \in [Sessions -> Tokens \cup {None}]
        BY <3>2 DEF OnClosed, Forgotten, SessionsOK
      <4>3. using' \in [Devices -> Sessions \cup {None}] /\ passed' \subseteq Devices
        BY <3>2 DEF OnClosed, Forgotten, SessionsOK
      <4>4. QED
        BY <2>1, <4>1, <4>2, <4>3 DEF SessionsOK, Events
    <3>3. QED
      BY <1>8, <3>1, <3>2
  <2>3. DevicesOK'
    BY <1>8 DEF OnConnected, OnClosed, DevicesOK
  <2>4. QED
    BY <1>8, <2>2, <2>3 DEF OnConnected, OnClosed, TokensOK, RedeemedOK, OrchOK
<1>9. ASSUME NEW s \in Sessions,
             OnPairedHandshake(s) \/ OnStrangerHandshake(s) \/ OnPairingHandshake(s)
      PROVE TypeOK'
  <2> USE <1>9 DEF OnPairedHandshake, OnStrangerHandshake, OnPairingHandshake
  <2>1. Dev(s) \in Devices /\ queue' \in Seq(Events)
    BY ReceivedDevice
  <2>2. SessionsOK' /\ MapsOK'
    BY <2>1 DEF SessionsOK, MapsOK, Events, Identified
  <2>3. TokensOK'
    BY DEF TokensOK, RedeemedOK, SessionsOK
  <2>4. RedeemedOK'
    BY DEF RedeemedOK
  <2>5. DevicesOK' /\ OrchOK'
    BY <2>1 DEF DevicesOK, OrchOK
  <2>6. QED
    BY <2>2, <2>3, <2>4, <2>5
<1>10. CASE AwaitConfirmation \/ NotConfirmed
  <2>1. DevicesOK' /\ OrchOK'
    BY <1>10, ServedDevice DEF AwaitConfirmation, NotConfirmed, DevicesOK, OrchOK
  <2>2. QED
    BY <1>10, <2>1 DEF AwaitConfirmation, NotConfirmed, TokensOK, RedeemedOK, SessionsOK, MapsOK
<1>11. CASE Pin \/ Upsert \/ Persist
  <2> USE <1>11 DEF Pin, Upsert, Persist, Save
  <2>1. DevicesOK' /\ OrchOK'
    BY ServedDevice DEF DevicesOK, OrchOK
  <2>2. TokensOK'
    BY DEF TokensOK
  <2>3. QED
    BY <2>1, <2>2 DEF RedeemedOK, SessionsOK, MapsOK
<1>12. CASE MarkConnected
  <2>1. DevicesOK' /\ OrchOK'
    BY <1>12, ServedDevice DEF MarkConnected, DevicesOK, OrchOK
  <2>2. MapsOK'
    BY <1>12, ServedDevice DEF MarkConnected, MapsOK
  <2>3. QED
    BY <1>12, <2>1, <2>2 DEF MarkConnected, TokensOK, RedeemedOK, SessionsOK
<1>13. CASE UNCHANGED vars
  BY <1>13 DEF vars, TokensOK, RedeemedOK, DevicesOK, SessionsOK, MapsOK, OrchOK
<1>14. QED
  BY <1>0, <1>1, <1>2, <1>3, <1>4, <1>5, <1>6, <1>7, <1>8, <1>9, <1>10, <1>11, <1>12, <1>13
     DEF Next, OrchStep, OnEvent

-----------------------------------------------------------------------------
(* The invariant on sessions.  Most actions leave its variables alone.       *)

\* Reporting an event: session s, not closed before, is filed as `st`.
LEMMA Reported ==
    ASSUME TypeOK, SessionInv, NEW s \in Sessions, NEW kind \in {"connected", "handshake", "closed"},
           queue' = Append(queue, Event(kind, s)), sess[s] # "closed",
           sess' \in [Sessions -> {"none", "admitted", "accepted", "hello", "closed"}],
           \A x \in Sessions \ {s} : sess'[x] = sess[x],
           Known(s)',
           sess[s] = "hello" => sess'[s] \in {"hello", "closed"},
           kind = "handshake" => sess'[s] \in {"hello", "closed"},
           kind = "closed" => sess'[s] = "closed"
    PROVE  QueueInOrder'
<1> USE DEF TypeOK, SessionInv
<1>1. queue \in Seq(Events) /\ Event(kind, s) \in Events
  BY DEF SessionsOK, Events, Event
<1>2. /\ Len(queue') = Len(queue) + 1
      /\ \A i \in 1..Len(queue) : queue'[i] = queue[i]
      /\ queue'[Len(queue) + 1] = Event(kind, s)
      /\ Len(queue) \in Nat
  BY <1>1, EventAppended
<1>3. ASSUME NEW i \in 1..Len(queue')
      PROVE  /\ Known(queue[i].s)'
             /\ queue'[i].kind = "handshake" => sess'[queue'[i].s] \in {"hello", "closed"}
             /\ queue'[i].kind = "closed" =>
                   /\ sess'[queue'[i].s] = "closed"
                   /\ \A j \in (i + 1)..Len(queue') : queue'[j].s # queue'[i].s
  <2>1. CASE i = Len(queue) + 1
    BY <1>2, <2>1 DEF Event
  <2>2. CASE i \in 1..Len(queue)
    <3>1. queue'[i] = queue[i] /\ queue[i] \in Events /\ queue[i].s \in Sessions
      BY <1>1, <1>2, <2>2, EventAt
    <3>2. /\ Known(queue[i].s)
          /\ queue[i].kind = "handshake" => sess[queue[i].s] \in {"hello", "closed"}
          /\ queue[i].kind = "closed" =>
               /\ sess[queue[i].s] = "closed"
               /\ \A j \in (i + 1)..Len(queue) : queue[j].s # queue[i].s
      BY <2>2 DEF QueueInOrder
    <3>3. queue[i].kind = "closed" => queue[i].s # s
      BY <3>2
    <3>4. queue[i].kind = "closed" =>
             \A j \in (i + 1)..Len(queue') : queue'[j].s # queue'[i].s
      <4> SUFFICES ASSUME queue[i].kind = "closed", NEW j \in (i + 1)..Len(queue')
                   PROVE  queue'[j].s # queue'[i].s
        OBVIOUS
      <4>1. CASE j = Len(queue) + 1
        BY <1>2, <3>1, <3>3, <4>1 DEF Event
      <4>2. CASE j \in (i + 1)..Len(queue)
        <5>1. queue'[j] = queue[j]
          BY <1>2, <2>2, <4>2
        <5>2. QED
          BY <3>1, <3>2, <4>2, <5>1
      <4>3. QED
        BY <1>2, <2>2, <4>1, <4>2
    <3>5. QED
      BY <3>1, <3>2, <3>3, <3>4 DEF Known
  <2>3. QED
    BY <1>2, <2>1, <2>2
<1>4. QED
  BY <1>3 DEF QueueInOrder

\* Taking an event that is not a Closed: the sessions are as they were.
LEMMA Consumed ==
    ASSUME TypeOK, SessionInv, NEW s \in Sessions, NEW kind, Receives(kind, s),
           \A x \in Sessions : x # s \/ kind # "closed" => sess'[x] = sess[x]
    PROVE  QueueInOrder' /\ (kind = "handshake" => sess[s] \in {"hello", "closed"})
<1> USE DEF TypeOK, SessionInv
<1>1. queue \in Seq(Events) /\ queue # <<>>
  BY DEF SessionsOK, Events, Receives
<1>2. /\ Len(queue') = Len(queue) - 1 /\ Len(queue) \in Nat
      /\ 1 \in 1..Len(queue) /\ queue[1] = Event(kind, s)
      /\ \A i \in 1..Len(queue') : i + 1 \in 1..Len(queue) /\ queue'[i] = queue[i + 1]
  BY <1>1, EventTaken DEF Receives
<1>3. ASSUME NEW i \in 1..Len(queue')
      PROVE  /\ Known(queue[i].s)'
             /\ queue'[i].kind = "handshake" => sess'[queue'[i].s] \in {"hello", "closed"}
             /\ queue'[i].kind = "closed" =>
                   /\ sess'[queue'[i].s] = "closed"
                   /\ \A j \in (i + 1)..Len(queue') : queue'[j].s # queue'[i].s
  <2>1. /\ i + 1 \in 1..Len(queue) /\ queue'[i] = queue[i + 1]
        /\ queue[i + 1] \in Events /\ queue[i + 1].s \in Sessions
    BY <1>1, <1>2, EventAt
  <2>2. /\ Known(queue[i + 1].s)
        /\ queue[i + 1].kind = "handshake" => sess[queue[i + 1].s] \in {"hello", "closed"}
        /\ queue[i + 1].kind = "closed" =>
             /\ sess[queue[i + 1].s] = "closed"
             /\ \A j \in (i + 2)..Len(queue) : queue[j].s # queue[i + 1].s
    BY <2>1 DEF QueueInOrder
  <2>3. kind = "closed" => queue[i + 1].s # s
    <3>1. i + 1 \in (1 + 1)..Len(queue)
      BY <2>1
    <3>2. QED
      BY <1>2, <3>1 DEF QueueInOrder, Event
  <2>4. sess'[queue'[i].s] = sess[queue[i + 1].s]
    BY <2>1, <2>3
  <2>5. queue[i + 1].kind = "closed" =>
           \A j \in (i + 1)..Len(queue') : queue'[j].s # queue'[i].s
    <3> SUFFICES ASSUME queue[i + 1].kind = "closed", NEW j \in (i + 1)..Len(queue')
                 PROVE  queue'[j].s # queue'[i].s
      OBVIOUS
    <3>1. j \in 1..Len(queue') /\ j + 1 \in (i + 2)..Len(queue)
      BY <1>2
    <3>2. queue'[j] = queue[j + 1]
      BY <1>2, <3>1
    <3>3. QED
      BY <2>1, <2>2, <3>1, <3>2
  <2>6. QED
    BY <2>1, <2>2, <2>4, <2>5 DEF Known
<1>4. kind = "handshake" => sess[s] \in {"hello", "closed"}
  BY <1>2 DEF QueueInOrder, Event
<1>5. QED
  BY <1>3, <1>4 DEF QueueInOrder

\* The two parts of the invariant on sessions that are not about the channel, when
\* sessions, addresses, maps and flags stay, or lose only what a guard allows.
LEMMA SessionStep == TypeOK /\ SessionInv /\ [Next]_vars => SessionInv'
<1> SUFFICES ASSUME TypeOK, SessionInv, [Next]_vars PROVE SessionInv'
  OBVIOUS
<1> USE DEF TypeOK, None, Remaining, Awaited, DropHandle, DropFlag, TimedOut
<1> USE DEF pairingVars, humanVars, storeVars, busVars, mapVars, sessVars, orchVars
\* The parts other than the one on the channel.
<1> DEFINE Rest == /\ SessionsHaveAddresses /\ ServesItsSession
                   /\ PassedIsRight /\ MapsAgree /\ FlagWillClear
<1>a. QueueInOrder' /\ Rest' => SessionInv'
  BY DEF SessionInv
<1>1. CASE UNCHANGED <<mapVars, sessVars>> /\ UNCHANGED <<at, serving>> /\ flag' \subseteq flag
  BY <1>1 DEF Known, SessionInv, SessionsHaveAddresses, QueueInOrder, ServesItsSession,
              PassedIsRight, SharesAddress, MapsAgree, FlagWillClear, Backed, Dev
<1>2. CASE Restart
  BY <1>2 DEF Restart, SessionInv, SessionsHaveAddresses, QueueInOrder, ServesItsSession,
              PassedIsRight, SharesAddress, Known, MapsAgree, FlagWillClear
\* Below the listener: session s comes or goes, and nobody has heard of it.
<1>3. ASSUME NEW s \in Sessions,
             AcceptFails(s) \/ \E r \in Remotes, d \in Devices, t \in Tokens \cup {None} :
                                Dial(s, r, d, t)
      PROVE SessionInv'
  <2> USE <1>3 DEF Dial, AcceptFails, Forgotten, SessionsOK
  <2>1. /\ ~Known(s) /\ ~Known(s)'
        /\ UNCHANGED <<queue, passed, mapVars, at, serving, flag>>
        /\ \A x \in Sessions \ {s} :
              sess'[x] = sess[x] /\ from'[x] = from[x] /\ who'[x] = who[x]
    BY DEF Known
  <2>2. SessionsHaveAddresses'
    BY DEF SessionInv, SessionsHaveAddresses
  <2> HIDE <1>3
  <2>3. QueueInOrder'
    <3>1. \A i \in 1..Len(queue) : queue[i].s \in Sessions /\ Known(queue[i].s)
      BY EventAt DEF SessionInv, QueueInOrder, Events
    <3>2. \A i \in 1..Len(queue) : queue[i].s # s
      BY <2>1, <3>1
    <3>3. QED
      BY <2>1, <3>1, <3>2 DEF SessionInv, QueueInOrder, Known
  <2>4. ServesItsSession'
    BY <2>1 DEF SessionInv, ServesItsSession, Dev, Known
  <2>5. PassedIsRight'
    BY <2>1 DEF SessionInv, PassedIsRight, SharesAddress, Dev, Known
  <2>6. MapsAgree'
    BY <2>1 DEF MapsOK, SessionInv, MapsAgree, Dev, Known
  <2>7. FlagWillClear'
    BY <2>1 DEF SessionInv, FlagWillClear, Backed, Dev, Known
  <2>8. QED
    BY <1>a, <2>2, <2>3, <2>4, <2>5, <2>6, <2>7
<1>4. ASSUME NEW s \in Sessions, Accept(s) \/ Hello(s) \/ Close(s) PROVE SessionInv'
  <2>1. QueueInOrder'
    BY <1>4, Reported DEF Accept, Hello, Close, SessionsOK, Known
  <2> USE <1>4 DEF Accept, Hello, Close, SessionsOK, Known
  <2>2. SessionsHaveAddresses'
    BY DEF SessionInv, SessionsHaveAddresses
  <2>3. ServesItsSession'
    BY DEF SessionInv, ServesItsSession, Dev
  <2>4. /\ UNCHANGED <<mapVars, from, who, flag>> /\ passed \subseteq passed'
        /\ \A x \in Sessions : Known(x) => Known(x)'
        /\ \A x \in Sessions : sess[x] \in {"hello", "closed"} => sess'[x] \in {"hello", "closed"}
    OBVIOUS
  <2>5. PassedIsRight'
    <3>1. CASE Accept(s)
      BY <3>1 DEF PassedIsRight
    <3>2. CASE Hello(s) \/ Close(s)
      BY <3>2 DEF SessionInv, PassedIsRight, SharesAddress, Dev
    <3>3. QED
      BY <3>1, <3>2
  <2> HIDE <1>4 DEF Known
  <2>6. MapsAgree'
    BY <2>4 DEF MapsOK, SessionInv, MapsAgree, Dev
  <2>7. FlagWillClear'
    BY <2>4 DEF SessionInv, FlagWillClear, Backed, Dev
  <2>8. QED
    BY <1>a, <2>1, <2>2, <2>3, <2>5, <2>6, <2>7
<1>5. ASSUME NEW s \in Sessions, OnConnected(s) PROVE SessionInv'
  <2>1. QueueInOrder' /\ Known(s) /\ from[s] \in Remotes
    BY <1>5, Consumed, ReceivedDevice DEF OnConnected
  <2>2. Rest'
    BY <1>5, <2>1 DEF Known, OnConnected, Receives, SessionsOK, MapsOK, SessionInv,
           SessionsHaveAddresses, ServesItsSession, PassedIsRight, SharesAddress,
           MapsAgree, FlagWillClear, Backed, Dev
  <2>3. QED
    BY <1>a, <2>1, <2>2
<1>6. ASSUME NEW s \in Sessions, OnClosed(s) PROVE SessionInv'
  <2>1. QueueInOrder' /\ Known(s) /\ from[s] \in Remotes
    BY <1>6, Consumed, ReceivedDevice DEF OnClosed, Forgotten, SessionsOK
  <2> USE <1>6 DEF OnClosed, Forgotten, Receives, SessionsOK
  <2>2. SessionsHaveAddresses' /\ ServesItsSession'
    BY DEF SessionInv, SessionsHaveAddresses, ServesItsSession
  \* A phone cleared of sharing an address is the one whose entries go with it.
  <2>3. /\ \A d \in Devices \ passed' : d \notin passed \/ d = r2d[from[s]]
        /\ \A d \in Devices : SharesAddress(d)' => d \in passed'
        /\ \A d \in Devices : d # r2d[from[s]] => live'[d] = live[d] /\ (d \in flag' => d \in flag)
        /\ r2d[from[s]] \in Devices => live'[r2d[from[s]]] = None
        /\ r2d[from[s]] \notin flag'
    BY DEF MapsOK
  <2>4. PassedIsRight'
    BY <2>3 DEF PassedIsRight
  <2>5. MapsAgree'
    <3>1. \A r \in Remotes : handles'[r] # None =>
             Known(handles[r])' /\ from'[handles'[r]] = r
      BY <2>1 DEF MapsOK, SessionInv, MapsAgree, Known
    <3>2. ASSUME NEW d \in Devices \ passed', live'[d] # None
          PROVE  /\ Known(live[d])' /\ Dev(live[d])' = d
                 /\ r2d'[from'[live'[d]]] = d
      <4>1. d # r2d[from[s]] /\ d \notin passed /\ live'[d] = live[d]
        BY <2>3, <3>2
      <4>2. /\ live[d] \in Sessions /\ Known(live[d]) /\ Dev(live[d]) = d
            /\ r2d[from[live[d]]] = d
        BY <3>2, <4>1 DEF SessionInv, MapsAgree, MapsOK
      <4>3. live[d] # s /\ from[live[d]] # from[s] /\ from[live[d]] \in Remotes
        BY <4>1, <4>2 DEF SessionInv, SessionsHaveAddresses, Known
      <4>4. QED
        BY <4>1, <4>2, <4>3 DEF MapsOK, Known, Dev
    <3>3. QED
      BY <3>1, <3>2 DEF MapsAgree
  <2>6. FlagWillClear'
    <3> SUFFICES ASSUME NEW d \in flag' \ passed'
                 PROVE  Backed(d)'
      BY DEF FlagWillClear
    <3>1. d \in flag \ passed /\ d # r2d[from[s]]
      BY <2>3 DEF DevicesOK
    <3>2. PICK x \in Sessions : /\ sess[x] \in {"hello", "closed"}
                               /\ Dev(x) = d /\ r2d[from[x]] = d
      BY <3>1 DEF SessionInv, FlagWillClear, Backed
    <3>3. from[x] \in Remotes /\ from[x] # from[s] /\ x # s
      BY <3>1, <3>2 DEF SessionInv, SessionsHaveAddresses
    <3>4. /\ sess'[x] = sess[x] /\ from'[x] = from[x] /\ who'[x] = who[x]
          /\ r2d'[from[x]] = r2d[from[x]]
      BY <3>3 DEF MapsOK
    <3>5. QED
      BY <3>2, <3>4 DEF Backed, Dev
  <2>7. QED
    BY <1>a, <2>1, <2>2, <2>4, <2>5, <2>6
<1>7. ASSUME NEW s \in Sessions,
             OnPairedHandshake(s) \/ OnStrangerHandshake(s) \/ OnPairingHandshake(s)
      PROVE SessionInv'
  <2>1. /\ QueueInOrder' /\ sess[s] \in {"hello", "closed"}
        /\ from[s] \in Remotes /\ Dev(s) \in Devices
    BY <1>7, Consumed, ReceivedDevice
       DEF OnPairedHandshake, OnStrangerHandshake, OnPairingHandshake
  <2> USE <1>7 DEF OnPairedHandshake, OnStrangerHandshake, OnPairingHandshake, Receives,
                   Identified, SessionsOK
  <2>2. SessionsHaveAddresses' /\ ServesItsSession'
    BY <2>1 DEF MapsOK, SessionInv, SessionsHaveAddresses, ServesItsSession, Dev
  <2>3. /\ UNCHANGED <<sess, from, who, passed, live, handles, flag>>
        /\ \A r \in Remotes : r # from[s] => r2d'[r] = r2d[r]
        /\ r2d'[from[s]] = Dev(s)
    BY <2>1 DEF MapsOK, busVars, mapVars
  \* The address that changes hands takes an entry only from a phone that shared it.
  <2>4. ASSUME NEW d \in Devices \ passed, NEW x \in Sessions,
               Known(x), Dev(x) = d, r2d[from[x]] = d
        PROVE  r2d'[from[x]] = d
    <3>1. from[x] \in Remotes /\ Known(s)
      BY <2>1, <2>4 DEF SessionInv, SessionsHaveAddresses, Known
    <3>2. from[x] = from[s] => Dev(s) = d
      BY <2>4, <3>1 DEF SessionInv, PassedIsRight, SharesAddress
    <3>3. QED
      BY <2>3, <2>4, <3>1, <3>2
  <2> HIDE <1>7
  <2>5. PassedIsRight'
    BY <2>3 DEF SessionInv, PassedIsRight, SharesAddress, Known, Dev
  <2>6. MapsAgree'
    <3>1. \A r \in Remotes : handles'[r] # None =>
             Known(handles[r])' /\ from'[handles'[r]] = r
      BY <2>3 DEF SessionInv, MapsAgree, Known
    <3>2. ASSUME NEW d \in Devices \ passed, live[d] # None
          PROVE  Known(live[d]) /\ Dev(live[d]) = d /\ r2d'[from[live[d]]] = d
      <4>1. /\ Known(live[d]) /\ Dev(live[d]) = d
            /\ r2d[from[live[d]]] = d /\ live[d] \in Sessions
        BY <3>2 DEF SessionInv, MapsAgree, MapsOK
      <4>2. QED
        BY <2>4, <4>1
    <3>3. QED
      BY <2>3, <3>1, <3>2 DEF MapsAgree, Dev, Known
  <2>7. FlagWillClear'
    <3> SUFFICES ASSUME NEW d \in flag \ passed PROVE Backed(d)'
      BY <2>3 DEF FlagWillClear
    <3>1. PICK x \in Sessions : /\ sess[x] \in {"hello", "closed"}
                               /\ Dev(x) = d /\ r2d[from[x]] = d
      BY DEF SessionInv, FlagWillClear, Backed
    <3>2. r2d'[from[x]] = d
      BY <2>4, <3>1 DEF Known, DevicesOK
    <3>3. QED
      BY <2>3, <3>1, <3>2 DEF Backed, Dev
  <2>8. QED
    BY <1>a, <2>1, <2>2, <2>5, <2>6, <2>7
<1>8. CASE AwaitConfirmation \/ NotConfirmed \/ Pin \/ Upsert \/ Persist
  BY <1>8 DEF Known, AwaitConfirmation, NotConfirmed, Pin, Upsert, Persist, SessionInv,
              SessionsHaveAddresses, QueueInOrder, ServesItsSession, PassedIsRight,
              SharesAddress, MapsAgree, FlagWillClear, Backed, Dev
<1>9. CASE MarkConnected
  <2>1. serving \in Sessions /\ from[serving] \in Remotes /\ Dev(serving) \in Devices
    BY <1>9, ServedDevice DEF MarkConnected
  <2> USE <1>9 DEF MarkConnected
  <2>2. SessionsHaveAddresses' /\ ServesItsSession' /\ QueueInOrder' /\ PassedIsRight'
    BY DEF Known, SessionInv, SessionsHaveAddresses, ServesItsSession, QueueInOrder,
           PassedIsRight, SharesAddress, Dev
  <2>3. MapsAgree'
    <3>1. /\ r2d[from[serving]] = Dev(serving) /\ Known(serving)
          /\ UNCHANGED <<r2d, handles, from, who, sess, passed>>
      BY <1>9 DEF SessionInv, ServesItsSession, Known
    <3>2. ASSUME NEW d \in Devices \ passed, live'[d] # None
          PROVE  Known(live'[d]) /\ Dev(live'[d]) = d /\ r2d[from[live'[d]]] = d
      <4>1. CASE live'[d] = live[d]
        BY <3>2, <4>1 DEF SessionInv, MapsAgree
      <4>2. CASE live'[d] # live[d]
        <5>1. /\ d = Dev(serving) /\ live'[d] = handles[from[serving]]
              /\ handles[from[serving]] # None
          BY <2>1, <4>2 DEF MapsOK
        <5>2. /\ live'[d] \in Sessions /\ Known(live'[d])
              /\ from[live'[d]] = from[serving]
          BY <2>1, <5>1 DEF SessionInv, MapsAgree, MapsOK
        <5>3. Dev(live'[d]) = d
          BY <2>1, <3>1, <5>1, <5>2 DEF SessionInv, PassedIsRight, SharesAddress
        <5>4. QED
          BY <3>1, <5>1, <5>2, <5>3
      <4>3. QED
        BY <4>1, <4>2
    <3>3. QED
      BY <3>1, <3>2 DEF SessionInv, MapsAgree, Known, Dev
  <2>4. FlagWillClear'
    <3>1. Backed(Dev(serving))
      BY <2>1 DEF SessionInv, ServesItsSession, Backed
    <3>2. \A d : Backed(d) => Backed(d)'
      BY DEF Backed, Dev
    <3>3. QED
      BY <3>1, <3>2 DEF SessionInv, FlagWillClear
  <2>5. QED
    BY <1>a, <2>2, <2>3, <2>4
<1>10. QED
  <2> SUFFICES ASSUME ~(UNCHANGED <<mapVars, sessVars>> /\ UNCHANGED <<at, serving>>
                         /\ flag' \subseteq flag)
               PROVE  SessionInv'
    BY <1>1
  <2>1. ~Tick /\ ~UNCHANGED vars
    BY DEF Tick, vars
  <2>2. \A t \in Tokens : ~StartPairing(t) /\ ~StoreToken(t)
    BY DEF StartPairing, StoreToken
  <2>3. \A d \in Devices, accept \in BOOLEAN : ~ConfirmPairing(d, accept)
    BY DEF ConfirmPairing
  <2>4. \A d \in Devices : ~Unpair(d) /\ ~UnpairStep(d)
    BY DEF Unpair, UnpairStep, UnpairForget, UnpairPersist, UnpairRemove
  <2>5. QED
    BY <1>2, <1>3, <1>4, <1>5, <1>6, <1>7, <1>8, <1>9, <2>1, <2>2, <2>3, <2>4
       DEF Next, OrchStep, OnEvent

-----------------------------------------------------------------------------
(* Tokens. *)

\* The invariant on tokens is kept: a token leaves `minting` for the slot once, and
\* redeeming what is in the slot marks it.
LEMMA TokenStep == TypeOK /\ TokenInv /\ [Next]_vars => TokenInv'
<1> SUFFICES ASSUME TypeOK, TokenInv, [Next]_vars PROVE TokenInv'
  OBVIOUS
<1> USE DEF TypeOK, TokensOK, None, pairingVars
<1>1. CASE UNCHANGED <<minting, shown, current, redeemed, prompts>>
  BY <1>1 DEF TokenInv, SingleUse
<1>2. CASE Restart
  BY <1>2 DEF Restart, TokenInv, SingleUse
<1>3. ASSUME NEW t \in Tokens, StartPairing(t) PROVE TokenInv'
  BY <1>3 DEF StartPairing, TokenInv, SingleUse
<1>4. ASSUME NEW t \in Tokens, StoreToken(t) PROVE TokenInv'
  BY <1>4 DEF StoreToken, TokenInv, SingleUse, Tokens
<1>5. ASSUME NEW s \in Sessions, OnPairingHandshake(s) PROVE TokenInv'
  <2>1. current = token[s] /\ current # None /\ ~redeemed
    BY <1>5 DEF OnPairingHandshake, Redeemable
  <2>2. redeemed'
    BY <1>5 DEF OnPairingHandshake
  <2>3. current \in Tokens /\ current \in shown /\ prompts[current] = 0
    BY <2>1 DEF TokenInv
  <2>4. prompts' = [prompts EXCEPT ![current] = 1] /\ UNCHANGED <<minting, shown, current>>
    BY <1>5, <2>1, <2>3 DEF OnPairingHandshake
  <2>5. QED
    BY <2>2, <2>3, <2>4 DEF TokenInv, SingleUse
<1>6. QED
  <2> SUFFICES ASSUME ~UNCHANGED <<minting, shown, current, redeemed, prompts>>
               PROVE  TokenInv'
    BY <1>1
  <2>1. ~Tick /\ ~UNCHANGED vars
    BY DEF Tick, vars
  <2>2. /\ \A s \in Sessions, r \in Remotes, d \in Devices, t \in Tokens \cup {None} :
              ~Dial(s, r, d, t)
        /\ \A s \in Sessions : ~Accept(s) /\ ~AcceptFails(s) /\ ~Hello(s) /\ ~Close(s)
    BY DEF Dial, Accept, AcceptFails, Hello, Close
  <2>3. \A d \in Devices, accept \in BOOLEAN : ~ConfirmPairing(d, accept)
    BY DEF ConfirmPairing
  <2>4. \A d \in Devices : ~Unpair(d) /\ ~UnpairStep(d)
    BY DEF Unpair, UnpairStep, UnpairForget, UnpairPersist, UnpairRemove
  <2>5. \A s \in Sessions : OnEvent(s) => OnPairingHandshake(s)
    BY DEF OnEvent, OnConnected, OnClosed, OnPairedHandshake, OnStrangerHandshake
  <2>6. ~AwaitConfirmation /\ ~NotConfirmed /\ ~Pin /\ ~Upsert /\ ~Persist /\ ~MarkConnected
    BY DEF AwaitConfirmation, NotConfirmed, Pin, Upsert, Persist, MarkConnected
  <2>7. QED
    BY <1>2, <1>3, <1>4, <1>5, <2>1, <2>2, <2>3, <2>4, <2>5, <2>6 DEF Next, OrchStep

-----------------------------------------------------------------------------
(* The human's yes. *)

\* The phone being served stays the same one while it is served.
LEMMA SameDevice ==
    ASSUME TypeOK, SessionInv, Next, ~Restart, at # "idle"
    PROVE  who'[serving] = who[serving]
<1>1. serving \in Sessions /\ sess[serving] \in {"hello", "closed"}
  BY DEF SessionInv, ServesItsSession
<1>2. \A s \in Sessions, r \in Remotes, d \in Devices, t \in Tokens \cup {None} :
         Dial(s, r, d, t) => who'[serving] = who[serving]
  BY <1>1 DEF Dial, TypeOK, SessionsOK
<1>5. \A s \in Sessions : AcceptFails(s) => who'[serving] = who[serving]
  BY <1>1 DEF AcceptFails, Forgotten, TypeOK, SessionsOK
<1>3. \A s \in Sessions : ~OnEvent(s)
  BY DEF OnEvent, OnConnected, OnClosed, OnPairedHandshake, OnStrangerHandshake,
         OnPairingHandshake, Receives
<1>4. QED
  BY <1>2, <1>3, <1>5 DEF Next, Tick, Accept, Hello, Close, StartPairing, StoreToken, ConfirmPairing,
     Unpair, UnpairStep, UnpairForget, UnpairPersist, UnpairRemove, OrchStep,
     AwaitConfirmation, NotConfirmed, Pin, Upsert, Persist, MarkConnected, sessVars

\* The yes the orchestrator acts on is still the latest word when it does.
LEMMA AgreedStep == TypeOK /\ SessionInv /\ AgreedInv /\ [Next]_vars => AgreedInv'
<1> SUFFICES ASSUME TypeOK, SessionInv, AgreedInv, [Next]_vars PROVE AgreedInv'
  OBVIOUS
<1> USE DEF humanVars, orchVars, Awaited
<1>1. CASE Restart
  BY <1>1 DEF Restart, AgreedInv
<1>2. CASE UNCHANGED vars
  BY <1>2 DEF vars, AgreedInv, Dev, sessVars
<1>3. ASSUME Next, ~Restart, at # "idle" PROVE AgreedInv'
  <2>1. who'[serving] = who[serving]
    BY <1>3, SameDevice
  <2>2. CASE UNCHANGED <<yes, at, serving, answer>>
    BY <2>1, <2>2 DEF AgreedInv, Dev
  <2>3. ASSUME NEW d \in Devices, NEW accept \in BOOLEAN, ConfirmPairing(d, accept)
        PROVE AgreedInv'
    BY <2>1, <2>3 DEF ConfirmPairing, AgreedInv, Dev
  <2>4. CASE AwaitConfirmation \/ NotConfirmed \/ Pin \/ Upsert \/ Persist \/ MarkConnected
    BY <2>1, <2>4 DEF AwaitConfirmation, NotConfirmed, Pin, Upsert, Persist, MarkConnected,
       AgreedInv, Dev
  <2>5. \A s \in Sessions : ~OnEvent(s)
    BY <1>3 DEF OnEvent, OnConnected, OnClosed, OnPairedHandshake, OnStrangerHandshake,
       OnPairingHandshake, Receives
  <2>6. QED
    BY <1>3, <2>2, <2>3, <2>4, <2>5 DEF Next, Tick, Dial, Accept, AcceptFails, Hello, Close, StartPairing,
       StoreToken, Unpair, UnpairStep, UnpairForget, UnpairPersist, UnpairRemove, OrchStep
<1>4. ASSUME Next, ~Restart, at = "idle" PROVE AgreedInv'
  <2>1. answer # "yes"
    BY <1>4 DEF AgreedInv
  <2>2. answer' # "yes" /\ at' \in {"idle", "mark", "register"}
    BY <1>4, <2>1 DEF Next, Tick, Dial, Accept, AcceptFails, Hello, Close, StartPairing, StoreToken,
       ConfirmPairing, Unpair, UnpairStep, UnpairForget, UnpairPersist, UnpairRemove,
       OrchStep, OnEvent, OnConnected, OnClosed, OnPairedHandshake, OnStrangerHandshake,
       OnPairingHandshake, AwaitConfirmation, NotConfirmed, Pin, Upsert, Persist,
       MarkConnected
  <2>3. QED
    BY <2>2 DEF AgreedInv
<1>5. QED
  BY <1>1, <1>2, <1>3, <1>4

-----------------------------------------------------------------------------
(* The theorems. *)

\* The initial states satisfy the invariants on tokens and on the human's yes.
LEMMA InitTokens == Init => TokenInv /\ AgreedInv
  BY DEF Init, None, TokenInv, SingleUse, AgreedInv

\* Everything the other theorems rest on, at once: types, sessions, tokens, yeses.
THEOREM Invariant == Spec => [](TypeOK /\ SessionInv /\ TokenInv /\ AgreedInv)
<1>1. Init => TypeOK /\ SessionInv /\ TokenInv /\ AgreedInv
  BY InitTypes, InitSessions, InitTokens
<1>2. TypeOK /\ SessionInv /\ TokenInv /\ AgreedInv /\ [Next]_vars
        => (TypeOK /\ SessionInv /\ TokenInv /\ AgreedInv)'
  BY TypeStep, SessionStep, TokenStep, AgreedStep
<1>3. QED
  BY <1>1, <1>2, PTL DEF Spec

\* Every variable keeps its range: no index, map key or step of the loop is ever one
\* the code could not hold.
THEOREM TypeCorrect == Spec => []TypeOK
  BY Invariant, PTL

\* A clipboard is never handed to a connection whose handshake named another phone,
\* nor to one whose end the orchestrator has handled, unless the phone has shared an
\* address with another one since its own last end was handled.
THEOREM HandlesCorrect == Spec => []HandlesAreCurrent
<1>1. SessionInv => HandlesAreCurrent
  BY DEF SessionInv, MapsAgree, HandlesAreCurrent
<1>2. QED
  BY <1>1, Invariant, PTL

\* No Device1 object says connected without a session whose Closed event will clear
\* it, however Closed events are delayed, for every phone with the same exception:
\* one that reuses its own address, or comes from several, is not excepted.
THEOREM FlagCorrect == Spec => []FlagWillClear
<1>1. SessionInv => FlagWillClear
  BY DEF SessionInv
<1>2. QED
  BY <1>1, Invariant, PTL

\* A token never leads to two prompts, whatever StartPairing calls overlap.
THEOREM SingleUseCorrect == Spec => []SingleUse
<1>1. TokenInv => SingleUse
  BY DEF TokenInv
<1>2. QED
  BY <1>1, Invariant, PTL

\* As long as saves succeed, devices.json lags the state only while the task that
\* changed the state is on its way to saving it.
THEOREM DiskCorrect ==
    ASSUME SaveMayFail = FALSE
    PROVE  Spec => []DiskFollowsState
<1>1. Init => DiskFollowsState
  BY DEF Init, DiskFollowsState
<1>2. TypeOK /\ DiskFollowsState /\ [Next]_vars => DiskFollowsState'
  <2> SUFFICES ASSUME TypeOK, DiskFollowsState, [Next]_vars PROVE DiskFollowsState'
    OBVIOUS
  <2> USE DEF storeVars, orchVars
  <2>1. CASE UNCHANGED <<state, disk, unpairing, at>>
    BY <2>1 DEF DiskFollowsState
  <2>2. CASE Restart \/ Persist
    BY <2>2 DEF Restart, Persist, Save, DiskFollowsState
  <2>3. CASE Upsert
    BY <2>3 DEF Upsert, DiskFollowsState
  <2>4. CASE AwaitConfirmation \/ NotConfirmed \/ Pin \/ MarkConnected
    BY <2>4 DEF AwaitConfirmation, NotConfirmed, Pin, MarkConnected, DiskFollowsState
  <2>5. ASSUME NEW s \in Sessions, OnEvent(s) PROVE DiskFollowsState'
    BY <2>5 DEF OnEvent, OnConnected, OnClosed, OnPairedHandshake, OnStrangerHandshake,
       OnPairingHandshake, Receives, DiskFollowsState
  <2>6. ASSUME NEW d \in Devices, Unpair(d) \/ UnpairStep(d) PROVE DiskFollowsState'
    BY <2>6 DEF TypeOK, DevicesOK, Unpair, UnpairStep, UnpairForget, UnpairPersist,
       UnpairRemove, Save, DiskFollowsState
  <2>7. QED
    BY <2>1, <2>2, <2>3, <2>4, <2>5, <2>6 DEF Next, OrchStep, vars, Tick, Dial, Accept,
       AcceptFails, Hello, Close, StartPairing, StoreToken, ConfirmPairing
<1>3. QED
  BY <1>1, <1>2, TypeCorrect, PTL DEF Spec

\* Pairing implements TrustPolicy: whatever the clients answer and whenever, a phone
\* is pinned and saved only on a yes to the prompt of the handshake being served.
THEOREM PolicyCorrect == Spec => PolicySpec
<1>1. Init => Policy!Init
  BY DEF Init, Policy!Init
<1>2. TypeOK /\ SessionInv /\ AgreedInv /\ [Next]_vars => [Policy!Next]_(Policy!vars)
  <2> SUFFICES ASSUME TypeOK, SessionInv, AgreedInv, [Next]_vars
               PROVE  Policy!Next \/ UNCHANGED Policy!vars
    BY DEF Policy!vars
  <2> USE DEF Policy!vars, Policy!Next, humanVars, storeVars
  <2>1. CASE UNCHANGED <<trust, state, disk, yes>>
    BY <2>1
  <2>2. CASE Restart
    BY <2>2 DEF Restart, Policy!Restart
  <2>3. ASSUME NEW d \in Devices, NEW accept \in BOOLEAN, ConfirmPairing(d, accept)
        PROVE  Policy!Next \/ UNCHANGED Policy!vars
    BY <2>3 DEF ConfirmPairing, Policy!Agree
  <2>4. ASSUME NEW d \in Devices, Unpair(d) \/ UnpairStep(d)
        PROVE  Policy!Next \/ UNCHANGED Policy!vars
    BY <2>4 DEF Unpair, UnpairStep, UnpairForget, UnpairPersist, UnpairRemove, Save,
       Policy!Revoke, Policy!Forget, Policy!Save
  <2>5. ASSUME NEW s \in Sessions, OnPairingHandshake(s)
        PROVE  Policy!Next \/ UNCHANGED Policy!vars
    <3>1. Dev(s) \in Devices
      BY <2>5, ReceivedDevice DEF OnPairingHandshake
    <3>2. Policy!Ask(Dev(s))
      BY <2>5 DEF OnPairingHandshake, Policy!Ask
    <3>3. QED
      BY <3>1, <3>2
  <2>6. CASE Pin \/ Upsert
    <3>1. Dev(serving) \in Devices
      BY <2>6, ServedDevice DEF Pin, Upsert
    <3>2. Policy!Trust(Dev(serving)) \/ Policy!Learn(Dev(serving))
      BY <2>6 DEF Pin, Upsert, AgreedInv, Policy!Trust, Policy!Learn
    <3>3. QED
      BY <3>1, <3>2
  <2>7. CASE Persist
    BY <2>7 DEF Persist, Save, Policy!Save
  <2>8. QED
    <3>1. CASE OrchStep
      BY <2>1, <2>5, <2>6, <2>7, <3>1 DEF OrchStep, OnEvent, OnConnected, OnClosed,
         OnPairedHandshake, OnStrangerHandshake, AwaitConfirmation, NotConfirmed,
         MarkConnected
    <3>2. CASE ~OrchStep
      BY <2>1, <2>2, <2>3, <2>4, <3>2 DEF Next, vars, Tick, Dial, Accept, AcceptFails, Hello, Close,
         StartPairing, StoreToken
    <3>3. QED
      BY <3>1, <3>2
<1>3. QED
  BY <1>1, <1>2, Invariant, PTL DEF Spec, PolicySpec, Policy!Spec
\* To its D-Bus clients the daemon is a PairingService: it asks about one phone at a
\* time, for a token that is good for one question, and that phone is trusted on the
\* answer to it alone.
THEOREM ServiceCorrect == Spec => ServiceSpec
<1> USE DEF None, Service!None, Tokens, Service!Tokens
<1> DEFINE Asked == IF at \in {"register", "await"} THEN Dev(serving) ELSE None
<1>1. Init => Service!Init
  BY DEF Init, Service!Init
<1>2. TypeOK /\ SessionInv /\ AgreedInv /\ [Next]_vars => [Service!Next]_(Service!vars)
  <2> SUFFICES ASSUME TypeOK, SessionInv, AgreedInv, [Next]_vars
               PROVE  Service!Next \/ UNCHANGED Service!vars
    OBVIOUS
  <2> USE DEF pairingVars, humanVars, storeVars, orchVars, sessVars
  <2> USE DEF Service!vars, Service!tokenVars, Service!questionVars
  <2>1. Restart => Service!Restart
    BY DEF Restart, Service!Restart, TypeOK, DevicesOK
  \* The question is still about the same phone, whatever happens below the listener.
  <2>2. ASSUME Next, ~Restart, UNCHANGED <<at, serving>>
        PROVE  Asked' = Asked
    <3>1. CASE at \in {"register", "await"}
      BY <2>2, <3>1, SameDevice DEF Dev
    <3>2. CASE at \notin {"register", "await"}
      BY <2>2, <3>2
    <3>3. QED
      BY <3>1, <3>2
  <2>3. ASSUME Next, ~Restart, UNCHANGED <<at, serving, left, minting, shown, current,
                                           redeemed, pending, answer, trust>>
        PROVE  UNCHANGED Service!vars
    BY <2>2, <2>3
  <2>4. ASSUME Next, ~Restart, Tick PROVE Service!Tick
    BY <2>2, <2>4 DEF Tick, Remaining, Service!Tick
  <2>5. ASSUME Next, ~Restart, NEW t \in Tokens, StartPairing(t) \/ StoreToken(t)
        PROVE  Service!Mint(t) \/ Service!Return(t)
    BY <2>2, <2>5 DEF StartPairing, StoreToken, Service!Mint, Service!Return
  <2>6. ASSUME Next, ~Restart, NEW d \in Devices, NEW accept \in BOOLEAN,
               ConfirmPairing(d, accept)
        PROVE  Service!Confirm(d, accept)
    <3>1. Awaited(d) <=> d \in pending /\ at = "await" /\ Asked = d
      BY DEF Awaited
    <3>2. QED
      BY <2>2, <2>6, <3>1 DEF ConfirmPairing, Service!Confirm, Service!OtherSenders
  <2>7. ASSUME Next, ~Restart, NEW d \in Devices, Unpair(d) PROVE Service!Revoke(d)
    BY <2>2, <2>7 DEF Unpair, Service!Revoke
  <2>8. ASSUME NEW s \in Sessions, OnPairingHandshake(s) PROVE Service!Ask(Dev(s))
    <3>1. at = "idle" /\ at' = "register" /\ Asked' = Dev(s)
      BY <2>8 DEF OnPairingHandshake, Receives, Dev
    <3>2. Service!Usable(current)
      BY <2>8 DEF OnPairingHandshake, Redeemable, Service!Usable
    <3>3. QED
      BY <2>8, <3>1, <3>2 DEF OnPairingHandshake, Service!Ask
  <2>9. CASE AwaitConfirmation
    <3>1. Asked = Dev(serving) /\ Asked' = Asked /\ Dev(serving) \in Devices
      BY <2>9, ServedDevice DEF AwaitConfirmation, Dev
    <3>2. Service!Listen
      BY <2>9, <3>1 DEF AwaitConfirmation, Service!Listen
    <3>3. QED
      BY <3>2 DEF Service!Next
  <2>10. CASE NotConfirmed
    BY <2>10 DEF NotConfirmed, TimedOut, Service!GiveUp, Service!Over, Service!Next
  <2>11. CASE Pin
    BY <2>11 DEF Pin, Service!Trust, Service!Over, Service!Next
  <2>12. CASE Upsert \/ Persist \/ MarkConnected
    BY <2>12 DEF Upsert, Persist, MarkConnected
  <2>13. ASSUME NEW s \in Sessions, OnPairedHandshake(s)
         PROVE  UNCHANGED Service!vars
    BY <2>13 DEF OnPairedHandshake, Receives
  <2>14. ASSUME Next, ~Restart, NEW s \in Sessions,
                OnConnected(s) \/ OnClosed(s) \/ OnStrangerHandshake(s)
         PROVE  UNCHANGED Service!vars
    BY <2>14 DEF OnConnected, OnClosed, OnStrangerHandshake, Receives
  <2>15. CASE UNCHANGED vars
    BY <2>15 DEF vars, Dev
  <2>16. CASE OrchStep /\ ~Restart
    <3>1. Next
      BY <2>16 DEF Next
    <3>2. ASSUME NEW s \in Sessions, OnPairingHandshake(s) PROVE Service!Next
      <4>1. Dev(s) \in Devices
        BY <3>2, ReceivedDevice DEF OnPairingHandshake
      <4>2. QED
        BY <2>8, <3>2, <4>1 DEF Service!Next
    <3>3. QED
      BY <2>9, <2>10, <2>11, <2>12, <2>13, <2>14, <2>16, <3>1, <3>2 DEF OrchStep, OnEvent
  <2>17. ASSUME Next, ~Restart, ~OrchStep PROVE Service!Next \/ UNCHANGED Service!vars
    <3>1. ASSUME \/ \E s \in Sessions, r \in Remotes, d \in Devices, t \in Tokens \cup {None} :
                       Dial(s, r, d, t)
                 \/ \E s \in Sessions : Accept(s) \/ AcceptFails(s) \/ Hello(s) \/ Close(s)
                 \/ \E d \in Devices : UnpairStep(d)
          PROVE  UNCHANGED Service!vars
      BY <2>3, <2>17, <3>1 DEF Dial, Accept, AcceptFails, Hello, Close, UnpairStep,
         UnpairForget, UnpairPersist, UnpairRemove
    <3>2. QED
      BY <2>4, <2>5, <2>6, <2>7, <2>17, <3>1 DEF Next, Service!Next
  <2>18. QED
    BY <2>1, <2>15, <2>16, <2>17 DEF Service!Next
<1>3. QED
  BY <1>1, <1>2, Invariant, PTL DEF Spec, ServiceSpec, Service!Spec
=============================================================================
