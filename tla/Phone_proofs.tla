---------------------------- MODULE Phone_proofs ----------------------------
(* Theorems about Phone, for any hosts and bounds. *)
EXTENDS Phone, TLAPS

USE BoundsAssumption DEF None

Events == [kind : Kinds, c : Conns \cup {None}]

-----------------------------------------------------------------------------
(* The invariants the theorems rest on.                                      *)

\* What a pair() call has left behind: nothing before it is made, a host once it is;
\* a connection has a dialer, and they are made in the order of their numbers.
PairInv ==
    /\ \A p \in Pairs : dial[p] = "none" => rx[p] = <<>> /\ ~saving[p].busy
    /\ \A p \in Pairs : dial[p] # "none" => host[p] \in Hosts
    /\ handle # None => dial[handle] # "none"
    /\ \A c \in Conns : state[c] # "none" => owner[c] \in Pairs /\ dial[owner[c]] # "none"
    /\ \A c \in Conns : state[c] = "none" => owner[c] = None
    /\ \A b, c \in Conns : b < c /\ state[c] # "none" => state[b] # "none"

\* A dialer that still holds its token has presented it to nobody.
TokenInv ==
    \A p \in Pairs :
        /\ presented[p] <= 1
        /\ dial[p] = "none" \/ token[p] => presented[p] = 0

\* Only the last connection of a dialer can be alive, and none is while it dials,
\* sleeps or has not begun.
LastInv ==
    /\ \A b, c \in Conns : b < c /\ owner[b] = owner[c] /\ owner[b] # None =>
          state[b] = "dead"
    /\ \A c \in Conns : owner[c] # None /\ dial[owner[c]] \in {"spawned", "connecting", "sleeping"} =>
          state[c] = "dead"

\* The slot and the app's status have heard of nothing but what is in the way of one
\* dialer: the connection the handle stands for, as long as none was cancelled.
Alone == \A p \in Pairs : dial[p] # "cancelled"

HandleInv == \A p \in Pairs : dial[p] \notin {"none", "cancelled"} => handle = p

\* Which event of q, if any, has the last word among those of the kinds K.
LastOf(q, K, i) ==
    /\ i \in 1..Len(q) /\ q[i].kind \in K
    /\ \A j \in (i + 1)..Len(q) : q[j].kind \notin K
NoneOf(q, K) == \A i \in 1..Len(q) : q[i].kind \notin K

\* What is heard once q has been taken to its end: the word W of the event that has the
\* last one, or what was heard before.
Will(q, K, W, now, x) ==
    \/ NoneOf(q, K) /\ now = x
    \/ \E i \in 1..Len(q) : LastOf(q, K, i) /\ W[q[i]] = x

\* The slot's words are connections, the app's whether it shows one.
SlotKinds == {"connected", "closed"}
Named == [e \in Events |-> IF e.kind = "connected" THEN e.c ELSE None]
SlotWill(p, x) == Will(rx[p], SlotKinds, Named, active, x)

StatusKinds == {"handshake", "reconnecting", "closed"}
Said == [e \in Events |-> IF e.kind = "handshake" THEN "on" ELSE "off"]
Shown == IF status = "Connected" THEN "on" ELSE "off"
StatusWill(p, x) == Will(rx[p], StatusKinds, Said, Shown, x)

\* With one dialer only, what the slot and the app will hear is what is the case.
Idle(p) == dial[p] # "draining" /\ SlotWill(p, None) /\ StatusWill(p, "off")
InUse(p, c) ==
    /\ owner[c] = p /\ Drains(c) /\ SlotWill(p, c)
    /\ state[c] = "up" => StatusWill(p, "off")
    /\ state[c] = "ready" => StatusWill(p, "on")

SlotInv ==
    Alone => IF handle = None THEN active = None /\ Shown = "off"
                              ELSE Idle(handle) \/ \E c \in Conns : InUse(handle, c)

-----------------------------------------------------------------------------
(* A forwarder's channel: what appending and taking an event do to the last word. *)

\* What a dialer or a drive task tells: one event, or the two at the end of a session.
LEMMA OneOrTwo ==
    ASSUME NEW q \in Seq(Events), NEW e \in Events, NEW f \in Events
    PROVE  /\ q \o <<e>> = Append(q, e)
           /\ q \o Append(<<e>>, f) = Append(Append(q, e), f)
           /\ q \o Append(<<>>, f) = Append(q, f)
  OBVIOUS

\* A new event has the last word if it is of those kinds, and changes nothing if not.
LEMMA EventTold ==
    ASSUME NEW q \in Seq(Events), NEW e \in Events, NEW K
    PROVE  /\ Append(q, e) \in Seq(Events)
           /\ e.kind \in K => /\ LastOf(Append(q, e), K, Len(q) + 1)
                              /\ Len(q) + 1 \in 1..Len(Append(q, e))
                              /\ Append(q, e)[Len(q) + 1] = e
           /\ e.kind \notin K =>
                 /\ NoneOf(q, K) => NoneOf(Append(q, e), K)
                 /\ \A i \in 1..Len(q) : LastOf(q, K, i) =>
                       /\ LastOf(Append(q, e), K, i)
                       /\ i \in 1..Len(Append(q, e)) /\ Append(q, e)[i] = q[i]
<1>2. /\ Append(q, e) \in Seq(Events) /\ Len(Append(q, e)) = Len(q) + 1 /\ Len(q) \in Nat
      /\ \A i \in 1..Len(q) : Append(q, e)[i] = q[i]
      /\ Append(q, e)[Len(q) + 1] = e
  OBVIOUS
<1>3. e.kind \in K => LastOf(Append(q, e), K, Len(q) + 1)
  BY <1>2 DEF LastOf
<1>4. ASSUME e.kind \notin K, NEW i \in 1..Len(q), LastOf(q, K, i)
      PROVE  LastOf(Append(q, e), K, i)
  <2>1. \A j \in (i + 1)..Len(Append(q, e)) : Append(q, e)[j].kind \notin K
    <3> TAKE j \in (i + 1)..Len(Append(q, e))
    <3>1. CASE j = Len(q) + 1
      BY <1>2, <1>4, <3>1
    <3>2. CASE j \in (i + 1)..Len(q)
      BY <1>2, <1>4, <3>2 DEF LastOf
    <3>3. QED
      BY <1>2, <3>1, <3>2
  <2>2. QED
    BY <1>2, <1>4, <2>1 DEF LastOf
<1>5. ASSUME e.kind \notin K, NoneOf(q, K) PROVE NoneOf(Append(q, e), K)
  <2>1. ASSUME NEW i \in 1..Len(Append(q, e)) PROVE Append(q, e)[i].kind \notin K
    <3>1. CASE i = Len(q) + 1
      BY <1>2, <1>5, <3>1
    <3>2. CASE i \in 1..Len(q)
      BY <1>2, <1>5, <3>2 DEF NoneOf
    <3>3. QED
      BY <1>2, <3>1, <3>2
  <2>2. QED
    BY <2>1 DEF NoneOf
<1>6. \A i \in 1..Len(q) : i \in 1..Len(Append(q, e)) /\ Append(q, e)[i] = q[i]
  BY <1>2
<1>7. Len(q) + 1 \in 1..Len(Append(q, e))
  BY <1>2
<1>8. QED
  BY <1>2, <1>3, <1>4, <1>5, <1>6, <1>7

\* Taking the first event: if it had the last word nothing is left to say, and if it
\* had not, what has it is one place nearer.
LEMMA EventTaken ==
    ASSUME NEW q \in Seq(Events), q # <<>>, NEW K
    PROVE  /\ Tail(q) \in Seq(Events) /\ Head(q) \in Events /\ 1 \in 1..Len(q) /\ Head(q) = q[1]
           /\ NoneOf(q, K) => NoneOf(Tail(q), K) /\ Head(q).kind \notin K
           /\ LastOf(q, K, 1) => NoneOf(Tail(q), K)
           /\ \A i \in 1..Len(q) : LastOf(q, K, i) /\ i # 1 =>
                 /\ LastOf(Tail(q), K, i - 1) /\ i - 1 \in 1..Len(Tail(q))
                 /\ Tail(q)[i - 1] = q[i]
<1>1. /\ Tail(q) \in Seq(Events) /\ Len(Tail(q)) = Len(q) - 1 /\ Len(q) \in Nat /\ Len(q) >= 1
      /\ Head(q) = q[1] /\ Head(q) \in Events
      /\ \A i \in 1..Len(Tail(q)) : Tail(q)[i] = q[i + 1]
  OBVIOUS
<1>2. NoneOf(q, K) => NoneOf(Tail(q), K) /\ Head(q).kind \notin K
  BY <1>1 DEF NoneOf
<1>3. ASSUME LastOf(q, K, 1) PROVE NoneOf(Tail(q), K)
  BY <1>1, <1>3 DEF NoneOf, LastOf
<1>4. ASSUME NEW i \in 1..Len(q), LastOf(q, K, i), i # 1
      PROVE  /\ LastOf(Tail(q), K, i - 1) /\ i - 1 \in 1..Len(Tail(q))
             /\ Tail(q)[i - 1] = q[i]
  <2>1. i - 1 \in 1..Len(Tail(q)) /\ Tail(q)[i - 1] = q[i]
    BY <1>1, <1>4
  <2>2. ASSUME NEW j \in ((i - 1) + 1)..Len(Tail(q)) PROVE Tail(q)[j].kind \notin K
    <3>1. Tail(q)[j] = q[j + 1] /\ j + 1 \in (i + 1)..Len(q)
      BY <1>1, <1>4, <2>2
    <3>2. QED
      BY <1>4, <3>1 DEF LastOf
  <2>3. QED
    BY <1>4, <2>1, <2>2 DEF LastOf
<1>5. QED
  BY <1>1, <1>2, <1>3, <1>4

-----------------------------------------------------------------------------
(* Type correctness, with what pair() calls leave behind: the host a forwarder adds *)
(* to peers.json is one only because there was a pair() call.                       *)

\* A process starts with nothing in it.
LEMMA InitTypes == Init => TypeOK /\ PairInv
<1> USE DEF Init, Fresh, NoSave
<1>1. Init => TypeOK
  BY DEF TypeOK
<1>2. Init => PairInv
  BY DEF PairInv
<1>3. QED
  BY <1>1, <1>2

\* The channel of a forwarder stays one, whatever is told or taken.
LEMMA Telling ==
    ASSUME NEW q \in Seq(Events)
    PROVE  /\ \A e \in Events : q \o <<e>> \in Seq(Events)
           /\ \A e, f \in Events : q \o Append(<<e>>, f) \in Seq(Events)
           /\ \A f \in Events : q \o Append(<<>>, f) \in Seq(Events)
           /\ q # <<>> => Tail(q) \in Seq(Events) /\ Head(q) \in Events
  OBVIOUS

\* The saturating counter stays within its width.
LEMMA Counted ==
    ASSUME TypeOK, NEW p \in Pairs
    PROVE  NextAttempt(p) \in 0..MaxAttempt
<1>1. attempt[p] \in 0..MaxAttempt
  BY DEF TypeOK
<1>2. QED
  BY <1>1 DEF NextAttempt

\* A pair() call has a number, which None is not.
LEMMA PairsNumbered == \A p \in Pairs : p # None
  BY DEF Pairs

\* Every step keeps every variable in its range.
LEMMA TypeStep == TypeOK /\ PairInv /\ [Next]_vars => TypeOK'
<1> SUFFICES ASSUME TypeOK, PairInv, [Next]_vars PROVE TypeOK'
  OBVIOUS
<1> USE DEF TypeOK, dialVars, connVars, fwdVars, appVars, NoSave
<1>e. \A kind \in Kinds, c \in Conns \cup {None} : Event(kind, c) \in Events
  BY DEF Events, Event
<1>q. \A p \in Pairs : rx[p] \in Seq(Events)
  BY DEF Events
<1>1. CASE Restart
  BY <1>1 DEF Restart, Fresh
<1>2. CASE StartPairingFails
  BY <1>2 DEF StartPairingFails, Cancelled
<1>3. ASSUME NEW p \in Pairs, NEW h \in Hosts, StartPairing(p, h) PROVE TypeOK'
  BY <1>3 DEF StartPairing, Cancelled
<1>4. ASSUME NEW p \in Pairs, Attempt(p) PROVE TypeOK'
  <2>1. presented[p] \in Nat /\ presented[p] + 1 \in Nat
    OBVIOUS
  <2>2. presented' \in [Pairs -> Nat]
    BY <1>4, <2>1 DEF Attempt
  <2>3. QED
    BY <1>4, <2>2 DEF Attempt
<1>5. ASSUME NEW p \in Pairs, NEW c \in Conns, Connect(p, c) PROVE TypeOK'
  <2>1. rx[p] \o <<Event("connected", c)>> \in Seq(Events)
    BY <1>e, <1>q, Telling DEF Kinds
  <2>2. rx' \in [Pairs -> Seq(Events)]
    BY <1>5, <2>1 DEF Connect, Tell, Events
  <2>3. attempt' \in [Pairs -> 0..MaxAttempt]
    BY <1>5 DEF Connect
  <2>4. owner' \in [Conns -> Pairs \cup {None}] /\ state' \in [Conns -> {"none", "up", "ready", "dead"}]
    BY <1>5 DEF Connect
  <2>5. QED
    BY <1>5, <2>2, <2>3, <2>4 DEF Connect, Events
<1>6. ASSUME NEW p \in Pairs, ConnectFails(p) PROVE TypeOK'
  <2>1. rx[p] \o Append(<<>>, Event("reconnecting", None)) \in Seq(Events)
    BY <1>e, <1>q, Telling DEF Kinds
  <2>2. rx' \in [Pairs -> Seq(Events)]
    BY <1>6, <2>1 DEF ConnectFails, Retry, Tell, Events
  <2>3. attempt' \in [Pairs -> 0..MaxAttempt]
    BY <1>6, Counted DEF ConnectFails, Retry
  <2>4. QED
    BY <1>6, <2>2, <2>3 DEF ConnectFails, Retry, Events
<1>7. ASSUME NEW c \in Conns, owner[c] \in Pairs, Drained(c) PROVE TypeOK'
  <2>1. PICK p \in Pairs : p = owner[c]
    BY <1>7
  <2>2. Event("closed", c) \in Events /\ Event("reconnecting", None) \in Events
    BY <1>e DEF Kinds
  <2>3. /\ rx' = [rx EXCEPT ![p] = @ \o Append(<<Event("closed", c)>>, Event("reconnecting", None))]
        /\ attempt' = [attempt EXCEPT ![p] = NextAttempt(p)]
        /\ dial' = [dial EXCEPT ![p] = "sleeping"]
    BY <1>7, <2>1 DEF Drained, Retry, Tell
  <2>4. rx[p] \o Append(<<Event("closed", c)>>, Event("reconnecting", None)) \in Seq(Events)
    BY <1>q, <2>2, Telling
  <2>5. rx' \in [Pairs -> Seq(Events)]
    BY <2>3, <2>4 DEF Events
  <2>6. attempt' \in [Pairs -> 0..MaxAttempt]
    BY <2>3, Counted
  <2>7. QED
    BY <1>7, <2>3, <2>5, <2>6 DEF Drained, Events
<1>8. ASSUME NEW c \in Conns, Greet(c) PROVE TypeOK'
  <2>1. owner[c] \in Pairs
    BY <1>8 DEF Greet, PairInv
  <2>2. Event("handshake", c) \in Events
    BY <1>e DEF Kinds
  <2>3. rx[owner[c]] \o <<Event("handshake", c)>> \in Seq(Events)
    BY <1>q, <2>1, <2>2, Telling
  <2>4. rx' \in [Pairs -> Seq(Events)]
    BY <1>8, <2>1, <2>3 DEF Greet, Tell, Events
  <2>5. QED
    BY <1>8, <2>4 DEF Greet, Events
<1>9. ASSUME NEW c \in Conns, Die(c) PROVE TypeOK'
  BY <1>9 DEF Die
<1>10. ASSUME NEW p \in Pairs, Forward(p) PROVE TypeOK'
  <2>0. Oldest(p) \in Events /\ Tail(rx[p]) \in Seq(Events)
    BY <1>10, <1>q, Telling DEF Forward, Oldest
  <2>1. Oldest(p) \in Events /\ rx' \in [Pairs -> Seq(Events)]
    BY <1>10, <2>0 DEF Forward, Events
  <2>2. active' \in Conns \cup {None}
    <3>1. Oldest(p).c \in Conns \cup {None}
      BY <2>1 DEF Events
    <3>2. QED
      BY <1>10, <3>1 DEF Forward, NextSession
  <2>3. status' \in {"NotPaired", "Connected", "Reconnecting", "Disconnected"}
    BY <1>10 DEF Forward, Reduce
  <2>4. QED
    BY <1>10, <2>1, <2>2, <2>3 DEF Forward, Events
<1>11. ASSUME NEW p \in Pairs, LoadPeers(p) PROVE TypeOK'
  BY <1>11 DEF LoadPeers
<1>12. ASSUME NEW p \in Pairs, SavePeers(p) PROVE TypeOK'
  <2>1. host[p] \in Hosts
    BY <1>12 DEF SavePeers, PairInv
  <2>2. saving[p].read \subseteq Hosts
    OBVIOUS
  <2>3. peers' \subseteq Hosts
    BY <1>12, <2>1, <2>2 DEF SavePeers
  <2>4. QED
    BY <1>12, <2>3 DEF SavePeers
<1>13. CASE UNCHANGED vars
  BY <1>13 DEF vars
<1>14. QED
  BY <1>1, <1>2, <1>3, <1>4, <1>5, <1>6, <1>7, <1>8, <1>9, <1>10, <1>11, <1>12, <1>13
     DEF Next, Dialer, Forwarder

\* A pair() call, and a connection, leave their marks for good.
LEMMA PairStep == TypeOK /\ PairInv /\ [Next]_vars => PairInv'
<1> SUFFICES ASSUME TypeOK, PairInv, [Next]_vars PROVE PairInv'
  OBVIOUS
<1> USE DEF PairInv, TypeOK, dialVars, connVars, fwdVars, appVars, NoSave
<1>1. CASE Restart
  BY <1>1 DEF Restart, Fresh
<1>2. CASE StartPairingFails
  <2>1. \A p \in Pairs : dial'[p] = "none" => dial[p] = "none"
    BY <1>2 DEF StartPairingFails, Cancelled
  <2>2. \A p \in Pairs : dial[p] = "none" => dial'[p] = "none"
    BY <1>2 DEF StartPairingFails, Cancelled
  <2>3. QED
    BY <1>2, <2>1, <2>2 DEF StartPairingFails
<1>3. ASSUME NEW p \in Pairs, NEW h \in Hosts, StartPairing(p, h) PROVE PairInv'
  <2>1. \A q \in Pairs : dial'[q] = "none" => dial[q] = "none" /\ q # p
    BY <1>3 DEF StartPairing, Cancelled
  <2>2. dial'[p] = "spawned" /\ \A q \in Pairs : dial[q] # "none" => dial'[q] # "none"
    BY <1>3 DEF StartPairing, Cancelled
  <2>3. \A q \in Pairs : dial'[q] # "none" => q = p \/ dial[q] # "none"
    BY <1>3 DEF StartPairing, Cancelled
  <2>4. QED
    BY <1>3, <2>1, <2>2, <2>3 DEF StartPairing
<1>4. ASSUME NEW p \in Pairs, Attempt(p) PROVE PairInv'
  BY <1>4 DEF Attempt
<1>5. ASSUME NEW p \in Pairs, NEW c \in Conns, Connect(p, c) PROVE PairInv'
  <2>1. /\ \A q \in Pairs : dial[q] = "none" => dial'[q] = "none" /\ q # p
        /\ \A q \in Pairs : dial'[q] = "none" <=> dial[q] = "none"
        /\ \A q \in Pairs : q # p => rx'[q] = rx[q]
        /\ dial[p] # "none"
    BY <1>5 DEF Connect, Tell
  <2>2. /\ \A b \in Conns : b # c => state'[b] = state[b] /\ owner'[b] = owner[b]
        /\ state'[c] = "up" /\ owner'[c] = p
        /\ \A b \in Conns : b < c => state[b] # "none"
    BY <1>5 DEF Connect
  <2>3. UNCHANGED <<host, saving>>
    BY <1>5 DEF Connect
  <2>4. \A a, b \in Conns : a < b /\ state'[b] # "none" => state'[a] # "none"
    BY <2>2 DEF Conns
  <2>5. \A q \in Pairs : dial'[q] = "none" => rx'[q] = <<>> /\ ~saving'[q].busy
    BY <2>1, <2>3
  <2>6. ASSUME NEW b \in Conns, state'[b] # "none"
        PROVE  owner'[b] \in Pairs /\ dial'[owner'[b]] # "none"
    <3>1. CASE b = c
      BY <2>1, <2>2, <3>1
    <3>2. CASE b # c
      BY <2>1, <2>2, <2>6, <3>2
    <3>3. QED
      BY <3>1, <3>2
  <2>7. \A b \in Conns : state'[b] = "none" => owner'[b] = None
    BY <2>2
  <2>8. UNCHANGED handle
    BY <1>5 DEF Connect
  <2>9. \A q \in Pairs : dial'[q] # "none" => host'[q] \in Hosts
    BY <2>1, <2>3
  <2>10. handle' # None => dial'[handle'] # "none"
    BY <2>1, <2>8
  <2>11. QED
    BY <2>4, <2>5, <2>6, <2>7, <2>9, <2>10
<1>6. ASSUME NEW p \in Pairs, ConnectFails(p) PROVE PairInv'
  BY <1>6 DEF ConnectFails, Retry, Tell
<1>7. ASSUME NEW c \in Conns, owner[c] \in Pairs, Drained(c) PROVE PairInv'
  BY <1>7 DEF Drained, Retry, Tell, Drains
<1>8. ASSUME NEW c \in Conns, Greet(c) PROVE PairInv'
  BY <1>8 DEF Greet, Tell, Drains
<1>9. ASSUME NEW c \in Conns, Die(c) PROVE PairInv'
  BY <1>9 DEF Die
<1>10. ASSUME NEW p \in Pairs, Forward(p) PROVE PairInv'
  BY <1>10 DEF Forward
<1>11. ASSUME NEW p \in Pairs, LoadPeers(p) \/ SavePeers(p) PROVE PairInv'
  BY <1>11 DEF LoadPeers, SavePeers
<1>12. CASE UNCHANGED vars
  BY <1>12 DEF vars
<1>13. QED
  BY <1>1, <1>2, <1>3, <1>4, <1>5, <1>6, <1>7, <1>8, <1>9, <1>10, <1>11, <1>12
     DEF Next, Dialer, Forwarder

-----------------------------------------------------------------------------
(* Tokens and connections.                                                   *)

\* Only an attempt presents a token, and it takes it.
LEMMA TokenStep == TypeOK /\ PairInv /\ TokenInv /\ [Next]_vars => TokenInv'
<1> SUFFICES ASSUME TypeOK, PairInv, TokenInv, [Next]_vars PROVE TokenInv'
  OBVIOUS
<1> USE DEF TokenInv, TypeOK, dialVars, connVars, fwdVars, appVars
<1>1. CASE Restart
  BY <1>1 DEF Restart, Fresh
<1>2. ASSUME NEW p \in Pairs, NEW h \in Hosts, StartPairing(p, h) PROVE TokenInv'
  BY <1>2 DEF StartPairing, Cancelled
<1>3. ASSUME NEW p \in Pairs, Attempt(p) PROVE TokenInv'
  BY <1>3 DEF Attempt, TokenLeft
<1>4. ASSUME UNCHANGED <<token, presented>>, \A p \in Pairs : dial'[p] = "none" => dial[p] = "none"
      PROVE  TokenInv'
  BY <1>4
<1>5. CASE StartPairingFails
  BY <1>4, <1>5 DEF StartPairingFails, Cancelled
<1>6. ASSUME NEW p \in Pairs, NEW c \in Conns, Connect(p, c) PROVE TokenInv'
  BY <1>4, <1>6 DEF Connect
<1>6a. ASSUME NEW p \in Pairs, ConnectFails(p) PROVE TokenInv'
  BY <1>4, <1>6a DEF ConnectFails, Retry
<1>7. ASSUME NEW c \in Conns, Drained(c) \/ Greet(c) \/ Die(c) PROVE TokenInv'
  BY <1>4, <1>7 DEF Drained, Retry, Greet, Die
<1>8. ASSUME NEW p \in Pairs, Forwarder(p) PROVE TokenInv'
  BY <1>4, <1>8 DEF Forwarder, Forward, LoadPeers, SavePeers
<1>9. CASE UNCHANGED vars
  BY <1>4, <1>9 DEF vars
<1>10. QED
  BY <1>1, <1>2, <1>3, <1>5, <1>6, <1>6a, <1>7, <1>8, <1>9 DEF Next, Dialer

\* A dialer makes a connection only when its last one is dead, and goes back to dialing
\* only when it has drained that one to its end.
LEMMA LastStep == TypeOK /\ PairInv /\ LastInv /\ [Next]_vars => LastInv'
<1> SUFFICES ASSUME TypeOK, PairInv, LastInv, [Next]_vars PROVE LastInv'
  OBVIOUS
<1> USE DEF LastInv, TypeOK, dialVars, connVars, fwdVars, appVars
<1>1. CASE Restart
  BY <1>1 DEF Restart, Fresh
<1>2. ASSUME UNCHANGED <<state, owner>>,
             \A p \in Pairs : dial'[p] \in {"spawned", "connecting", "sleeping"} =>
                 dial[p] \in {"none", "spawned", "connecting", "sleeping"}
      PROVE  LastInv'
  BY <1>2 DEF PairInv
<1>3. ASSUME NEW p \in Pairs, NEW h \in Hosts, StartPairing(p, h) PROVE LastInv'
  BY <1>2, <1>3 DEF StartPairing, Cancelled
<1>4. CASE StartPairingFails
  BY <1>2, <1>4 DEF StartPairingFails, Cancelled
<1>5. ASSUME NEW p \in Pairs, Attempt(p) \/ ConnectFails(p) PROVE LastInv'
  BY <1>2, <1>5 DEF Attempt, ConnectFails, Retry
<1>6. ASSUME NEW p \in Pairs, NEW c \in Conns, Connect(p, c) PROVE LastInv'
  <2>1. /\ \A b \in Conns : b # c => state'[b] = state[b] /\ owner'[b] = owner[b]
        /\ owner'[c] = p /\ dial[p] = "connecting" /\ dial'[p] = "draining"
        /\ \A q \in Pairs : q # p => dial'[q] = dial[q]
    BY <1>6 DEF Connect
  <2>2. \A b \in Conns : owner[b] # None => owner[b] \in Pairs
    BY DEF PairInv
  <2>3. \A b \in Conns : c < b => owner[b] = None
    BY <1>6 DEF Connect, PairInv
  <2>4. \A b \in Conns : owner[b] = p => state[b] = "dead"
    BY <2>1, PairsNumbered
  <2>5. ASSUME NEW a \in Conns, NEW b \in Conns, a < b, owner'[a] = owner'[b], owner'[b] # None
        PROVE  state'[a] = "dead"
    BY <2>1, <2>2, <2>3, <2>4, <2>5 DEF Conns
  <2>6. ASSUME NEW b \in Conns, owner'[b] # None,
               dial'[owner'[b]] \in {"spawned", "connecting", "sleeping"}
        PROVE  state'[b] = "dead"
    <3>1. b # c /\ owner'[b] # p
      BY <2>1, <2>6
    <3>2. state'[b] = state[b] /\ owner'[b] = owner[b] /\ owner[b] \in Pairs
      BY <2>1, <2>2, <2>6, <3>1
    <3>3. dial[owner[b]] \in {"spawned", "connecting", "sleeping"}
      BY <2>1, <2>6, <3>1, <3>2
    <3>4. QED
      BY <2>6, <3>2, <3>3
  <2>7. QED
    BY <2>5, <2>6
<1>7. ASSUME NEW c \in Conns, owner[c] \in Pairs, Drained(c) PROVE LastInv'
  <2>1. \A b \in Conns : owner[b] = owner[c] => state[b] = "dead"
    <3>1. /\ state[c] = "dead" /\ owner[c] # None
          /\ \A b \in Conns : owner[b] = owner[c] => b <= c
      BY <1>7, PairsNumbered DEF Drained, ClosedSeen, Drains
    <3>2. QED
      BY <3>1 DEF Conns
  <2>2. UNCHANGED <<state, owner>> /\ \A q \in Pairs : q # owner[c] => dial'[q] = dial[q]
    BY <1>7 DEF Drained, Retry
  <2>3. \A b \in Conns : owner[b] # None => owner[b] \in Pairs
    BY DEF PairInv
  <2>4. QED
    BY <2>1, <2>2, <2>3
<1>8. ASSUME NEW c \in Conns, Greet(c) \/ Die(c) PROVE LastInv'
  BY <1>8 DEF Greet, Die
<1>9. ASSUME NEW p \in Pairs, Forwarder(p) PROVE LastInv'
  BY <1>2, <1>9 DEF Forwarder, Forward, LoadPeers, SavePeers
<1>10. CASE UNCHANGED vars
  BY <1>2, <1>10 DEF vars
<1>11. QED
  BY <1>1, <1>3, <1>4, <1>5, <1>6, <1>7, <1>8, <1>9, <1>10 DEF Next, Dialer

\* Only the latest pair() call runs.
LEMMA HandleStep == TypeOK /\ PairInv /\ HandleInv /\ [Next]_vars => HandleInv'
<1> SUFFICES ASSUME TypeOK, PairInv, HandleInv, [Next]_vars PROVE HandleInv'
  OBVIOUS
<1> USE DEF HandleInv, TypeOK, dialVars, connVars, fwdVars, appVars
<1>1. CASE Restart
  BY <1>1 DEF Restart, Fresh
<1>2. ASSUME NEW p \in Pairs, NEW h \in Hosts, StartPairing(p, h) PROVE HandleInv'
  <2>1. dial'[p] = "spawned" /\ handle' = p /\ p # None
    BY <1>2, PairsNumbered DEF StartPairing, Cancelled
  <2>2. ASSUME NEW q \in Pairs, q # p PROVE dial'[q] \in {"none", "cancelled"}
    <3>1. q # None
      BY PairsNumbered
    <3>2. CASE q = handle
      BY <1>2, <2>2, <3>1, <3>2 DEF StartPairing, Cancelled
    <3>3. CASE q # handle
      BY <1>2, <2>2, <3>3 DEF StartPairing, Cancelled
    <3>4. QED
      BY <3>2, <3>3
  <2>3. QED
    BY <2>1, <2>2
<1>3. CASE StartPairingFails
  BY <1>3 DEF StartPairingFails, Cancelled
<1>4. ASSUME UNCHANGED handle,
             \A p \in Pairs : dial'[p] = dial[p] \/ (dial[p] \notin {"none", "cancelled"}
                                                      /\ dial'[p] # "none")
      PROVE  HandleInv'
  BY <1>4
<1>5. ASSUME NEW p \in Pairs, Attempt(p) \/ ConnectFails(p) PROVE HandleInv'
  BY <1>4, <1>5 DEF Attempt, ConnectFails, Retry
<1>6. ASSUME NEW p \in Pairs, NEW c \in Conns, Connect(p, c) PROVE HandleInv'
  BY <1>4, <1>6 DEF Connect
<1>7. ASSUME NEW c \in Conns, Drained(c) PROVE HandleInv'
  BY <1>4, <1>7 DEF Drained, Retry, Drains
<1>8. ASSUME NEW c \in Conns, Greet(c) \/ Die(c) PROVE HandleInv'
  BY <1>4, <1>8 DEF Greet, Die
<1>9. ASSUME NEW p \in Pairs, Forwarder(p) PROVE HandleInv'
  BY <1>4, <1>9 DEF Forwarder, Forward, LoadPeers, SavePeers
<1>10. CASE UNCHANGED vars
  BY <1>4, <1>10 DEF vars
<1>11. QED
  BY <1>1, <1>2, <1>3, <1>5, <1>6, <1>7, <1>8, <1>9, <1>10 DEF Next, Dialer

-----------------------------------------------------------------------------
(* The slot and the app's status.                                            *)

\* Telling an event of those kinds makes its word the last; another one changes nothing.
LEMMA WillTold ==
    ASSUME NEW q \in Seq(Events), NEW e \in Events, NEW K, NEW W, NEW now, NEW x
    PROVE  /\ Append(q, e) \in Seq(Events)
           /\ e.kind \in K => Will(Append(q, e), K, W, now, W[e])
           /\ e.kind \notin K /\ Will(q, K, W, now, x) => Will(Append(q, e), K, W, now, x)
<1>1. ASSUME e.kind \in K PROVE Will(Append(q, e), K, W, now, W[e])
  <2>1. /\ LastOf(Append(q, e), K, Len(q) + 1) /\ Len(q) + 1 \in 1..Len(Append(q, e))
        /\ Append(q, e)[Len(q) + 1] = e
    BY <1>1, EventTold
  <2>2. QED
    BY <2>1 DEF Will
<1>2. ASSUME e.kind \notin K, Will(q, K, W, now, x) PROVE Will(Append(q, e), K, W, now, x)
  <2>1. CASE NoneOf(q, K) /\ now = x
    BY <1>2, <2>1, EventTold DEF Will
  <2>2. ASSUME NEW i \in 1..Len(q), LastOf(q, K, i), W[q[i]] = x
        PROVE  Will(Append(q, e), K, W, now, x)
    <3>1. LastOf(Append(q, e), K, i) /\ i \in 1..Len(Append(q, e)) /\ Append(q, e)[i] = q[i]
      BY <1>2, <2>2, EventTold
    <3>2. QED
      BY <2>2, <3>1 DEF Will
  <2>3. QED
    BY <1>2, <2>1, <2>2 DEF Will
<1>3. QED
  BY <1>1, <1>2, EventTold

\* Taking an event and hearing its word leaves what will be heard in the end.
LEMMA WillHeard ==
    ASSUME NEW q \in Seq(Events), q # <<>>, NEW K, NEW W, NEW now, NEW x,
           Will(q, K, W, now, x)
    PROVE  Will(Tail(q), K, W, IF Head(q).kind \in K THEN W[Head(q)] ELSE now, x)
<1>1. Head(q) = q[1] /\ 1 \in 1..Len(q)
  BY EventTaken
<1>2. CASE NoneOf(q, K) /\ now = x
  BY <1>2, EventTaken DEF Will
<1>3. ASSUME NEW i \in 1..Len(q), LastOf(q, K, i), W[q[i]] = x
      PROVE  Will(Tail(q), K, W, IF Head(q).kind \in K THEN W[Head(q)] ELSE now, x)
  <2>1. CASE i = 1
    <3>1. NoneOf(Tail(q), K) /\ Head(q).kind \in K /\ W[Head(q)] = x
      BY <1>1, <1>3, <2>1, EventTaken DEF LastOf
    <3>2. QED
      BY <3>1 DEF Will
  <2>2. CASE i # 1
    <3>1. \A j \in 1..Len(q) : LastOf(q, K, j) /\ j # 1 =>
             /\ LastOf(Tail(q), K, j - 1) /\ j - 1 \in 1..Len(Tail(q))
             /\ Tail(q)[j - 1] = q[j]
      BY EventTaken
    <3>2. LastOf(Tail(q), K, i - 1) /\ i - 1 \in 1..Len(Tail(q)) /\ Tail(q)[i - 1] = q[i]
      BY <1>3, <2>2, <3>1
    <3>3. QED
      BY <1>3, <3>2 DEF Will
  <2>3. QED
    BY <2>1, <2>2
<1>4. QED
  BY <1>2, <1>3 DEF Will

\* With one dialer, the connection that is not dead is the one it drains.
LEMMA TheOne ==
    ASSUME TypeOK, PairInv, LastInv, HandleInv, SlotInv, Alone,
           NEW c \in Conns, state[c] \in {"up", "ready"}
    PROVE  handle \in Pairs /\ handle # None /\ InUse(handle, c)
<1>1. /\ owner[c] \in Pairs /\ owner[c] # None /\ dial[owner[c]] # "none"
      /\ dial[owner[c]] # "cancelled"
  BY PairsNumbered DEF PairInv, Alone
<1>2. handle = owner[c]
  BY <1>1 DEF HandleInv
<1>3. dial[handle] = "draining"
  BY <1>1, <1>2 DEF LastInv, TypeOK
<1>4. PICK b \in Conns : InUse(handle, b)
  BY <1>1, <1>2, <1>3 DEF SlotInv, Idle
<1>5. owner[b] = owner[c] /\ c <= b
  BY <1>2, <1>4 DEF InUse, Drains
<1>6. b = c
  <2>1. ~(c < b)
    BY <1>1, <1>5 DEF LastInv
  <2>2. QED
    BY <1>5, <2>1 DEF Conns
<1>7. QED
  BY <1>1, <1>2, <1>4, <1>6

\* The one dialer that runs is the handle's.
LEMMA TheDialer ==
    ASSUME TypeOK, PairInv, HandleInv, SlotInv, Alone, NEW p \in Pairs, dial[p] # "none"
    PROVE  handle = p /\ handle # None /\ (Idle(p) \/ \E c \in Conns : InUse(p, c))
  BY PairsNumbered DEF HandleInv, SlotInv, Alone

\* Whatever the dialer meets, the events on their way to the forwarder say it last.
LEMMA SlotStep == TypeOK /\ PairInv /\ LastInv /\ HandleInv /\ SlotInv /\ [Next]_vars => SlotInv'
<1> SUFFICES ASSUME TypeOK, PairInv, LastInv, HandleInv, SlotInv, [Next]_vars, Alone'
             PROVE  IF handle' = None THEN active' = None /\ Shown' = "off"
                    ELSE Idle(handle)' \/ \E c \in Conns : InUse(handle, c)'
  BY DEF SlotInv
<1> DEFINE Kept == IF handle' = None THEN active' = None /\ Shown' = "off"
                   ELSE Idle(handle)' \/ \E c \in Conns : InUse(handle, c)'
<1> HIDE DEF Kept
<1> USE DEF dialVars, connVars, fwdVars, appVars
<1>e. \A kind \in Kinds, c \in Conns \cup {None} : Event(kind, c) \in Events
  BY DEF Events, Event
<1>q. \A p \in Pairs : rx[p] \in Seq(Events)
  BY DEF TypeOK, Events
<1>1. CASE Restart
  BY <1>1 DEF Restart, Kept, Shown
<1>2. CASE StartPairingFails
  <2>1. dial'[handle] = "cancelled" /\ handle \in Pairs
    BY <1>2 DEF StartPairingFails, Cancelled, TypeOK
  <2>2. QED
    BY <2>1 DEF Alone
<1>3. ASSUME NEW p \in Pairs, NEW h \in Hosts, StartPairing(p, h) PROVE Kept
  <2>1. handle = None
    <3>1. SUFFICES ASSUME handle # None PROVE FALSE
      OBVIOUS
    <3>2. handle \in Pairs /\ handle # p /\ dial'[handle] = "cancelled"
      BY <1>3, <3>1 DEF StartPairing, Cancelled, TypeOK, PairInv
    <3>3. QED
      BY <3>2 DEF Alone
  <2>2. dial' = [dial EXCEPT ![p] = "spawned"] /\ handle' = p /\ UNCHANGED <<rx, active, status>>
    BY <1>3, <2>1 DEF StartPairing, Cancelled
  <2>3. Alone
    BY <1>3, <2>2 DEF StartPairing, Alone, TypeOK
  <2>4. active = None /\ Shown = "off" /\ rx[p] = <<>>
    BY <1>3, <2>1, <2>3 DEF SlotInv, StartPairing, PairInv
  <2>5. dial'[p] = "spawned"
    BY <2>2 DEF TypeOK
  <2>6. Idle(p)'
    BY <2>2, <2>4, <2>5 DEF Idle, SlotWill, StatusWill, Will, NoneOf, Shown
  <2>7. QED
    BY <2>2, <2>6, PairsNumbered DEF Kept
\* From here on the dialers that were cancelled stay so.
<1>4. ASSUME NEW p \in Pairs, Attempt(p) PROVE Kept
  <2>1. Alone /\ dial[p] \notin {"none", "draining"} /\ dial'[p] = "connecting"
    BY <1>4 DEF Attempt, Alone, TypeOK
  <2>2. handle = p /\ handle # None /\ Idle(p)
    BY <2>1, TheDialer DEF InUse, Drains
  <2>3. Idle(p)'
    BY <1>4, <2>1, <2>2 DEF Attempt, Idle, SlotWill, StatusWill, Shown
  <2>4. QED
    BY <1>4, <2>2, <2>3 DEF Kept, Attempt
<1>5. ASSUME NEW p \in Pairs, NEW c \in Conns, Connect(p, c) PROVE Kept
  <2>1. Alone /\ dial[p] \notin {"none", "draining"}
    BY <1>5 DEF Connect, Alone, TypeOK
  <2>2. handle = p /\ handle # None /\ Idle(p)
    BY <2>1, TheDialer DEF InUse, Drains
  <2> DEFINE e == Event("connected", c)
  <2>3. e \in Events /\ e.kind = "connected" /\ e.c = c
    BY <1>e DEF Kinds, Event
  <2>4. rx'[p] = Append(rx[p], e) /\ UNCHANGED <<active, status, handle>>
    BY <1>5, <1>q, <2>3, OneOrTwo DEF Connect, Tell, TypeOK
  <2>5. SlotWill(p, c)'
    <3>1. Will(Append(rx[p], e), SlotKinds, Named, active, Named[e])
      BY <1>q, <2>3, WillTold DEF SlotKinds
    <3>2. Named[e] = c
      BY <2>3 DEF Named
    <3>3. QED
      BY <2>4, <3>1, <3>2 DEF SlotWill
  <2>6. StatusWill(p, "off")'
    <3>1. Will(Append(rx[p], e), StatusKinds, Said, Shown, "off")
      BY <1>q, <2>2, <2>3, WillTold DEF StatusKinds, Idle, StatusWill
    <3>2. QED
      BY <2>4, <3>1 DEF StatusWill, Shown
  <2>7. state'[c] = "up" /\ owner'[c] = p /\ dial'[p] = "draining"
    BY <1>5 DEF Connect, TypeOK
  <2>8. ASSUME NEW b \in Conns, owner'[b] = p PROVE b <= c
    <3>1. CASE b = c
      BY <3>1 DEF Conns
    <3>2. CASE c < b
      <4>1. owner'[b] = owner[b] /\ owner[b] = None
        BY <1>5, <3>2 DEF Connect, TypeOK, PairInv, Conns
      <4>2. QED
        BY <2>8, <4>1, PairsNumbered
    <3>3. QED
      BY <3>1, <3>2 DEF Conns
  <2>9. InUse(p, c)'
    BY <2>5, <2>6, <2>7, <2>8 DEF InUse, Drains
  <2>10. QED
    BY <2>2, <2>4, <2>9 DEF Kept
<1>6. ASSUME NEW p \in Pairs, ConnectFails(p) PROVE Kept
  <2>1. Alone /\ dial[p] \notin {"none", "draining"} /\ dial'[p] = "sleeping"
    BY <1>6 DEF ConnectFails, Retry, Alone, TypeOK
  <2>2. handle = p /\ handle # None /\ Idle(p)
    BY <2>1, TheDialer DEF InUse, Drains
  <2> DEFINE e == Event("reconnecting", None)
  <2>3. e \in Events /\ e.kind = "reconnecting"
    BY <1>e DEF Kinds, Event
  <2>4. rx'[p] = Append(rx[p], e) /\ UNCHANGED <<active, status, handle>>
    BY <1>6, <1>q, <2>3, OneOrTwo DEF ConnectFails, Retry, Tell, TypeOK
  <2>5. SlotWill(p, None)'
    <3>1. Will(Append(rx[p], e), SlotKinds, Named, active, None)
      BY <1>q, <2>2, <2>3, WillTold DEF SlotKinds, Idle, SlotWill
    <3>2. QED
      BY <2>4, <3>1 DEF SlotWill
  <2>6. StatusWill(p, "off")'
    <3>1. Will(Append(rx[p], e), StatusKinds, Said, Shown, Said[e])
      BY <1>q, <2>3, WillTold DEF StatusKinds
    <3>2. Said[e] = "off"
      BY <2>3 DEF Said
    <3>3. QED
      BY <2>4, <3>1, <3>2 DEF StatusWill, Shown
  <2>7. QED
    BY <2>1, <2>2, <2>4, <2>5, <2>6 DEF Kept, Idle
<1>7. ASSUME NEW c \in Conns, owner[c] \in Pairs, Drained(c) PROVE Kept
  <2>p. PICK p \in Pairs : p = owner[c]
    BY <1>7
  <2> DEFINE e == Event("closed", c)
             f == Event("reconnecting", None)
  <2>1. /\ Alone /\ dial[p] # "none" /\ dial'[p] = "sleeping"
        /\ UNCHANGED <<active, status, handle>>
        /\ rx' = [rx EXCEPT ![p] = @ \o Append(<<e>>, f)]
    BY <1>7, <2>p DEF Drained, Drains, Retry, Tell, Alone, TypeOK
  <2>2. handle = p /\ handle # None
    BY <1>7, <2>1, TheDialer
  <2>3. e \in Events /\ e.kind = "closed" /\ f \in Events /\ f.kind = "reconnecting"
    BY <1>e DEF Kinds, Event
  <2>4. rx[p] \in Seq(Events) /\ rx'[p] = Append(Append(rx[p], e), f)
    BY <1>7, <1>q, <2>1, <2>3, OneOrTwo DEF TypeOK
  <2>5. SlotWill(p, None)'
    <3>1. Append(rx[p], e) \in Seq(Events) /\ Will(Append(rx[p], e), SlotKinds, Named, active, Named[e])
      BY <2>3, <2>4, WillTold DEF SlotKinds
    <3>2. Named[e] = None
      BY <2>3 DEF Named
    <3>3. Will(Append(Append(rx[p], e), f), SlotKinds, Named, active, None)
      BY <2>3, <3>1, <3>2, WillTold DEF SlotKinds
    <3>4. QED
      BY <2>1, <2>4, <3>3 DEF SlotWill
  <2>6. StatusWill(p, "off")'
    <3>1. Append(rx[p], e) \in Seq(Events)
      BY <2>3, <2>4, WillTold
    <3>2. Will(Append(Append(rx[p], e), f), StatusKinds, Said, Shown, Said[f])
      BY <2>3, <3>1, WillTold DEF StatusKinds
    <3>3. Said[f] = "off"
      BY <2>3 DEF Said
    <3>4. QED
      BY <2>1, <2>4, <3>2, <3>3 DEF StatusWill, Shown
  <2>7. QED
    BY <2>1, <2>2, <2>5, <2>6 DEF Kept, Idle
<1>8. ASSUME NEW c \in Conns, Greet(c) PROVE Kept
  <2>1. Alone /\ state[c] = "up" /\ UNCHANGED <<dial, owner, active, status, handle>>
    BY <1>8 DEF Greet, Alone
  <2>2. handle \in Pairs /\ handle # None /\ InUse(handle, c)
    BY <2>1, TheOne
  <2> DEFINE e == Event("handshake", c)
  <2>3. e \in Events /\ e.kind = "handshake"
    BY <1>e DEF Kinds, Event
  <2>4. rx'[handle] = Append(rx[handle], e)
    BY <1>8, <1>q, <2>2, <2>3, OneOrTwo DEF Greet, Tell, TypeOK, InUse
  <2>5. SlotWill(handle, c)'
    <3>1. Will(Append(rx[handle], e), SlotKinds, Named, active, c)
      BY <1>q, <2>2, <2>3, WillTold DEF SlotKinds, InUse, SlotWill
    <3>2. QED
      BY <2>1, <2>4, <3>1 DEF SlotWill
  <2>6. StatusWill(handle, "on")'
    <3>1. Will(Append(rx[handle], e), StatusKinds, Said, Shown, Said[e])
      BY <1>q, <2>2, <2>3, WillTold DEF StatusKinds
    <3>2. Said[e] = "on"
      BY <2>3 DEF Said
    <3>3. QED
      BY <2>1, <2>4, <3>1, <3>2 DEF StatusWill, Shown
  <2>7. state'[c] = "ready"
    BY <1>8 DEF Greet, TypeOK
  <2>8. InUse(handle, c)'
    BY <2>1, <2>2, <2>5, <2>6, <2>7 DEF InUse, Drains
  <2>9. QED
    BY <2>1, <2>2, <2>8 DEF Kept
<1>9. ASSUME NEW c \in Conns, Die(c) PROVE Kept
  <2>1. /\ Alone /\ state[c] \in {"up", "ready"} /\ state'[c] = "dead"
        /\ UNCHANGED <<dial, owner, rx, active, status, handle>>
    BY <1>9 DEF Die, Alone, TypeOK
  <2>2. handle # None /\ InUse(handle, c)
    BY <2>1, TheOne
  <2>3. InUse(handle, c)'
    BY <2>1, <2>2 DEF InUse, Drains, SlotWill
  <2>4. QED
    BY <2>1, <2>2, <2>3 DEF Kept
<1>10. ASSUME NEW p \in Pairs, Forward(p) PROVE Kept
  <2>1. /\ Alone /\ rx[p] # <<>> /\ dial[p] # "none" /\ rx'[p] = Tail(rx[p])
        /\ UNCHANGED <<dial, state, owner, handle>>
    BY <1>10 DEF Forward, Alone, TypeOK, PairInv
  <2>2. handle = p /\ handle # None /\ (Idle(p) \/ \E c \in Conns : InUse(p, c))
    BY <2>1, TheDialer
  <2> DEFINE e == Head(rx[p])
  <2>3. e \in Events
    BY <1>q, <2>1, EventTaken
  <2>4. active' = IF e.kind \in SlotKinds THEN Named[e] ELSE active
    BY <1>10, <2>3 DEF Forward, Oldest, NextSession, SlotKinds, Named
  <2>5. Shown' = IF e.kind \in StatusKinds THEN Said[e] ELSE Shown
    <3>1. status' = Reduce(e.kind) /\ e.kind \in Kinds
      BY <1>10, <2>3 DEF Forward, Oldest, Events
    <3>2. Said[e] = IF e.kind = "handshake" THEN "on" ELSE "off"
      BY <2>3 DEF Said
    <3>3. QED
      BY <3>1, <3>2 DEF Reduce, StatusKinds, Shown, Kinds
  <2>6. ASSUME NEW x, SlotWill(p, x) PROVE SlotWill(p, x)'
    BY <1>q, <2>1, <2>4, <2>6, WillHeard DEF SlotWill
  <2>7. ASSUME NEW x, StatusWill(p, x) PROVE StatusWill(p, x)'
    BY <1>q, <2>1, <2>5, <2>7, WillHeard DEF StatusWill
  <2>8. Idle(p) => Idle(p)'
    BY <2>1, <2>6, <2>7 DEF Idle
  <2>9. \A c \in Conns : InUse(p, c) => InUse(p, c)'
    BY <2>1, <2>6, <2>7 DEF InUse, Drains
  <2>10. QED
    BY <2>1, <2>2, <2>8, <2>9 DEF Kept
<1>11. ASSUME UNCHANGED <<dial, state, owner, rx, active, status, handle>> PROVE Kept
  <2>1. Alone
    BY <1>11 DEF Alone
  <2>2. IF handle = None THEN active = None /\ Shown = "off"
        ELSE Idle(handle) \/ \E c \in Conns : InUse(handle, c)
    BY <2>1 DEF SlotInv
  <2>3. QED
    BY <1>11, <2>2 DEF Kept, Idle, InUse, Drains, SlotWill, StatusWill, Shown
<1>12. ASSUME NEW p \in Pairs, LoadPeers(p) \/ SavePeers(p) PROVE Kept
  BY <1>11, <1>12 DEF LoadPeers, SavePeers
<1>13. ASSUME UNCHANGED vars PROVE Kept
  <2>1. UNCHANGED <<dial, state, owner, rx, active, status, handle>>
    BY <1>13 DEF vars
  <2>2. QED
    BY <1>11, <2>1
<1>14. QED
  BY <1>1, <1>2, <1>3, <1>4, <1>5, <1>6, <1>7, <1>8, <1>9, <1>10, <1>12, <1>13
     DEF Next, Dialer, Forwarder, Kept

-----------------------------------------------------------------------------
(* The theorems.                                                             *)

\* A process starts with nothing presented, connected or in the slot.
LEMMA InitRest == Init => TokenInv /\ LastInv /\ HandleInv /\ SlotInv
  BY DEF Init, Fresh, TokenInv, LastInv, HandleInv, SlotInv, Shown

\* Everything the other theorems rest on, at once.
THEOREM Invariant ==
    Spec => [](TypeOK /\ PairInv /\ TokenInv /\ LastInv /\ HandleInv /\ SlotInv)
<1>1. Init => TypeOK /\ PairInv /\ TokenInv /\ LastInv /\ HandleInv /\ SlotInv
  BY InitTypes, InitRest
<1>2. TypeOK /\ PairInv /\ TokenInv /\ LastInv /\ HandleInv /\ SlotInv /\ [Next]_vars
        => (TypeOK /\ PairInv /\ TokenInv /\ LastInv /\ HandleInv /\ SlotInv)'
  BY TypeStep, PairStep, TokenStep, LastStep, HandleStep, SlotStep
<1>3. QED
  BY <1>1, <1>2, PTL DEF Spec

\* Every variable keeps its range: a forwarder never adds a host nobody scanned to
\* peers.json, and the slot never holds a connection that was not made.
THEOREM TypeCorrect == Spec => []TypeOK
  BY Invariant, PTL

\* However often a dialer reconnects, it presents the token of its scan once at most.
THEOREM TokenCorrect == Spec => []TokenOnce
<1>1. TokenInv => TokenOnce
  BY DEF TokenInv, TokenOnce
<1>2. QED
  BY <1>1, Invariant, PTL

\* A dialer never holds two connections: the last is drained to its Closed before the
\* next attempt begins, whatever the drive tasks do meanwhile.
THEOREM OneCorrect == Spec => []OneAtATime
<1>1. LastInv => OneAtATime
  <2> SUFFICES ASSUME LastInv, NEW b \in Conns, NEW c \in Conns,
                      b # c, owner[b] = owner[c], owner[b] # None
               PROVE  "dead" \in {state[b], state[c]}
    BY DEF OneAtATime
  <2>1. b < c \/ c < b
    BY DEF Conns
  <2>2. QED
    BY <2>1 DEF LastInv
<1>2. QED
  BY <1>1, Invariant, PTL

\* With every event forwarded, what the slot and the status say of the dialer is so.
LEMMA CaughtUp ==
    ASSUME TypeOK, PairInv, LastInv, HandleInv, SlotInv, Quiet, Alone
    PROVE  \/ /\ \A c \in Conns : ~Live(c)
              /\ active = None /\ status # "Connected"
           \/ \E c \in Conns :
                 /\ active = c /\ Live(c) /\ \A b \in Conns : Live(b) => b = c
                 /\ status = "Connected" <=> state[c] = "ready"
<1>1. ASSUME NEW c \in Conns, Live(c)
      PROVE  /\ active = c /\ (status = "Connected" <=> state[c] = "ready")
  <2>1. handle \in Pairs /\ InUse(handle, c) /\ rx[handle] = <<>>
    BY <1>1, TheOne DEF Live, Quiet
  <2>2. active = c
    BY <2>1 DEF InUse, SlotWill, Will
  <2>3. CASE state[c] = "up"
    <3>1. StatusWill(handle, "off")
      BY <2>1, <2>3 DEF InUse
    <3>2. Shown = "off"
      BY <2>1, <3>1 DEF StatusWill, Will
    <3>3. status # "Connected"
      BY <3>2 DEF Shown
    <3>4. QED
      BY <2>2, <2>3, <3>3
  <2>4. CASE state[c] = "ready"
    <3>1. StatusWill(handle, "on")
      BY <2>1, <2>4 DEF InUse
    <3>2. Shown = "on"
      BY <2>1, <3>1 DEF StatusWill, Will
    <3>3. status = "Connected"
      BY <3>2 DEF Shown
    <3>4. QED
      BY <2>2, <2>4, <3>3
  <2>5. QED
    BY <1>1, <2>2, <2>3, <2>4 DEF Live
<1>2. ASSUME \A c \in Conns : ~Live(c) PROVE active = None /\ status # "Connected"
  <2>1. CASE handle = None
    BY <2>1 DEF SlotInv, Shown
  <2>2. CASE handle # None
    <3>1. handle \in Pairs /\ rx[handle] = <<>>
      BY <2>2 DEF TypeOK, Quiet
    <3>2. ASSUME NEW c \in Conns, InUse(handle, c) PROVE FALSE
      BY <1>2, <3>2 DEF InUse, Drains, Quiet, Live, TypeOK
    <3>3. Idle(handle)
      BY <2>2, <3>2 DEF SlotInv
    <3>4. QED
      BY <3>1, <3>3 DEF Idle, SlotWill, StatusWill, Will, Shown
  <2>3. QED
    BY <2>1, <2>2
<1>3. QED
  <2>1. CASE \A c \in Conns : ~Live(c)
    BY <1>2, <2>1
  <2>2. ASSUME NEW c \in Conns, Live(c)
        PROVE  /\ active = c /\ Live(c) /\ \A b \in Conns : Live(b) => b = c
               /\ status = "Connected" <=> state[c] = "ready"
    BY <1>1, <2>2
  <2>3. QED
    BY <2>1, <2>2

\* What a phone's clipboard is sent into, while its first pairing is left alone, is the
\* live connection, however far the forwarder was behind.
THEOREM SlotCorrect == Spec => []SlotIsLive
<1>1. TypeOK /\ PairInv /\ LastInv /\ HandleInv /\ SlotInv => SlotIsLive
  <2> SUFFICES ASSUME TypeOK, PairInv, LastInv, HandleInv, SlotInv, Quiet, Alone,
                      NEW c \in Conns
               PROVE  active = c <=> Live(c)
    BY DEF SlotIsLive, Alone
  <2>1. c # None
    BY DEF Conns
  <2>2. QED
    BY <2>1, CaughtUp
<1>2. QED
  BY <1>1, Invariant, PTL

\* And the app says connected exactly when a handshake has been exchanged on it.
THEOREM StatusCorrect == Spec => []StatusIsTrue
<1>1. TypeOK /\ PairInv /\ LastInv /\ HandleInv /\ SlotInv => StatusIsTrue
  <2> SUFFICES ASSUME TypeOK, PairInv, LastInv, HandleInv, SlotInv, Quiet, Alone
               PROVE  status = "Connected" <=> \E c \in Conns : state[c] = "ready"
    BY DEF StatusIsTrue, Alone
  <2>1. \A c \in Conns : state[c] = "ready" => Live(c)
    BY DEF Live
  <2>2. QED
    BY <2>1, CaughtUp
<1>2. QED
  BY <1>1, Invariant, PTL
=============================================================================
