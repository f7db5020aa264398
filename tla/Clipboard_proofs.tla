-------------------------- MODULE Clipboard_proofs --------------------------
(* Theorems about Clipboard, for any phones, texts and bounds. *)
EXTENDS Clipboard, SequenceTheorems, TLAPS

USE ClipboardAssumption

-----------------------------------------------------------------------------
(* Types. *)

\* The daemon starts with empty queues and no hash.
LEMMA InitTypes == Init => TypeOK
<1> SUFFICES ASSUME Init PROVE TypeOK
  OBVIOUS
<1>1. <<>> \in Seq(Texts)
  OBVIOUS
<1>2. up \in [Phones -> Seq(Texts)] /\ down \in [Phones -> Seq(Texts)]
  BY <1>1 DEF Init
<1>3. backend = "probing" /\ feed = "none" /\ crossed \in BOOLEAN /\ behind \in BOOLEAN
  BY Zenon DEF Init
<1>4. watcher = Waiting /\ handler = Idle /\ None # Odd
  BY DEF Init
<1>5. QED
  BY <1>2, <1>3, <1>4 DEF Init, TypeOK, Waiting, Idle

\* Fanning a clip out to any phones keeps every queue a sequence of texts.
LEMMA SendToTypes ==
    ASSUME NEW ps, NEW c \in Texts, down \in [Phones -> Seq(Texts)], SendTo(ps, c)
    PROVE  down' \in [Phones -> Seq(Texts)]
<1>1. ASSUME NEW p \in Phones
      PROVE  (IF p \in ps THEN Append(down[p], c) ELSE down[p]) \in Seq(Texts)
  OBVIOUS
<1>2. QED
  BY <1>1 DEF SendTo

\* Taking the first clip of a queue, or adding one at its end.
LEMMA QueueTypes ==
    ASSUME NEW q \in [Phones -> Seq(Texts)], NEW p \in Phones
    PROVE  /\ \A c \in Texts : [q EXCEPT ![p] = Append(@, c)] \in [Phones -> Seq(Texts)]
           /\ [q EXCEPT ![p] = <<>>] \in [Phones -> Seq(Texts)]
           /\ q[p] # <<>> =>
                 /\ Head(q[p]) \in Texts
                 /\ [q EXCEPT ![p] = Tail(@)] \in [Phones -> Seq(Texts)]
<1>1. q[p] \in Seq(Texts) /\ <<>> \in Seq(Texts)
  OBVIOUS
<1>2. \A c \in Texts : Append(q[p], c) \in Seq(Texts)
  BY <1>1
<1>3. q[p] # <<>> => Head(q[p]) \in Texts /\ Tail(q[p]) \in Seq(Texts)
  BY <1>1
<1>4. QED
  BY <1>1, <1>2, <1>3

\* Every step keeps every variable in its range.
LEMMA TypeStep == TypeOK /\ [Next]_vars => TypeOK'
<1> SUFFICES ASSUME TypeOK, [Next]_vars PROVE TypeOK'
  OBVIOUS
<1> USE DEF TypeOK, Waiting, Idle, startVars, daemonVars, peerVars, linkVars, userVars
<1>1. ASSUME NEW c \in Texts \cup {Odd}, Copy(c) PROVE TypeOK'
  <2>1. changes' \in {changes, changes + 1} /\ selection' = c
    BY <1>1 DEF Copy, SetOwner
  <2>2. behind' \in BOOLEAN /\ crossed' \in BOOLEAN
    BY <1>1, Zenon DEF Copy, Receiving
  <2>3. QED
    BY <1>1, <2>1, <2>2 DEF Copy
<1>2. ASSUME NEW p \in Phones, NEW c \in Texts, PhoneSends(p, c) PROVE TypeOK'
  <2>1. up' \in [Phones -> Seq(Texts)]
    BY <1>2, QueueTypes DEF PhoneSends
  <2>2. QED
    BY <1>2, <2>1 DEF PhoneSends, Quiet
<1>3. ASSUME NEW p \in Phones, PhoneApplies(p) PROVE TypeOK'
  <2>1. down' \in [Phones -> Seq(Texts)] /\ Head(down[p]) \in Texts
    BY <1>3, QueueTypes DEF PhoneApplies
  <2>2. QED
    BY <1>3, <2>1 DEF PhoneApplies
<1>4. CASE WatchTakes \/ WatchReads \/ WatchReadFails \/ WatchHashes
  <2>1. CASE WatchTakes
    BY <2>1 DEF WatchTakes
  <2>2. CASE WatchReads
    BY <2>2 DEF WatchReads, ClipAccepts
  <2>3. CASE WatchReadFails
    BY <2>3 DEF WatchReadFails
  <2>4. CASE WatchHashes
    BY <2>4 DEF WatchHashes, ShouldBroadcast
  <2>5. QED
    BY <1>4, <2>1, <2>2, <2>3, <2>4
<1>5. CASE WatchSends
  <2>1. down' \in [Phones -> Seq(Texts)]
    BY <1>5, SendToTypes DEF WatchSends
  <2>2. QED
    BY <1>5, <2>1 DEF WatchSends
<1>6. ASSUME NEW p \in Phones, Receive(p) PROVE TypeOK'
  <2>1. up' \in [Phones -> Seq(Texts)] /\ Head(up[p]) \in Texts
    BY <1>6, QueueTypes DEF Receive
  <2>2. QED
    BY <1>6, <2>1 DEF Receive, ShouldBroadcast
<1>7. CASE WriteLocally
  <2>1. handler.clip \in Texts
    BY <1>7 DEF WriteLocally
  <2>2. selection' = handler.clip /\ changes' \in {changes, changes + 1}
    BY <1>7 DEF WriteLocally, SetOwner
  <2>3. /\ handler' = [handler EXCEPT !.at = "relaying"] /\ handler.at = "writing"
        /\ behind' \in BOOLEAN /\ UNCHANGED <<startVars, watcher, last_hash, peerVars, linkVars, userVars>>
    BY <1>7, Zenon DEF WriteLocally
  <2>4. selection' \in Texts \cup {Odd} /\ changes' \in Nat
    BY <2>1, <2>2
  <2>5. QED
    BY <2>3, <2>4
<1>8. CASE WriteNowhere \/ WriteFails
  BY <1>8 DEF WriteNowhere, WriteFails
<1>9. CASE Relay
  <2>1. down' \in [Phones -> Seq(Texts)]
    BY <1>9, SendToTypes DEF Relay
  <2>2. QED
    BY <1>9, <2>1 DEF Relay
<1>10. ASSUME NEW p \in Phones, Join(p) \/ Unpair(p) PROVE TypeOK'
  BY <1>10 DEF Join, Unpair
<1>11. ASSUME NEW p \in Phones, Leave(p) PROVE TypeOK'
  <2>1. up' \in [Phones -> Seq(Texts)] /\ down' \in [Phones -> Seq(Texts)]
    BY <1>11, QueueTypes DEF Leave
  <2>2. QED
    BY <1>11, <2>1 DEF Leave
<1>12. CASE UNCHANGED vars
  BY <1>12 DEF vars
<1>13. ASSUME NEW found \in {"none", "ready"}, Probe(found) PROVE TypeOK'
  BY <1>13 DEF Probe
<1>14. ASSUME NEW result \in {"open", "dead"}, Subscribe(result) PROVE TypeOK'
  BY <1>14 DEF Subscribe
<1>15. QED
  BY <1>1, <1>2, <1>3, <1>4, <1>5, <1>6, <1>7, <1>8, <1>9, <1>10, <1>11,
     <1>12, <1>13, <1>14 DEF Next

\* Type correctness: in particular the watcher never gets past Clip::new with a content
\* that is no clip, and always holds the clip it is about to hash or send.
THEOREM TypeCorrect == Spec => []TypeOK
  BY InitTypes, TypeStep, PTL DEF Spec
-----------------------------------------------------------------------------
(* Echo suppression. *)

\* Nothing has crossed before a step after which nothing has.
LEMMA CrossedStays == [Next]_vars /\ ~crossed' => ~crossed
<1> SUFFICES ASSUME [Next]_vars, ~crossed' PROVE ~crossed
  OBVIOUS
<1>1. ASSUME NEW c \in Texts \cup {Odd}, Copy(c) PROVE ~crossed
  BY <1>1, Zenon DEF Copy
<1>2. ASSUME NEW p \in Phones, NEW c \in Texts, PhoneSends(p, c) PROVE ~crossed
  BY <1>2, Zenon DEF PhoneSends
<1>3. CASE UNCHANGED userVars
  BY <1>3 DEF userVars
<1>4. QED
  BY <1>1, <1>2, <1>3, Zenon DEF Next, vars, Probe, Subscribe, PhoneApplies, WatchTakes,
     WatchReads, WatchReadFails, WatchHashes, WatchSends, Receive, WriteLocally, WriteNowhere,
     WriteFails, Relay, Join, Leave, Unpair

\* A clip is sent up when nothing is under way, and stays alone until it is relayed.
LEMMA AloneStep ==
    TypeOK /\ ReceivedAlone /\ [Next]_vars /\ ~crossed' => ReceivedAlone'
<1> SUFFICES ASSUME TypeOK, ReceivedAlone, [Next]_vars, ~crossed' PROVE ReceivedAlone'
  OBVIOUS
<1> USE DEF TypeOK, ReceivedAlone, Waiting, Idle, startVars, daemonVars, peerVars, linkVars, userVars
<1>1. ASSUME NEW c \in Texts \cup {Odd}, Copy(c) PROVE ReceivedAlone'
  <2>1. ~Receiving
    BY <1>1, Zenon DEF Copy
  <2>2. QED
    BY <1>1, <2>1 DEF Copy, Receiving
<1>2. ASSUME NEW p \in Phones, NEW c \in Texts, PhoneSends(p, c) PROVE ReceivedAlone'
  <2>1. Quiet
    BY <1>2, Zenon DEF PhoneSends
  <2>2. \A q \in Phones : up[q] = <<>>
    BY <2>1 DEF Quiet, Receiving
  <2>3. \A q \in Phones \ {p} : up'[q] = <<>>
    BY <1>2, <2>2 DEF PhoneSends
  <2>4. Len(up'[p]) = 1 /\ handler = Idle
    <3>1. up'[p] = Append(up[p], c) /\ up[p] \in Seq(Texts)
      BY <1>2 DEF PhoneSends
    <3>2. Len(up[p]) = 0
      BY <2>2
    <3>3. QED
      BY <2>1, <3>1, <3>2 DEF Quiet, Receiving
  <2>5. QED
    BY <1>2, <2>1, <2>3, <2>4 DEF PhoneSends, Quiet
<1>3. ASSUME NEW p \in Phones, Receive(p) PROVE ReceivedAlone'
  <2>1. up[p] # <<>> /\ up[p] \in Seq(Texts) /\ Len(up[p]) = 1
    BY <1>3 DEF Receive
  <2>2. Tail(up[p]) = <<>>
    <3>1. Tail(up[p]) \in Seq(Texts) /\ Len(Tail(up[p])) = 0
      BY <2>1, HeadTailProperties
    <3>2. QED
      BY <3>1, EmptySeq
  <2>3. \A q \in Phones : up'[q] = <<>>
    BY <1>3, <2>1, <2>2 DEF Receive
  <2>4. QED
    BY <1>3, <2>1, <2>3 DEF Receive, ShouldBroadcast
<1>4. ASSUME NEW p \in Phones, Leave(p) PROVE ReceivedAlone'
  BY <1>4 DEF Leave
<1>5. CASE WatchTakes \/ WatchReads \/ WatchReadFails
  BY <1>5 DEF WatchTakes, WatchReads, WatchReadFails
<1>6. CASE WatchHashes \/ WatchSends
  BY <1>6 DEF WatchHashes, WatchSends
<1>7. CASE WriteLocally \/ WriteNowhere \/ WriteFails \/ Relay
  BY <1>7 DEF WriteLocally, WriteNowhere, WriteFails, Relay, SetOwner
<1>8. ASSUME NEW p \in Phones, PhoneApplies(p) \/ Join(p) \/ Unpair(p) PROVE ReceivedAlone'
  BY <1>8 DEF PhoneApplies, Join, Unpair
<1>9. CASE UNCHANGED vars
  BY <1>9 DEF vars
<1>10. CASE \E x : Probe(x) \/ Subscribe(x)
  BY <1>10 DEF Probe, Subscribe
<1>11. QED
  BY <1>1, <1>2, <1>3, <1>4, <1>5, <1>6, <1>7, <1>8, <1>9, <1>10 DEF Next

\* The hash is set before the clip is written, so that what comes back is recognised.
LEMMA EchoStep == TypeOK /\ EchoInv /\ [Next]_vars => EchoInv'
<1> SUFFICES ASSUME TypeOK, EchoInv, [Next]_vars, ~crossed'
             PROVE  (ReceivedAlone /\ WrittenIsKnown /\ NeverSentBack)'
  BY DEF EchoInv
<1> DEFINE Known == WrittenIsKnown /\ NeverSentBack
<1>1. ReceivedAlone /\ Known
  BY CrossedStays DEF EchoInv
<1>2. ReceivedAlone'
  BY <1>1, AloneStep
<1>3. Known'
  <2> USE DEF TypeOK, WrittenIsKnown, NeverSentBack, Waiting, Idle, daemonVars, peerVars,
          linkVars, userVars
  <2>1. ASSUME NEW c \in Texts \cup {Odd}, Copy(c) PROVE Known'
    BY <1>1, <2>1 DEF Copy, SetOwner
  <2>2. ASSUME NEW p \in Phones, NEW c \in Texts, PhoneSends(p, c) PROVE Known'
    BY <1>1, <2>2 DEF PhoneSends
  <2>3. CASE WatchTakes
    BY <1>1, <2>3 DEF WatchTakes
  <2>4. CASE WatchReads \/ WatchReadFails
    BY <1>1, <2>4 DEF WatchReads, WatchReadFails, ClipAccepts
  <2>5. CASE WatchHashes
    BY <1>1, <2>5 DEF WatchHashes, ShouldBroadcast
  <2>6. CASE WatchSends
    BY <1>1, <2>6 DEF WatchSends
  <2>7. ASSUME NEW p \in Phones, Receive(p) PROVE Known'
    <3>1. changes = 0 /\ watcher = Waiting
      BY <1>1, <2>7 DEF Receive, ReceivedAlone
    <3>2. QED
      BY <1>1, <2>7, <3>1 DEF Receive
  <2>8. CASE WriteLocally
    <3>1. changes = 0 /\ watcher = Waiting /\ last_hash = handler.clip
      BY <1>1, <2>8 DEF WriteLocally, ReceivedAlone
    <3>2. selection' = last_hash /\ last_hash' = last_hash /\ watcher' = Waiting
      BY <2>8, <3>1 DEF WriteLocally, SetOwner
    <3>3. QED
      BY <3>2
  <2>9. CASE WriteNowhere \/ WriteFails \/ Relay
    BY <1>1, <2>9 DEF WriteNowhere, WriteFails, Relay
  <2>10. ASSUME NEW p \in Phones, PhoneApplies(p) \/ Join(p) \/ Leave(p) \/ Unpair(p)
         PROVE  Known'
    BY <1>1, <2>10 DEF PhoneApplies, Join, Leave, Unpair
  <2>11. CASE UNCHANGED vars
    BY <1>1, <2>11 DEF vars
  <2>12. CASE \E x : Probe(x) \/ Subscribe(x)
    BY <1>1, <2>12 DEF Probe, Subscribe
  <2>13. QED
    BY <2>1, <2>2, <2>3, <2>4, <2>5, <2>6, <2>7, <2>8, <2>9, <2>10, <2>11, <2>12 DEF Next
<1>4. QED
  BY <1>2, <1>3

\* As long as no clips cross, the watcher sends out only what was copied here, whatever
\* piles up, fails, joins or leaves: for any number of phones, copies and sends.
THEOREM NoEchoCorrect == Spec => []NoEchoUnlessCrossed
<1>1. Init => EchoInv
  BY DEF Init, EchoInv, ReceivedAlone, WrittenIsKnown, NeverSentBack, Waiting, Idle
<1>2. EchoInv => NoEchoUnlessCrossed
  BY DEF EchoInv, NoEchoUnlessCrossed
<1>3. QED
  BY <1>1, <1>2, EchoStep, TypeCorrect, PTL DEF Spec
-----------------------------------------------------------------------------
(* The selection at the end. *)

\* Whoever changes the selection notifies the watcher, which ends by setting last_hash, or
\* has set last_hash itself, or leaves the daemon behind.
LEMMA SharedStep == TypeOK /\ SharedInv /\ [Next]_vars => SharedInv'
<1> SUFFICES ASSUME TypeOK, SharedInv, [Next]_vars PROVE SharedInv'
  OBVIOUS
<1> USE DEF TypeOK, SharedInv, Waiting, Idle, startVars, daemonVars, peerVars, linkVars, userVars
<1>1. ASSUME NEW c \in Texts \cup {Odd}, Copy(c) PROVE SharedInv'
  <2>1. \/ changes' = changes + 1 /\ feed = "open"
        \/ changes' = changes /\ behind' = TRUE
    BY <1>1 DEF Copy, SetOwner
  <2>2. UNCHANGED <<startVars, watcher, handler, last_hash>>
    BY <1>1, Zenon DEF Copy
  <2>3. QED
    BY <2>1, <2>2
<1>2. CASE WriteLocally
  <2>1. CASE feed = "open"
    <3>1. changes' = changes + 1 /\ feed' = feed
      BY <1>2, <2>1 DEF WriteLocally, SetOwner
    <3>2. QED
      BY <2>1, <3>1
  <2>2. CASE feed # "open"
    <3>1. last_hash = handler.clip /\ changes = 0 /\ watcher = Waiting
      BY <1>2, <2>2 DEF WriteLocally
    <3>2. selection' = handler.clip /\ changes' = changes /\ handler'.at = "relaying"
      BY <1>2, <2>2 DEF WriteLocally, SetOwner
    <3>3. UNCHANGED <<startVars, watcher, last_hash>>
      BY <1>2, Zenon DEF WriteLocally
    <3>4. QED
      BY <2>2, <3>1, <3>2, <3>3
  <2>3. QED
    BY <2>1, <2>2
<1>3. CASE WriteNowhere \/ WriteFails
  BY <1>3 DEF WriteNowhere, WriteFails
<1>4. CASE WatchTakes \/ WatchReadFails
  BY <1>4 DEF WatchTakes, WatchReadFails
<1>5. CASE WatchReads
  BY <1>5 DEF WatchReads, ClipAccepts
<1>6. CASE WatchHashes
  BY <1>6 DEF WatchHashes, ShouldBroadcast
<1>7. CASE WatchSends \/ Relay
  BY <1>7 DEF WatchSends, Relay
<1>8. ASSUME NEW p \in Phones, Receive(p) PROVE SharedInv'
  BY <1>8 DEF Receive, ShouldBroadcast
<1>9. CASE \E x : Probe(x) \/ Subscribe(x)
  BY <1>9 DEF Probe, Subscribe
<1>10. CASE UNCHANGED <<startVars, selection, daemonVars, behind>>
  BY <1>10
<1>11. QED
  BY <1>1, <1>2, <1>3, <1>4, <1>5, <1>6, <1>7, <1>8, <1>9, <1>10, Zenon DEF Next, vars,
     PhoneSends, PhoneApplies, Join, Leave, Unpair

\* Once nothing is under way, and unless the daemon is behind -- it was not told of a copy,
\* a read or a write failed, or a clip came before there was a backend, and it has neither
\* read nor written since --, GNOME's clipboard is what went out last, in whatever order
\* the start, copies, received clips and reads have met.
THEOREM SharedCorrect == Spec => []SelectionIsShared
<1>1. Init => SharedInv
  BY DEF Init, SharedInv, Waiting, Idle
<1>2. SharedInv => SelectionIsShared
  BY DEF SharedInv, SelectionIsShared, Quiet, Receiving, Waiting
<1>3. QED
  BY <1>1, <1>2, SharedStep, TypeCorrect, PTL DEF Spec
-----------------------------------------------------------------------------
(* The phones at the end. *)

\* A phone's latest clip is the one just queued for it.
LEMMA LatestSent ==
    ASSUME TypeOK, NEW ps, NEW c \in Texts, SendTo(ps, c), UNCHANGED holds, NEW p \in Phones
    PROVE  /\ p \in ps => Latest(p)' = c
           /\ p \notin ps => down'[p] = down[p] /\ Latest(p)' = Latest(p)
<1>1. CASE p \in ps
  <2>1. down'[p] = Append(down[p], c) /\ down[p] \in Seq(Texts)
    BY <1>1 DEF SendTo, TypeOK
  <2>2. down'[p] # <<>> /\ down'[p][Len(down'[p])] = c
    BY <2>1
  <2>3. QED
    BY <1>1, <2>2 DEF Latest
<1>2. CASE p \notin ps
  BY <1>2 DEF SendTo, Latest, TypeOK
<1>3. QED
  BY <1>1, <1>2

\* Taking the first clip of a queue leaves the last one, or was the last one.
LEMMA LastKept ==
    ASSUME NEW q \in Seq(Texts), q # <<>>
    PROVE  /\ Tail(q) = <<>> => Head(q) = q[Len(q)]
           /\ Tail(q) # <<>> => Tail(q)[Len(Tail(q))] = q[Len(q)]
<1>1. Len(q) \in Nat \ {0}
  BY EmptySeq
<1>2. /\ Tail(q) \in Seq(Texts) /\ Len(Tail(q)) = Len(q) - 1
      /\ \A i \in 1..Len(Tail(q)) : Tail(q)[i] = q[i + 1]
  BY HeadTailProperties
<1>3. CASE Len(q) = 1
  <2>1. Tail(q) = <<>>
    <3>1. Tail(q) \in Seq(Texts) /\ Len(Tail(q)) = 0
      BY <1>2, <1>3
    <3>2. QED
      BY <3>1, EmptySeq
  <2>2. QED
    BY <1>3, <2>1
<1>4. CASE Len(q) > 1
  <2>1. Len(Tail(q)) \in 1..Len(Tail(q)) /\ Len(Tail(q)) + 1 = Len(q)
    BY <1>1, <1>2, <1>4
  <2>2. Tail(q)[Len(Tail(q))] = q[Len(q)]
    BY <1>2, <2>1
  <2>3. Tail(q) # <<>>
    BY <1>2, <1>4, EmptySeq
  <2>4. QED
    BY <2>2, <2>3
<1>5. QED
  BY <1>1, <1>3, <1>4

\* Applying a clip does not change which one a phone will have in the end.
LEMMA LatestApplied ==
    ASSUME TypeOK, NEW p \in Phones, PhoneApplies(p), NEW q \in Phones
    PROVE  Latest(q)' = Latest(q)
<1>1. CASE q # p
  BY <1>1 DEF PhoneApplies, Latest, TypeOK
<1>2. CASE q = p
  <2>1. /\ down[p] \in Seq(Texts) /\ down[p] # <<>>
        /\ down'[p] = Tail(down[p]) /\ holds'[p] = Head(down[p])
    BY DEF PhoneApplies, TypeOK
  <2>2. QED
    BY <1>2, <2>1, LastKept DEF Latest
<1>3. QED
  BY <1>1, <1>2

\* No fan-out begins before the one before it has reached every queue.
LEMMA AgreeStep == TypeOK /\ AgreeInv /\ [Next]_vars => AgreeInv'
<1> SUFFICES ASSUME TypeOK, AgreeInv, [Next]_vars, ~crossed'
             PROVE  (ReceivedAlone /\ FanOutAlone /\ LatestKnown)'
  BY DEF AgreeInv
<1> DEFINE Agree == FanOutAlone /\ LatestKnown
<1>1. ReceivedAlone /\ Agree
  BY CrossedStays DEF AgreeInv
<1>2. ReceivedAlone'
  BY <1>1, AloneStep
<1> USE DEF TypeOK, FanOutAlone, LatestKnown, Receiving, Waiting, Idle, daemonVars, peerVars,
        linkVars, userVars
<1>3. ASSUME NEW c \in Texts \cup {Odd}, Copy(c) PROVE Agree'
  <2>1. ~Receiving
    BY <1>3, Zenon DEF Copy
  <2>2. QED
    BY <1>1, <1>3, <2>1 DEF Copy, Latest
<1>4. ASSUME NEW p \in Phones, NEW c \in Texts, PhoneSends(p, c) PROVE Agree'
  <2>1. Quiet
    BY <1>4, Zenon DEF PhoneSends
  <2>2. \A q \in Phones \ {p} : up'[q] = <<>>
    BY <1>4, <2>1 DEF PhoneSends, Quiet
  <2>3. Head(up'[p]) = c /\ up'[p] # <<>>
    <3>1. up'[p] = Append(up[p], c) /\ up[p] \in Seq(Texts) /\ up[p] = <<>>
      BY <1>4, <2>1 DEF PhoneSends, Quiet
    <3>2. Len(up[p]) = 0
      BY <3>1, EmptySeq
    <3>3. QED
      BY <3>1, <3>2
  <2>4. QED
    BY <1>1, <1>4, <2>1, <2>2, <2>3 DEF PhoneSends, Quiet, Latest
<1>5. ASSUME NEW p \in Phones, PhoneApplies(p) PROVE Agree'
  <2>1. ~Receiving
    BY <1>1, <1>5 DEF PhoneApplies
  <2>2. \A q \in Phones : Latest(q)' = Latest(q)
    BY <1>5, LatestApplied
  <2>3. FanOutAlone'
    BY <1>1, <1>5, <2>1 DEF PhoneApplies
  <2>4. QED
    BY <1>1, <1>5, <2>1, <2>2, <2>3 DEF PhoneApplies
<1>6. ASSUME WatchTakes \/ WatchReads \/ WatchReadFails PROVE Agree'
  BY <1>1, <1>6 DEF WatchTakes, WatchReads, WatchReadFails, ClipAccepts, Latest, ReceivedAlone
<1>7. ASSUME WatchHashes PROVE Agree'
  BY <1>1, <1>7 DEF WatchHashes, ShouldBroadcast, Latest, ReceivedAlone
<1>8. ASSUME WatchSends PROVE Agree'
  <2>1. ~Receiving /\ watcher.clip = last_hash /\ watcher.clip \in Texts
    BY <1>1, <1>8 DEF WatchSends
  <2>2. \A q \in connected : Latest(q)' = last_hash
    BY <1>8, <2>1, LatestSent DEF WatchSends
  <2>3. FanOutAlone'
    BY <1>1, <1>8, <2>1, LatestSent DEF WatchSends
  <2>4. UNCHANGED <<last_hash, peerVars>>
    BY <1>8 DEF WatchSends
  <2>5. LatestKnown'
    BY <2>2, <2>4
  <2>6. QED
    BY <2>3, <2>5, Zenon
<1>9. ASSUME NEW p \in Phones, Receive(p) PROVE Agree'
  <2>1. /\ up[p] # <<>> /\ holds[p] = Head(up[p]) /\ watcher = Waiting /\ changes = 0
        /\ \A q \in Phones : down[q] = <<>>
    BY <1>1, <1>9 DEF Receive, ReceivedAlone
  <2>2. \A q \in Phones : up'[q] = <<>>
    <3>1. up[p] \in Seq(Texts) /\ Len(up[p]) = 1 /\ \A q \in Phones \ {p} : up[q] = <<>>
      BY <1>1, <2>1 DEF ReceivedAlone
    <3>2. Tail(up[p]) \in Seq(Texts) /\ Len(Tail(up[p])) = 0
      BY <2>1, <3>1, HeadTailProperties
    <3>3. Tail(up[p]) = <<>>
      BY <3>2, EmptySeq
    <3>4. QED
      BY <1>9, <3>1, <3>3 DEF Receive
  <2>3. Head(up[p]) \in Texts
    BY <2>1, QueueTypes
  <2>4. QED
    BY <1>1, <1>9, <2>1, <2>2, <2>3 DEF Receive, ShouldBroadcast, Latest
<1>10. ASSUME WriteLocally PROVE Agree'
  <2>1. changes = 0 /\ watcher = Waiting /\ last_hash = handler.clip
    BY <1>1, <1>10 DEF WriteLocally, ReceivedAlone
  <2>2. selection' = handler.clip \/ changes' = changes
    BY <1>10, Zenon DEF WriteLocally, SetOwner
  <2>3. /\ handler' = [handler EXCEPT !.at = "relaying"] /\ handler.at = "writing"
        /\ UNCHANGED <<watcher, last_hash, peerVars, linkVars>>
    BY <1>10, Zenon DEF WriteLocally
  <2>4. FanOutAlone'
    BY <1>1, <2>1, <2>2, <2>3
  <2>5. LatestKnown'
    BY <2>3
  <2>6. QED
    BY <2>4, <2>5, Zenon
<1>11. ASSUME WriteNowhere \/ WriteFails PROVE Agree'
  BY <1>1, <1>11 DEF WriteNowhere, WriteFails, Latest, ReceivedAlone
<1>12. ASSUME Relay PROVE Agree'
  <2>1. /\ \A q \in Phones : up[q] = <<>> /\ down[q] = <<>>
        /\ last_hash = handler.clip /\ holds[handler.from] = handler.clip
        /\ handler.clip \in Texts /\ handler.from \in Phones /\ watcher.at # "sending"
    BY <1>1, <1>12 DEF Relay, ReceivedAlone
  <2>2. \A q \in connected : Latest(q)' = last_hash
    BY <1>12, <2>1, LatestSent DEF Relay, Latest
  <2>3. FanOutAlone'
    BY <1>1, <1>12, <2>1, LatestSent DEF Relay
  <2>4. UNCHANGED <<last_hash, peerVars>>
    BY <1>12 DEF Relay
  <2>5. LatestKnown'
    BY <2>2, <2>4
  <2>6. QED
    BY <2>3, <2>5, Zenon
<1>13. ASSUME NEW p \in Phones, Join(p) \/ Leave(p) \/ Unpair(p) PROVE Agree'
  <2>1. CASE Join(p)
    BY <1>1, <2>1 DEF Join, Latest
  <2>2. CASE Leave(p)
    BY <1>1, <2>2 DEF Leave, Latest
  <2>3. CASE Unpair(p)
    BY <1>1, <2>3 DEF Unpair, Latest
  <2>4. QED
    BY <1>13, <2>1, <2>2, <2>3
<1>14. ASSUME UNCHANGED vars PROVE Agree'
  <2>1. UNCHANGED <<selection, changes, watcher, handler, last_hash, peerVars, linkVars>>
    BY <1>14, Zenon DEF vars
  <2>2. QED
    BY <1>1, <2>1 DEF Latest
<1>15. ASSUME NEW x, Probe(x) \/ Subscribe(x) PROVE Agree'
  <2>1. UNCHANGED <<selection, changes, watcher, handler, last_hash, peerVars, linkVars>>
    BY <1>15, Zenon DEF Probe, Subscribe, daemonVars
  <2>2. QED
    BY <1>1, <2>1 DEF Latest
<1>16. Agree'
  BY <1>3, <1>4, <1>5, <1>6, <1>7, <1>8, <1>9, <1>10, <1>11, <1>12, <1>13, <1>14, <1>15 DEF Next
<1>17. QED
  BY <1>2, <1>16

\* Unless clips cross, once nothing is under way every paired phone that has exchanged
\* anything on its connection has the clip the daemon dealt with last.
THEOREM AgreeCorrect == Spec => []PhonesAgree
<1>1. Init => AgreeInv
  BY DEF Init, AgreeInv, ReceivedAlone, FanOutAlone, LatestKnown, Latest, Receiving, Waiting,
     Idle
<1>2. TypeOK /\ AgreeInv => PhonesAgree
  <2> SUFFICES ASSUME TypeOK, AgreeInv, Quiet, ~crossed, NEW p \in connected \cap paired
               PROVE  holds[p] \in {None, last_hash}
    BY DEF PhonesAgree
  <2>1. p \in Phones /\ down[p] = <<>> /\ up[p] = <<>>
    BY DEF TypeOK, Quiet, Receiving
  <2>2. watcher.at = "waiting" /\ handler.at = "idle"
    BY DEF Quiet, Receiving, Waiting
  <2>3. QED
    BY <2>1, <2>2 DEF AgreeInv, LatestKnown, Latest
<1>3. QED
  BY <1>1, <1>2, AgreeStep, TypeCorrect, PTL DEF Spec
=============================================================================
