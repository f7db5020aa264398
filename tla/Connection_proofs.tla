------------------------- MODULE Connection_proofs -------------------------
(* Theorems about Connection, for any keepalive interval, delay and bounds. *)
EXTENDS Connection, TLAPS

USE TimeAssumption, ClipAssumption DEF None

-----------------------------------------------------------------------------
(* The invariants the theorems rest on.                                      *)

\* What a channel q holds: no message of a kind; exactly one, with a nonce and at least
\* an age; or the handshake first and no other one behind it.
Free(q, kind) == \A i \in 1..Len(q) : q[i].kind # kind
One(q, kind, n, age) ==
    \E k \in 1..Len(q) :
        /\ q[k].kind = kind /\ q[k].nonce = n /\ q[k].age >= age
        /\ \A i \in 1..Len(q) : i # k => q[i].kind # kind
Opens(q) ==
    /\ q # <<>> /\ q[1].kind = "handshake"
    /\ \A i \in 1..Len(q) : i # 1 => q[i].kind # "handshake"

\* A drive task runs from its start to its end, and then reads nothing more; a side is
\* Ready only once the other has started; nothing is measured before it is Ready.
Life(s) ==
    /\ open[s] <=> phase[s] # "unborn" /\ ~Ended(s)
    /\ Ended(s) => phase[s] # "unborn" /\ chan[s] = <<>>
    /\ phase[s] = "ready" => phase[Peer(s)] # "unborn"
    /\ phase[s] # "ready" => pending[s] = None /\ since[s] = None
LifeInv == \A s \in Sides : Life(s)

\* Each side's handshake goes before everything else it sends, and is read once.
Greet(s) ==
    /\ phase[Peer(s)] = "unborn" => chan[s] = <<>>
    /\ phase[Peer(s)] # "unborn" /\ phase[s] # "ready" /\ ~Ended(s) => Opens(chan[s])
    /\ phase[s] = "ready" => Free(chan[s], "handshake")
GreetInv == \A s \in Sides : Greet(s)

\* Nothing is older than the channel lets it get.
Young(q) == \A i \in 1..Len(q) : q[i].age <= Delay
AgeInv == \A s \in Sides : Young(chan[s])

\* The pending ping is on its way there, or its pong on its way back, or the peer has
\* ended; and nothing else is.  While the link has always been up, the ping is as old as
\* it has been pending, and the pong no more than one Delay younger.
AtLeast(n) == IF link = "up" THEN n ELSE 0
Nothing(s) == Free(chan[Peer(s)], "ping") /\ Free(chan[s], "pong")
PingOut(s) ==
    /\ One(chan[Peer(s)], "ping", nonce[s], AtLeast(pending[s]))
    /\ Free(chan[s], "pong")
PongBack(s) ==
    /\ Free(chan[Peer(s)], "ping")
    /\ One(chan[s], "pong", nonce[s], AtLeast(pending[s] - Delay))
RoundTrip(s) ==
    IF pending[s] = None THEN Nothing(s)
    ELSE PingOut(s) \/ PongBack(s) \/ (Ended(Peer(s)) /\ Nothing(s))
RoundTripInv == \A s \in Sides : ~Ended(s) => RoundTrip(s)

\* How long the link has been dark when a Ready side has no ping out, or one that has
\* been pending for some time.
Dark(s) ==
    IF pending[s] # None
    THEN /\ pending[s] <= 3 * K /\ (ticked[s] => pending[s] < 3 * K)
         /\ dark <= pending[s] + K + 1
    ELSE IF since[s] # None
    THEN /\ dark <= since[s] + 1 /\ dark <= K + 1
         /\ ticked[s] /\ dark > 0 => since[s] < K
    ELSE dark <= 1 /\ (ticked[s] => dark = 0)
DarkInv ==
    /\ link # "down" => dark = 0
    /\ \A s \in Sides : open[s] /\ phase[s] = "ready" => Dark(s)

-----------------------------------------------------------------------------
(* Sides and channels.                                                       *)

\* There are two sides.
LEMMA TwoSides ==
    ASSUME NEW s \in Sides
    PROVE  /\ Peer(s) \in Sides /\ Peer(s) # s /\ Peer(Peer(s)) = s
           /\ \A t \in Sides : t = s \/ t = Peer(s)
  BY DEF Sides, Peer

\* A message of a kind and a nonce is one.
LEMMA MessageTyped ==
    ASSUME NEW kind \in Kinds, NEW n \in 0..1
    PROVE  /\ Message(kind, n) \in Messages /\ Message(kind, n).kind = kind
           /\ Message(kind, n).nonce = n /\ Message(kind, n).age = 0
  BY DEF Message, Messages

\* Positions after a message was sent.
LEMMA SentAt ==
    ASSUME NEW q \in Seq(Messages), NEW m \in Messages
    PROVE  /\ Append(q, m) \in Seq(Messages) /\ Len(Append(q, m)) = Len(q) + 1
           /\ Len(q) \in Nat /\ Append(q, m)[Len(q) + 1] = m
           /\ \A i \in 1..Len(q) : Append(q, m)[i] = q[i]
  OBVIOUS

\* Positions after one was read.
LEMMA TakenAt ==
    ASSUME NEW q \in Seq(Messages), q # <<>>
    PROVE  /\ Tail(q) \in Seq(Messages) /\ Len(Tail(q)) = Len(q) - 1
           /\ Len(q) \in Nat /\ 1 \in 1..Len(q) /\ Head(q) = q[1] /\ Head(q) \in Messages
           /\ \A i \in 1..Len(Tail(q)) : i + 1 \in 1..Len(q) /\ Tail(q)[i] = q[i + 1]
  OBVIOUS

\* Sending a message of another kind changes nothing of a kind.
LEMMA OtherSent ==
    ASSUME NEW q \in Seq(Messages), NEW m \in Messages, NEW kind, m.kind # kind
    PROVE  /\ Free(q, kind) => Free(Append(q, m), kind)
           /\ \A n, age : One(q, kind, n, age) => One(Append(q, m), kind, n, age)
<1>1. ASSUME NEW i \in 1..Len(Append(q, m)), i \notin 1..Len(q)
      PROVE  Append(q, m)[i].kind # kind
  BY <1>1, SentAt
<1>2. Free(q, kind) => Free(Append(q, m), kind)
  <2> SUFFICES ASSUME Free(q, kind), NEW i \in 1..Len(Append(q, m))
               PROVE  Append(q, m)[i].kind # kind
    BY DEF Free
  <2>1. CASE i \in 1..Len(q)
    BY <2>1, SentAt DEF Free
  <2>2. QED
    BY <1>1, <2>1
<1>3. ASSUME NEW n, NEW age, One(q, kind, n, age) PROVE One(Append(q, m), kind, n, age)
  <2>1. PICK k \in 1..Len(q) :
           /\ q[k].kind = kind /\ q[k].nonce = n /\ q[k].age >= age
           /\ \A i \in 1..Len(q) : i # k => q[i].kind # kind
    BY <1>3 DEF One
  <2>2. k \in 1..Len(Append(q, m)) /\ Append(q, m)[k] = q[k]
    BY SentAt
  <2>3. ASSUME NEW i \in 1..Len(Append(q, m)), i # k PROVE Append(q, m)[i].kind # kind
    <3>1. CASE i \in 1..Len(q)
      BY <2>1, <2>3, <3>1, SentAt
    <3>2. QED
      BY <1>1, <3>1
  <2>4. QED
    BY <2>1, <2>2, <2>3 DEF One
<1>4. QED
  BY <1>2, <1>3

\* Sending the first of a kind makes it the only one.
LEMMA FirstSent ==
    ASSUME NEW q \in Seq(Messages), NEW m \in Messages, Free(q, m.kind), NEW age, m.age >= age
    PROVE  One(Append(q, m), m.kind, m.nonce, age)
<1>1. Len(q) + 1 \in 1..Len(Append(q, m)) /\ Append(q, m)[Len(q) + 1] = m
  BY SentAt
<1>2. ASSUME NEW i \in 1..Len(Append(q, m)), i # Len(q) + 1
      PROVE  Append(q, m)[i].kind # m.kind
  BY <1>2, SentAt DEF Free
<1>3. QED
  BY <1>1, <1>2 DEF One

\* What follows a handshake leaves it first.
LEMMA OpensStays ==
    ASSUME NEW q \in Seq(Messages), NEW m \in Messages, m.kind # "handshake", Opens(q)
    PROVE  Opens(Append(q, m))
<1>1. 1 \in 1..Len(q) /\ Len(q) \in Nat
  BY DEF Opens
<1>2. Append(q, m) # <<>> /\ Append(q, m)[1].kind = "handshake"
  BY <1>1, SentAt DEF Opens
<1>3. ASSUME NEW i \in 1..Len(Append(q, m)), i # 1 PROVE Append(q, m)[i].kind # "handshake"
  <2>1. CASE i \in 1..Len(q)
    BY <1>3, <2>1, SentAt DEF Opens
  <2>2. CASE i = Len(q) + 1
    BY <2>2, SentAt
  <2>3. QED
    BY <1>1, <2>1, <2>2, SentAt
<1>4. QED
  BY <1>2, <1>3 DEF Opens

\* Reading a message: none of a kind stay none, one stays unless it is the one read, and
\* then none are left.
LEMMA Taking ==
    ASSUME NEW q \in Seq(Messages), q # <<>>, NEW kind
    PROVE  /\ Free(q, kind) => Free(Tail(q), kind) /\ Head(q).kind # kind
           /\ \A n, age : One(q, kind, n, age) =>
                 IF Head(q).kind = kind
                 THEN Free(Tail(q), kind) /\ Head(q).nonce = n /\ Head(q).age >= age
                 ELSE One(Tail(q), kind, n, age)
           /\ Opens(q) => Free(Tail(q), "handshake") /\ Head(q).kind = "handshake"
<1>1. Free(q, kind) => Free(Tail(q), kind) /\ Head(q).kind # kind
  BY TakenAt DEF Free
<1>2. ASSUME NEW n, NEW age, One(q, kind, n, age)
      PROVE  IF Head(q).kind = kind
             THEN Free(Tail(q), kind) /\ Head(q).nonce = n /\ Head(q).age >= age
             ELSE One(Tail(q), kind, n, age)
  <2>1. PICK k \in 1..Len(q) :
           /\ q[k].kind = kind /\ q[k].nonce = n /\ q[k].age >= age
           /\ \A i \in 1..Len(q) : i # k => q[i].kind # kind
    BY <1>2 DEF One
  <2>2. CASE k = 1
    <3>1. Head(q) = q[k]
      BY <2>2, TakenAt
    <3>2. Free(Tail(q), kind)
      <4>1. ASSUME NEW i \in 1..Len(Tail(q)) PROVE Tail(q)[i].kind # kind
        BY <2>1, <2>2, TakenAt
      <4>2. QED
        BY <4>1 DEF Free
    <3>3. QED
      BY <2>1, <3>1, <3>2
  <2>3. CASE k # 1
    <3>1. Head(q).kind # kind
      BY <2>1, <2>3, TakenAt
    <3>2. k - 1 \in 1..Len(Tail(q)) /\ Tail(q)[k - 1] = q[k]
      BY <2>3, TakenAt
    <3>3. ASSUME NEW i \in 1..Len(Tail(q)), i # k - 1 PROVE Tail(q)[i].kind # kind
      <4>1. i + 1 \in 1..Len(q) /\ i + 1 # k /\ Tail(q)[i] = q[i + 1]
        BY <3>3, TakenAt
      <4>2. QED
        BY <2>1, <4>1
    <3>4. QED
      BY <2>1, <3>1, <3>2, <3>3 DEF One
  <2>4. QED
    BY <2>2, <2>3
<1>3. Opens(q) => Free(Tail(q), "handshake") /\ Head(q).kind = "handshake"
  <2> SUFFICES ASSUME Opens(q) PROVE Free(Tail(q), "handshake") /\ Head(q).kind = "handshake"
    OBVIOUS
  <2>1. ASSUME NEW i \in 1..Len(Tail(q)) PROVE Tail(q)[i].kind # "handshake"
    <3>1. i + 1 \in 1..Len(q) /\ i + 1 # 1 /\ Tail(q)[i] = q[i + 1]
      BY TakenAt
    <3>2. QED
      BY <3>1 DEF Opens
  <2>2. QED
    BY <2>1, TakenAt DEF Opens, Free
<1>4. QED
  BY <1>1, <1>2, <1>3

\* An empty channel holds nothing.
LEMMA EmptyFree == \A kind : Free(<<>>, kind)
  BY DEF Free

\* A channel a period later.
Aged(q) == [i \in 1..Len(q) |-> IF q[i].age < Delay THEN [q[i] EXCEPT !.age = @ + 1] ELSE q[i]]

LEMMA Ageing ==
    ASSUME NEW q \in Seq(Messages)
    PROVE  /\ Aged(q) \in Seq(Messages) /\ Len(Aged(q)) = Len(q)
           /\ \A i \in 1..Len(q) :
                 /\ q[i] \in Messages /\ q[i].age \in Nat
                 /\ Aged(q)[i].kind = q[i].kind /\ Aged(q)[i].nonce = q[i].nonce
                 /\ Aged(q)[i].age = IF q[i].age < Delay THEN q[i].age + 1 ELSE q[i].age
<1>1. ASSUME NEW i \in 1..Len(q)
      PROVE  /\ q[i] \in Messages /\ q[i].age \in Nat
             /\ Aged(q)[i] \in Messages
             /\ Aged(q)[i].kind = q[i].kind /\ Aged(q)[i].nonce = q[i].nonce
             /\ Aged(q)[i].age = IF q[i].age < Delay THEN q[i].age + 1 ELSE q[i].age
  <2>1. q[i] \in Messages
    OBVIOUS
  <2>2. Aged(q)[i] = IF q[i].age < Delay THEN [q[i] EXCEPT !.age = @ + 1] ELSE q[i]
    BY DEF Aged
  <2>3. QED
    BY <2>1, <2>2 DEF Messages
<1>2. Aged(q) \in Seq(Messages) /\ Len(Aged(q)) = Len(q)
  BY <1>1 DEF Aged
<1>3. QED
  BY <1>1, <1>2

\* Ageing leaves kinds and nonces alone, and makes nothing younger.
LEMMA AgeingKeeps ==
    ASSUME NEW q \in Seq(Messages)
    PROVE  /\ \A kind : Free(q, kind) => Free(Aged(q), kind)
           /\ \A kind, n : \A age \in Int : One(q, kind, n, age) =>
                 /\ One(Aged(q), kind, n, age)
                 /\ (\A i \in 1..Len(q) : q[i].age < Delay) => One(Aged(q), kind, n, age + 1)
           /\ Opens(q) => Opens(Aged(q))
           /\ q = <<>> => Aged(q) = <<>>
<1>1. \A kind : Free(q, kind) => Free(Aged(q), kind)
  BY Ageing DEF Free
<1>2. ASSUME NEW kind, NEW n, NEW age \in Int, One(q, kind, n, age)
      PROVE  /\ One(Aged(q), kind, n, age)
             /\ (\A i \in 1..Len(q) : q[i].age < Delay) => One(Aged(q), kind, n, age + 1)
  <2>1. PICK k \in 1..Len(q) :
           /\ q[k].kind = kind /\ q[k].nonce = n /\ q[k].age >= age
           /\ \A i \in 1..Len(q) : i # k => q[i].kind # kind
    BY <1>2 DEF One
  <2>2. /\ k \in 1..Len(Aged(q)) /\ Aged(q)[k].kind = kind /\ Aged(q)[k].nonce = n
        /\ \A i \in 1..Len(Aged(q)) : i # k => Aged(q)[i].kind # kind
    BY <2>1, Ageing
  <2>3. Aged(q)[k].age >= age /\ (q[k].age < Delay => Aged(q)[k].age >= age + 1)
    BY <2>1, Ageing
  <2>4. QED
    BY <2>2, <2>3 DEF One
<1>3. Opens(q) => Opens(Aged(q))
  <2> SUFFICES ASSUME Opens(q) PROVE Opens(Aged(q))
    OBVIOUS
  <2>1. 1 \in 1..Len(q)
    BY DEF Opens
  <2>2. Aged(q) # <<>>
    BY <2>1, Ageing
  <2>3. QED
    BY <2>1, <2>2, Ageing DEF Opens
<1>4. ASSUME q = <<>> PROVE Aged(q) = <<>>
  <2>1. Aged(q) \in Seq(Messages) /\ Len(Aged(q)) = 0
    BY <1>4, Ageing
  <2>2. QED
    BY <2>1
<1>5. QED
  BY <1>1, <1>2, <1>3, <1>4

-----------------------------------------------------------------------------
(* What the actions do to the two channels.                                  *)

\* The initial states.
LEMMA InitAll ==
    Init => TypeOK /\ LifeInv /\ GreetInv /\ AgeInv /\ RoundTripInv /\ DarkInv
<1> SUFFICES ASSUME Init PROVE TypeOK /\ LifeInv /\ GreetInv /\ AgeInv /\ RoundTripInv /\ DarkInv
  OBVIOUS
<1> USE DEF Init
<1>1. TypeOK
  BY DEF TypeOK, Reasons
<1>2. \A s \in Sides : Peer(s) \in Sides
  BY TwoSides
<1>3. LifeInv /\ GreetInv /\ AgeInv
  BY <1>2 DEF LifeInv, Life, GreetInv, Greet, AgeInv, Young, Ended
<1>4. RoundTripInv /\ DarkInv
  BY <1>2, EmptyFree DEF RoundTripInv, RoundTrip, Nothing, DarkInv
<1>5. QED
  BY <1>1, <1>3, <1>4

\* A message is appended to the peer's channel unless the peer has ended.
LEMMA Sending ==
    ASSUME TypeOK, NEW s \in Sides, NEW kind \in Kinds, NEW n \in 0..1, Sent(s, kind, n)
    PROVE  /\ chan' \in [Sides -> Seq(Messages)] /\ chan'[s] = chan[s]
           /\ chan'[Peer(s)] = IF Ended(Peer(s)) THEN chan[Peer(s)]
                               ELSE Append(chan[Peer(s)], Message(kind, n))
<1>1. Message(kind, n) \in Messages
  BY MessageTyped
<1>2. Append(chan[Peer(s)], Message(kind, n)) \in Seq(Messages)
  BY <1>1, TwoSides, SentAt DEF TypeOK
<1>3. QED
  BY <1>2, TwoSides DEF Sent, TypeOK

\* A message is taken from the reader's channel only.
LEMMA Reading ==
    ASSUME TypeOK, NEW s \in Sides, chan[s] # <<>>, Take(s)
    PROVE  /\ chan' \in [Sides -> Seq(Messages)]
           /\ chan'[s] = Tail(chan[s]) /\ chan'[Peer(s)] = chan[Peer(s)]
<1>1. Tail(chan[s]) \in Seq(Messages)
  BY TakenAt DEF TypeOK
<1>2. QED
  BY <1>1, TwoSides DEF Take, TypeOK

\* The end of a task empties what it would have read.
LEMMA Ending ==
    ASSUME TypeOK, NEW s \in Sides, NEW why \in Reasons \ {"none"}, Ends(s, why)
    PROVE  /\ chan' \in [Sides -> Seq(Messages)] /\ open' \in [Sides -> BOOLEAN]
           /\ reason' \in [Sides -> Reasons]
           /\ chan'[s] = <<>> /\ chan'[Peer(s)] = chan[Peer(s)]
           /\ ~open'[s] /\ open'[Peer(s)] = open[Peer(s)]
           /\ reason'[s] = why /\ reason'[Peer(s)] = reason[Peer(s)]
<1>1. <<>> \in Seq(Messages)
  OBVIOUS
<1>2. QED
  BY <1>1, TwoSides DEF Ends, TypeOK

\* A ping is taken, and echoed by a Ready side to a peer that has not ended.
LEMMA Echoing ==
    ASSUME TypeOK, NEW s \in Sides, OnPing(s)
    PROVE  /\ chan' \in [Sides -> Seq(Messages)] /\ chan'[s] = Tail(chan[s])
           /\ Head(chan[s]) \in Messages
           /\ chan'[Peer(s)] = IF phase[s] = "ready" /\ ~Ended(Peer(s))
                               THEN Append(chan[Peer(s)], Message("pong", Head(chan[s]).nonce))
                               ELSE chan[Peer(s)]
<1>1. chan[s] \in Seq(Messages) /\ chan[s] # <<>> /\ chan[Peer(s)] \in Seq(Messages)
  BY TwoSides DEF TypeOK, OnPing, Reads
<1>2. Tail(chan[s]) \in Seq(Messages) /\ Head(chan[s]) \in Messages
  BY <1>1, TakenAt
<1>3. Message("pong", Head(chan[s]).nonce) \in Messages
  BY <1>2, MessageTyped DEF Messages, Kinds
<1>4. Append(chan[Peer(s)], Message("pong", Head(chan[s]).nonce)) \in Seq(Messages)
  BY <1>1, <1>3, SentAt
<1>5. CASE phase[s] = "ready" /\ ~Ended(Peer(s))
  <2> DEFINE m == Message("pong", Head(chan[s]).nonce)
  <2>1. chan' = [chan EXCEPT ![s] = Tail(@), ![Peer(s)] = Append(@, m)]
    BY <1>5 DEF OnPing
  <2>2. chan'[s] = Tail(chan[s]) /\ chan'[Peer(s)] = Append(chan[Peer(s)], m)
    BY <2>1, TwoSides DEF TypeOK
  <2>3. chan' \in [Sides -> Seq(Messages)]
    <3>1. \A t \in Sides : chan'[t] \in Seq(Messages)
      BY <1>2, <1>4, <2>2, TwoSides
    <3>2. QED
      BY <2>1, <3>1 DEF TypeOK
  <2>4. QED
    BY <1>2, <1>5, <2>2, <2>3
<1>6. CASE ~(phase[s] = "ready" /\ ~Ended(Peer(s)))
  <2>1. Take(s)
    BY <1>6 DEF OnPing
  <2>2. QED
    BY <1>1, <1>2, <1>6, <2>1, Reading
<1>7. QED
  BY <1>5, <1>6

\* A fresh nonce is one, and not the last one.
LEMMA FreshNonces ==
    ASSUME TypeOK, NEW s \in Sides
    PROVE  FreshNonce(s) \in 0..1 /\ FreshNonce(s) # nonce[s]
<1>1. nonce[s] \in 0..1
  BY DEF TypeOK
<1>2. QED
  BY <1>1 DEF FreshNonce

\* A period ages every message.
LEMMA Passing ==
    ASSUME TypeOK, Clock
    PROVE  /\ chan' \in [Sides -> Seq(Messages)]
           /\ \A s \in Sides : chan'[s] = Aged(chan[s])
<1>1. chan' = [s \in Sides |-> Aged(chan[s])]
  BY DEF Clock, Aged
<1>2. \A s \in Sides : Aged(chan[s]) \in Seq(Messages)
  BY Ageing DEF TypeOK
<1>3. QED
  BY <1>1, <1>2

\* The actions that end a task, and what else they do.
EndsHere(s) == OnMismatch(s) \/ Lost(s) \/ (OnTick(s) /\ TimesOut(s))
LEMMA EndingSteps ==
    ASSUME TypeOK, NEW s \in Sides, EndsHere(s)
    PROVE  /\ \E why \in Reasons \ {"none"} : Ends(s, why)
           /\ UNCHANGED <<link, dark, agree, phase, since, nonce, commands>>
           /\ open[s]
           /\ pending' \in [Sides -> Nat \cup {None}] /\ ticked' \in [Sides -> BOOLEAN]
           /\ pending'[Peer(s)] = pending[Peer(s)] /\ ticked'[Peer(s)] = ticked[Peer(s)]
           /\ pending'[s] \in {pending[s], None}
<1> USE DEF clockVars
<1>1. CASE OnMismatch(s) \/ Lost(s)
  <2>1. \E why \in {"mismatch", "lost", "framing"} : Ends(s, why)
    BY <1>1 DEF OnMismatch, Lost
  <2>2. QED
    BY <1>1, <2>1 DEF OnMismatch, Lost, Reads, Reasons, TypeOK
<1>2. CASE OnTick(s) /\ TimesOut(s)
  <2>1. Ends(s, "timeout") /\ "timeout" \in Reasons \ {"none"}
    BY <1>2 DEF TimesOut, Reasons
  <2>2. /\ ticked' = [ticked EXCEPT ![s] = TRUE] /\ pending' = [pending EXCEPT ![s] = None]
        /\ open[s] /\ UNCHANGED <<link, dark, agree, phase, since, nonce, commands>>
    BY <1>2 DEF OnTick, TimesOut
  <2>3. QED
    BY <2>1, <2>2, TwoSides DEF TypeOK
<1>3. QED
  BY <1>1, <1>2 DEF EndsHere

\* The ticks that do not.
TicksOn(s) == OnTick(s) /\ (Baseline(s) \/ Pings(s) \/ Waits(s))

\* Every step is one of these.
LEMMA Steps ==
    ASSUME [Next]_vars
    PROVE  \/ Clock \/ Cut \/ Restore \/ UNCHANGED vars
           \/ \E s \in Sides :
                \/ Start(s) \/ OnHandshake(s) \/ OnPing(s) \/ OnPong(s) \/ OnClip(s)
                \/ Command(s) \/ SendClip(s) \/ TicksOn(s) \/ EndsHere(s)
  BY DEF Next, Step, Receive, OnTick, TicksOn, EndsHere

-----------------------------------------------------------------------------
(* Type correctness.                                                         *)

\* Every step keeps every variable in its range.
LEMMA TypeStep == TypeOK /\ [Next]_vars => TypeOK'
<1> SUFFICES ASSUME TypeOK, [Next]_vars PROVE TypeOK'
  OBVIOUS
<1> USE DEF clockVars
<1>1. CASE Clock
  <2>1. /\ since' \in [Sides -> Nat \cup {None}] /\ pending' \in [Sides -> Nat \cup {None}]
        /\ ticked' \in [Sides -> BOOLEAN] /\ dark' \in Nat
    BY <1>1 DEF Clock, TypeOK
  <2>2. QED
    BY <1>1, <2>1, Passing DEF Clock, TypeOK
<1>2. CASE Cut \/ Restore \/ UNCHANGED vars
  BY <1>2 DEF Cut, Restore, vars, TypeOK
<1>3. ASSUME NEW s \in Sides, Start(s) PROVE TypeOK'
  <2>1. chan' \in [Sides -> Seq(Messages)]
    BY <1>3, Sending DEF Start, Greets, Kinds
  <2>2. QED
    BY <1>3, <2>1 DEF Start, TypeOK
<1>4. ASSUME NEW s \in Sides, OnHandshake(s) \/ OnPong(s) \/ OnClip(s) PROVE TypeOK'
  <2>1. chan' \in [Sides -> Seq(Messages)]
    BY <1>4, Reading DEF OnHandshake, OnPong, OnClip, Reads
  <2>2. QED
    BY <1>4, <2>1 DEF OnHandshake, OnPong, OnClip, AfterPong, TypeOK
<1>5. ASSUME NEW s \in Sides, OnPing(s) PROVE TypeOK'
  BY <1>5, Echoing DEF OnPing, TypeOK
<1>6. ASSUME NEW s \in Sides, Command(s) PROVE TypeOK'
  BY <1>6 DEF Command, TypeOK
<1>7. ASSUME NEW s \in Sides, SendClip(s) PROVE TypeOK'
  <2>1. chan' \in [Sides -> Seq(Messages)]
    <3>1. CASE phase[s] = "ready"
      BY <1>7, <3>1, Sending DEF SendClip, Kinds
    <3>2. CASE phase[s] # "ready"
      BY <1>7, <3>2 DEF SendClip, TypeOK
    <3>3. QED
      BY <3>1, <3>2
  <2>2. commands' \in [Sides -> Nat]
    BY <1>7 DEF SendClip, TypeOK
  <2>3. QED
    BY <1>7, <2>1, <2>2 DEF SendClip, TypeOK
<1>8. ASSUME NEW s \in Sides, TicksOn(s) PROVE TypeOK'
  <2>1. chan' \in [Sides -> Seq(Messages)]
    <3>1. FreshNonce(s) \in 0..1
      BY FreshNonces
    <3>2. CASE Pings(s)
      BY <3>1, <3>2, Sending DEF Pings, Kinds
    <3>3. CASE Baseline(s) \/ Waits(s)
      BY <3>3 DEF Baseline, Waits, TypeOK
    <3>4. QED
      BY <1>8, <3>2, <3>3 DEF TicksOn
  <2>2. /\ since' \in [Sides -> Nat \cup {None}] /\ pending' \in [Sides -> Nat \cup {None}]
        /\ nonce' \in [Sides -> 0..1] /\ ticked' \in [Sides -> BOOLEAN]
    <3>1. ticked' \in [Sides -> BOOLEAN]
      BY <1>8 DEF TicksOn, OnTick, TypeOK
    <3>2. CASE Pings(s)
      BY <3>1, <3>2, FreshNonces DEF Pings, TypeOK
    <3>3. CASE Baseline(s)
      BY <3>1, <3>3 DEF Baseline, TypeOK
    <3>4. CASE Waits(s)
      BY <3>1, <3>4 DEF Waits, TypeOK
    <3>5. QED
      BY <1>8, <3>2, <3>3, <3>4 DEF TicksOn
  <2>3. UNCHANGED <<link, dark, agree, phase, open, reason, commands>>
    BY <1>8 DEF TicksOn, OnTick, Baseline, Pings, Waits
  <2>4. QED
    BY <2>1, <2>2, <2>3 DEF TypeOK
<1>9. ASSUME NEW s \in Sides, EndsHere(s) PROVE TypeOK'
  BY <1>9, EndingSteps, Ending DEF TypeOK
<1>10. QED
  BY <1>1, <1>2, <1>3, <1>4, <1>5, <1>6, <1>7, <1>8, <1>9, Steps

-----------------------------------------------------------------------------
(* Lives of the tasks, and handshakes first.                                 *)

\* Both sides of an invariant are enough.
LEMMA LifeBoth == ASSUME NEW s \in Sides, Life(s)', Life(Peer(s))' PROVE LifeInv'
  BY TwoSides DEF LifeInv
LEMMA GreetBoth == ASSUME NEW s \in Sides, Greet(s)', Greet(Peer(s))' PROVE GreetInv'
  BY TwoSides DEF GreetInv

\* A step that leaves lives and clocks alone, and what an ended side would read.
LEMMA LifeKept ==
    ASSUME LifeInv, UNCHANGED <<phase, open, reason>>,
           \A s \in Sides : Ended(s) => chan'[s] = chan[s],
           \A s \in Sides : phase[s] # "ready" => pending'[s] = pending[s] /\ since'[s] = since[s]
    PROVE  LifeInv'
  BY DEF LifeInv, Life, Ended

\* A task that reads has started and not ended, and so has the one that wrote.
LEMMA Reader ==
    ASSUME TypeOK, LifeInv, GreetInv, NEW s \in Sides, NEW kind, Reads(s, kind)
    PROVE  /\ phase[s] # "unborn" /\ ~Ended(s) /\ phase[Peer(s)] # "unborn"
           /\ chan[s] \in Seq(Messages) /\ chan[s] # <<>> /\ Head(chan[s]).kind = kind
           /\ Head(chan[s]) \in Messages
           /\ phase[s] = "ready" \/ (phase[s] = "awaiting" /\ Opens(chan[s]))
           /\ kind # "handshake" => phase[s] = "ready"
           /\ kind = "handshake" => phase[s] = "awaiting"
<1>1. /\ phase[s] # "unborn" /\ ~Ended(s) /\ chan[s] # <<>> /\ Head(chan[s]).kind = kind
      /\ chan[s] \in Seq(Messages)
  BY DEF Reads, LifeInv, Life, TypeOK
<1>2. phase[Peer(s)] # "unborn"
  BY <1>1 DEF GreetInv, Greet
<1>3. phase[s] = "ready" \/ (phase[s] = "awaiting" /\ Opens(chan[s]))
  BY <1>1, <1>2 DEF GreetInv, Greet, TypeOK
<1>4. Head(chan[s]) \in Messages
  BY <1>1, TakenAt
<1>5. kind # "handshake" => phase[s] = "ready"
  BY <1>1, <1>3, Taking
<1>6. kind = "handshake" => phase[s] # "ready"
  BY <1>1, Taking DEF GreetInv, Greet
<1>7. QED
  BY <1>1, <1>2, <1>3, <1>4, <1>5, <1>6

\* A task's life goes one way.
LEMMA LifeStep == TypeOK /\ LifeInv /\ GreetInv /\ [Next]_vars => LifeInv'
<1> SUFFICES ASSUME TypeOK, LifeInv, GreetInv, [Next]_vars PROVE LifeInv'
  OBVIOUS
<1> USE DEF clockVars
<1>1. CASE Clock
  <2>1. \A s \in Sides : Ended(s) => chan'[s] = chan[s]
    BY <1>1, Passing, AgeingKeeps DEF TypeOK, LifeInv, Life
  <2>2. \A s \in Sides : phase[s] # "ready" => pending'[s] = pending[s] /\ since'[s] = since[s]
    BY <1>1 DEF Clock, LifeInv, Life
  <2>3. QED
    BY <1>1, <2>1, <2>2, LifeKept DEF Clock
<1>2. CASE Cut \/ Restore \/ UNCHANGED vars
  BY <1>2, LifeKept DEF Cut, Restore, vars
<1>3. ASSUME NEW s \in Sides, Start(s) PROVE LifeInv'
  <2>1. /\ phase[s] = "unborn" /\ phase'[s] = "awaiting" /\ open'[s]
        /\ phase'[Peer(s)] = phase[Peer(s)] /\ open'[Peer(s)] = open[Peer(s)]
        /\ UNCHANGED <<reason, pending, since>>
    BY <1>3, TwoSides DEF Start, TypeOK
  <2>2. chan'[s] = chan[s] /\ (Ended(Peer(s)) => chan'[Peer(s)] = chan[Peer(s)])
    BY <1>3, Sending DEF Start, Greets, Kinds
  <2>3. Life(s) /\ Life(Peer(s)) /\ Peer(Peer(s)) = s
    BY TwoSides DEF LifeInv
  <2>4. Life(s)'
    BY <2>1, <2>2, <2>3 DEF Life, Ended
  <2>5. Life(Peer(s))'
    BY <2>1, <2>2, <2>3 DEF Life, Ended
  <2>6. QED
    BY <2>4, <2>5, LifeBoth
<1>4. ASSUME NEW s \in Sides, OnHandshake(s) PROVE LifeInv'
  <2>1. ~Ended(s) /\ phase[s] # "unborn" /\ phase[Peer(s)] # "unborn" /\ chan[s] # <<>>
    BY <1>4, Reader DEF OnHandshake
  <2>2. /\ phase'[s] = "ready" /\ phase'[Peer(s)] = phase[Peer(s)]
        /\ UNCHANGED <<open, reason, pending, since>>
        /\ chan'[Peer(s)] = chan[Peer(s)]
    BY <1>4, <2>1, Reading, TwoSides DEF OnHandshake, TypeOK
  <2>3. Life(s) /\ Life(Peer(s)) /\ Peer(Peer(s)) = s
    BY TwoSides DEF LifeInv
  <2>4. Life(s)'
    BY <2>1, <2>2, <2>3 DEF Life, Ended
  <2>5. Life(Peer(s))'
    BY <2>1, <2>2, <2>3 DEF Life, Ended
  <2>6. QED
    BY <2>4, <2>5, LifeBoth
<1>5. ASSUME NEW s \in Sides, OnPong(s) \/ OnClip(s) PROVE LifeInv'
  <2>1. ~Ended(s) /\ phase[s] = "ready" /\ chan[s] # <<>>
    BY <1>5, Reader DEF OnPong, OnClip
  <2>2. chan'[Peer(s)] = chan[Peer(s)]
    BY <1>5, <2>1, Reading DEF OnPong, OnClip
  <2>3. \A t \in Sides : Ended(t) => chan'[t] = chan[t]
    BY <2>1, <2>2, TwoSides
  <2>4. \A t \in Sides : phase[t] # "ready" => pending'[t] = pending[t] /\ since'[t] = since[t]
    BY <1>5, <2>1 DEF OnPong, OnClip, TypeOK
  <2>5. UNCHANGED <<phase, open, reason>>
    BY <1>5 DEF OnPong, OnClip
  <2>6. QED
    BY <2>3, <2>4, <2>5, LifeKept
<1>6. ASSUME NEW s \in Sides, OnPing(s) PROVE LifeInv'
  <2>1. ~Ended(s)
    BY <1>6, Reader DEF OnPing
  <2>2. \A t \in Sides : Ended(t) => chan'[t] = chan[t]
    BY <1>6, <2>1, Echoing, TwoSides
  <2>3. QED
    BY <1>6, <2>2, LifeKept DEF OnPing
<1>7. ASSUME NEW s \in Sides, Command(s) \/ SendClip(s) PROVE LifeInv'
  <2>1. \A t \in Sides : Ended(t) => chan'[t] = chan[t]
    <3>1. CASE UNCHANGED chan
      BY <3>1
    <3>2. CASE Sent(s, "clip", 0)
      BY <3>2, Sending, TwoSides DEF Kinds
    <3>3. QED
      BY <1>7, <3>1, <3>2 DEF Command, SendClip
  <2>2. QED
    BY <1>7, <2>1, LifeKept DEF Command, SendClip
<1>8. ASSUME NEW s \in Sides, TicksOn(s) PROVE LifeInv'
  <2>1. \A t \in Sides : Ended(t) => chan'[t] = chan[t]
    <3>1. CASE UNCHANGED chan
      BY <3>1
    <3>2. CASE Sent(s, "ping", FreshNonce(s))
      BY <3>2, Sending, FreshNonces, TwoSides DEF Kinds
    <3>3. QED
      BY <1>8, <3>1, <3>2 DEF TicksOn, Baseline, Pings, Waits
  <2>2. \A t \in Sides : phase[t] # "ready" => pending'[t] = pending[t] /\ since'[t] = since[t]
    BY <1>8 DEF TicksOn, Baseline, Pings, Waits, TypeOK
  <2>3. UNCHANGED <<phase, open, reason>>
    BY <1>8 DEF TicksOn, OnTick, Baseline, Pings, Waits
  <2>4. QED
    BY <2>1, <2>2, <2>3, LifeKept
<1>9. ASSUME NEW s \in Sides, EndsHere(s) PROVE LifeInv'
  <2>1. PICK why \in Reasons \ {"none"} : Ends(s, why)
    BY <1>9, EndingSteps
  <2>2. /\ chan'[s] = <<>> /\ chan'[Peer(s)] = chan[Peer(s)]
        /\ ~open'[s] /\ open'[Peer(s)] = open[Peer(s)]
        /\ reason'[s] # "none" /\ reason'[Peer(s)] = reason[Peer(s)]
    BY <2>1, Ending
  <2>3. /\ UNCHANGED <<phase, since>> /\ pending'[Peer(s)] = pending[Peer(s)] /\ open[s]
        /\ pending'[s] \in {pending[s], None}
    BY <1>9, EndingSteps
  <2>4. Life(s) /\ Life(Peer(s)) /\ Peer(Peer(s)) = s
    BY TwoSides DEF LifeInv
  <2>5. Life(s)'
    BY <2>2, <2>3, <2>4 DEF Life, Ended
  <2>6. Life(Peer(s))'
    BY <2>2, <2>3, <2>4 DEF Life, Ended
  <2>7. QED
    BY <2>5, <2>6, LifeBoth
<1>10. QED
  BY <1>1, <1>2, <1>3, <1>4, <1>5, <1>6, <1>7, <1>8, <1>9, Steps

\* A channel that stays, or gets older, or is dropped with its reader, or gets a message
\* that is no handshake from a side that has started, or loses one that is none.
Harmless(t) ==
    /\ Ended(t) => Ended(t)'
    /\ \/ chan'[t] = chan[t] \/ chan'[t] = Aged(chan[t])
       \/ chan'[t] = <<>> /\ Ended(t)'
       \/ /\ phase[Peer(t)] # "unborn"
          /\ \E m \in Messages : m.kind # "handshake" /\ chan'[t] = Append(chan[t], m)
       \/ chan[t] # <<>> /\ phase[t] = "ready" /\ chan'[t] = Tail(chan[t])

\* A handshake is sent when the channel is empty, and read before anything else.
LEMMA GreetStep == TypeOK /\ LifeInv /\ GreetInv /\ [Next]_vars => GreetInv'
<1> SUFFICES ASSUME TypeOK, LifeInv, GreetInv, [Next]_vars PROVE GreetInv'
  OBVIOUS
<1> USE DEF clockVars
<1>a. ASSUME UNCHANGED phase, \A t \in Sides : Harmless(t)
      PROVE  GreetInv'
  <2> SUFFICES ASSUME NEW t \in Sides PROVE Greet(t)'
    BY DEF GreetInv
  <2>1. Greet(t) /\ chan[t] \in Seq(Messages) /\ (Ended(t) => Ended(t)')
    BY <1>a DEF GreetInv, TypeOK, Harmless
  <2>2. CASE chan'[t] = chan[t]
    BY <1>a, <2>1, <2>2 DEF Greet
  <2>3. CASE chan'[t] = Aged(chan[t])
    BY <1>a, <2>1, <2>3, AgeingKeeps DEF Greet
  <2>4. CASE chan'[t] = <<>> /\ Ended(t)'
    BY <1>a, <2>4, EmptyFree DEF Greet
  <2>5. ASSUME phase[Peer(t)] # "unborn", NEW m \in Messages, m.kind # "handshake",
               chan'[t] = Append(chan[t], m)
        PROVE  Greet(t)'
    <3>1. Opens(chan[t]) => Opens(chan'[t])
      BY <2>1, <2>5, OpensStays
    <3>2. Free(chan[t], "handshake") => Free(chan'[t], "handshake")
      BY <2>1, <2>5, OtherSent
    <3>3. QED
      BY <1>a, <2>1, <2>5, <3>1, <3>2 DEF Greet
  <2>6. CASE chan[t] # <<>> /\ phase[t] = "ready" /\ chan'[t] = Tail(chan[t])
    <3>1. Free(chan'[t], "handshake")
      BY <2>1, <2>6, Taking DEF Greet
    <3>2. phase[Peer(t)] # "unborn"
      BY <2>6 DEF LifeInv, Life
    <3>3. QED
      BY <1>a, <2>6, <3>1, <3>2 DEF Greet
  <2>7. QED
    BY <1>a, <2>2, <2>3, <2>4, <2>5, <2>6 DEF Harmless
<1>b. ASSUME UNCHANGED <<phase, reason>>, NEW s \in Sides, Harmless(s), Harmless(Peer(s))
      PROVE  GreetInv'
  BY <1>a, <1>b, TwoSides
<1>1. CASE Clock
  <2>1. \A t \in Sides : Harmless(t)
    BY <1>1, Passing DEF Clock, Ended, Harmless
  <2>2. UNCHANGED phase
    BY <1>1 DEF Clock
  <2>3. QED
    BY <1>a, <2>1, <2>2
<1>2. CASE Cut \/ Restore \/ UNCHANGED vars
  <2>1. UNCHANGED <<phase, reason, chan>>
    BY <1>2 DEF Cut, Restore, vars
  <2>2. \A t \in Sides : Harmless(t)
    BY <2>1 DEF Harmless, Ended
  <2>3. QED
    BY <1>a, <2>1, <2>2
<1>3. ASSUME NEW s \in Sides, Start(s) PROVE GreetInv'
  <2>1. /\ phase[s] = "unborn" /\ phase'[s] = "awaiting" /\ reason' = reason
        /\ phase'[Peer(s)] = phase[Peer(s)] /\ Peer(Peer(s)) = s /\ Peer(s) \in Sides
    BY <1>3, TwoSides DEF Start, TypeOK
  <2> DEFINE m == Message("handshake", 0)
  <2>2. /\ chan'[s] = chan[s] /\ m \in Messages /\ m.kind = "handshake"
        /\ chan'[Peer(s)] = IF Ended(Peer(s)) THEN chan[Peer(s)] ELSE Append(chan[Peer(s)], m)
    BY <1>3, Sending, MessageTyped DEF Start, Greets, Kinds
  <2>3. Greet(s) /\ Greet(Peer(s)) /\ chan[Peer(s)] = <<>> /\ phase[Peer(s)] # "ready"
    BY <2>1 DEF GreetInv, Greet, LifeInv, Life
  <2>4. Greet(s)'
    BY <2>1, <2>2, <2>3 DEF Greet, Ended
  <2>5. Opens(Append(<<>>, m))
    BY <2>2 DEF Opens
  <2>6. Greet(Peer(s))'
    BY <2>1, <2>2, <2>3, <2>5 DEF Greet, Ended
  <2>7. QED
    BY <2>4, <2>6, GreetBoth
<1>4. ASSUME NEW s \in Sides, OnHandshake(s) PROVE GreetInv'
  <2>1. /\ chan[s] # <<>> /\ chan[s] \in Seq(Messages) /\ phase[Peer(s)] # "unborn"
        /\ phase[s] = "awaiting" /\ Opens(chan[s]) /\ Peer(Peer(s)) = s
    BY <1>4, Reader, TwoSides DEF OnHandshake
  <2>2. /\ phase'[s] = "ready" /\ phase'[Peer(s)] = phase[Peer(s)] /\ UNCHANGED reason
        /\ chan'[s] = Tail(chan[s]) /\ chan'[Peer(s)] = chan[Peer(s)]
    BY <1>4, <2>1, Reading, TwoSides DEF OnHandshake, TypeOK
  <2>3. Free(Tail(chan[s]), "handshake")
    BY <2>1, Taking
  <2>4. Greet(s)'
    BY <2>1, <2>2, <2>3 DEF Greet
  <2>5. Greet(Peer(s))
    BY TwoSides DEF GreetInv
  <2>6. Greet(Peer(s))'
    BY <2>1, <2>2, <2>5 DEF Greet, Ended
  <2>7. QED
    BY <2>4, <2>6, GreetBoth
<1>5. ASSUME NEW s \in Sides, OnPong(s) \/ OnClip(s) PROVE GreetInv'
  <2>1. phase[s] = "ready" /\ chan[s] # <<>>
    BY <1>5, Reader DEF OnPong, OnClip
  <2>2. chan'[s] = Tail(chan[s]) /\ chan'[Peer(s)] = chan[Peer(s)] /\ UNCHANGED <<phase, reason>>
    BY <1>5, <2>1, Reading DEF OnPong, OnClip
  <2>3. Harmless(s) /\ Harmless(Peer(s))
    BY <2>1, <2>2 DEF Harmless, Ended
  <2>4. QED
    BY <1>b, <2>2, <2>3
<1>6. ASSUME NEW s \in Sides, OnPing(s) PROVE GreetInv'
  <2>1. phase[s] = "ready" /\ chan[s] # <<>> /\ Head(chan[s]) \in Messages
    BY <1>6, Reader DEF OnPing
  <2> DEFINE m == Message("pong", Head(chan[s]).nonce)
  <2>2. m \in Messages /\ m.kind # "handshake"
    BY <2>1, MessageTyped DEF Messages, Kinds
  <2>3. chan'[s] = Tail(chan[s]) /\ (chan'[Peer(s)] = chan[Peer(s)] \/ chan'[Peer(s)] = Append(chan[Peer(s)], m))
    BY <1>6, Echoing
  <2>4. UNCHANGED <<phase, reason>>
    BY <1>6 DEF OnPing
  <2>5. Harmless(s) /\ Harmless(Peer(s))
    BY <2>1, <2>2, <2>3, <2>4, TwoSides DEF Harmless, Ended
  <2>6. QED
    BY <1>b, <2>4, <2>5
<1>7. ASSUME NEW s \in Sides, NEW kind \in Kinds \ {"handshake"}, NEW n \in 0..1,
             UNCHANGED chan \/ Sent(s, kind, n), phase[s] # "unborn", UNCHANGED <<phase, reason>>
      PROVE  GreetInv'
  <2> DEFINE m == Message(kind, n)
  <2>1. m \in Messages /\ m.kind # "handshake"
    BY MessageTyped
  <2>2. chan'[s] = chan[s] /\ (chan'[Peer(s)] = chan[Peer(s)] \/ chan'[Peer(s)] = Append(chan[Peer(s)], m))
    BY <1>7, Sending
  <2>3. Harmless(s) /\ Harmless(Peer(s))
    BY <1>7, <2>1, <2>2, TwoSides DEF Harmless, Ended
  <2>4. QED
    BY <1>7, <1>b, <2>3
<1>8. ASSUME NEW s \in Sides, Command(s) \/ SendClip(s) PROVE GreetInv'
  <2>1. UNCHANGED chan \/ Sent(s, "clip", 0)
    BY <1>8 DEF Command, SendClip
  <2>2. phase[s] # "unborn" /\ UNCHANGED <<phase, reason>>
    BY <1>8 DEF Command, SendClip, LifeInv, Life
  <2>3. QED
    BY <1>7, <2>1, <2>2 DEF Kinds
<1>9. ASSUME NEW s \in Sides, TicksOn(s) PROVE GreetInv'
  <2>1. UNCHANGED chan \/ Sent(s, "ping", FreshNonce(s))
    BY <1>9 DEF TicksOn, Baseline, Pings, Waits
  <2>2. phase[s] # "unborn" /\ UNCHANGED <<phase, reason>> /\ FreshNonce(s) \in 0..1
    BY <1>9, FreshNonces DEF TicksOn, OnTick, Baseline, Pings, Waits, LifeInv, Life
  <2>3. QED
    BY <1>7, <2>1, <2>2 DEF Kinds
<1>10. ASSUME NEW s \in Sides, EndsHere(s) PROVE GreetInv'
  <2>1. PICK why \in Reasons \ {"none"} : Ends(s, why)
    BY <1>10, EndingSteps
  <2>2. /\ chan'[s] = <<>> /\ chan'[Peer(s)] = chan[Peer(s)]
        /\ reason'[s] # "none" /\ reason'[Peer(s)] = reason[Peer(s)]
    BY <2>1, Ending
  <2>3. UNCHANGED phase
    BY <1>10, EndingSteps
  <2>4. \A t \in Sides : Harmless(t)
    BY <2>2, TwoSides DEF Harmless, Ended
  <2>5. QED
    BY <1>a, <2>3, <2>4
<1>11. QED
  BY <1>1, <1>2, <1>3, <1>4, <1>5, <1>6, <1>8, <1>9, <1>10, Steps

-----------------------------------------------------------------------------
(* Round trips.                                                              *)

\* What a step leaves of the messages of a kind: none if there were none, and the one.
Keeps(q, r, kind) ==
    /\ Free(q, kind) => Free(r, kind)
    /\ \A n : \A age \in Int : One(q, kind, n, age) => One(r, kind, n, age)

\* Sending or reading a message of another kind keeps those of a kind.
LEMMA KeepsSent ==
    ASSUME NEW q \in Seq(Messages), NEW m \in Messages, NEW kind, m.kind # kind
    PROVE  Keeps(q, Append(q, m), kind)
  BY OtherSent DEF Keeps

LEMMA KeepsTaken ==
    ASSUME NEW q \in Seq(Messages), q # <<>>, NEW kind, Head(q).kind # kind
    PROVE  Keeps(q, Tail(q), kind)
  BY Taking DEF Keeps

\* A message in a young channel is young.
LEMMA OneYoung ==
    ASSUME NEW q \in Seq(Messages), NEW kind, NEW n, NEW age \in Int, One(q, kind, n, age)
    PROVE  /\ Young(q) => age <= Delay
           /\ One(q, kind, n, 0) /\ q # <<>> /\ ~Free(q, kind)
<1>1. PICK k \in 1..Len(q) :
         /\ q[k].kind = kind /\ q[k].nonce = n /\ q[k].age >= age
         /\ \A i \in 1..Len(q) : i # k => q[i].kind # kind
  BY DEF One
<1>2. q[k] \in Messages /\ q[k].age \in Nat
  <2>1. q[k] \in Messages
    OBVIOUS
  <2>2. QED
    BY <2>1 DEF Messages
<1>3. QED
  BY <1>1, <1>2 DEF One, Young, Free

\* Sending, reading and ageing keep a channel young.
LEMMA AgeStep == TypeOK /\ LifeInv /\ GreetInv /\ AgeInv /\ [Next]_vars => AgeInv'
<1> SUFFICES ASSUME TypeOK, LifeInv, GreetInv, AgeInv, [Next]_vars PROVE AgeInv'
  OBVIOUS
<1> DEFINE Moved(t) ==
      \/ chan'[t] = chan[t] \/ chan'[t] = Aged(chan[t]) \/ chan'[t] = <<>>
      \/ \E m \in Messages : m.age = 0 /\ chan'[t] = Append(chan[t], m)
      \/ chan[t] # <<>> /\ chan'[t] = Tail(chan[t])
<1>1. ASSUME NEW t \in Sides, Moved(t) PROVE Young(chan'[t])
  <2>1. chan[t] \in Seq(Messages) /\ Young(chan[t])
    BY DEF TypeOK, AgeInv
  <2>2. CASE chan'[t] = chan[t] \/ chan'[t] = <<>>
    BY <2>1, <2>2 DEF Young
  <2>3. CASE chan'[t] = Aged(chan[t])
    BY <2>1, <2>3, Ageing DEF Young
  <2>4. ASSUME NEW m \in Messages, m.age = 0, chan'[t] = Append(chan[t], m)
        PROVE  Young(chan'[t])
    <3>1. ASSUME NEW i \in 1..Len(Append(chan[t], m)) PROVE Append(chan[t], m)[i].age <= Delay
      <4>1. CASE i \in 1..Len(chan[t])
        BY <2>1, <4>1, SentAt DEF Young
      <4>2. CASE i = Len(chan[t]) + 1
        BY <2>1, <2>4, <4>2, SentAt
      <4>3. QED
        BY <2>1, <4>1, <4>2, SentAt
    <3>2. QED
      BY <2>4, <3>1 DEF Young
  <2>5. CASE chan[t] # <<>> /\ chan'[t] = Tail(chan[t])
    BY <2>1, <2>5, TakenAt DEF Young
  <2>6. QED
    BY <1>1, <2>2, <2>3, <2>4, <2>5
<1>2. ASSUME NEW s \in Sides, Moved(s), Moved(Peer(s)) PROVE AgeInv'
  BY <1>1, <1>2, TwoSides DEF AgeInv
<1>3. ASSUME NEW s \in Sides, NEW kind \in Kinds, NEW n \in 0..1, Sent(s, kind, n) PROVE AgeInv'
  <2>1. Message(kind, n) \in Messages /\ Message(kind, n).age = 0
    BY MessageTyped
  <2>2. Moved(s) /\ Moved(Peer(s))
    BY <1>3, <2>1, Sending
  <2>3. QED
    BY <1>2, <2>2
<1>4. ASSUME NEW s \in Sides, chan[s] # <<>>, Take(s) PROVE AgeInv'
  BY <1>2, <1>4, Reading
<1>5. ASSUME UNCHANGED chan PROVE AgeInv'
  BY <1>5 DEF AgeInv
<1>6. CASE Clock
  BY <1>1, <1>6, Passing DEF AgeInv
<1>7. CASE Cut \/ Restore \/ UNCHANGED vars
  BY <1>5, <1>7 DEF Cut, Restore, vars
<1>8. ASSUME NEW s \in Sides, Start(s) PROVE AgeInv'
  BY <1>3, <1>8 DEF Start, Greets, Kinds
<1>9. ASSUME NEW s \in Sides, OnHandshake(s) \/ OnPong(s) \/ OnClip(s) PROVE AgeInv'
  BY <1>4, <1>9 DEF OnHandshake, OnPong, OnClip, Reads
<1>10. ASSUME NEW s \in Sides, OnPing(s) PROVE AgeInv'
  <2> DEFINE m == Message("pong", Head(chan[s]).nonce)
  <2>1. m \in Messages /\ m.age = 0
    BY <1>10, Echoing, MessageTyped DEF Messages, Kinds
  <2>2. Moved(s) /\ Moved(Peer(s))
    BY <1>10, <2>1, Echoing DEF OnPing, Reads
  <2>3. QED
    BY <1>2, <2>2
<1>11. ASSUME NEW s \in Sides, Command(s) \/ SendClip(s) PROVE AgeInv'
  BY <1>3, <1>5, <1>11 DEF Command, SendClip, Kinds
<1>12. ASSUME NEW s \in Sides, TicksOn(s) PROVE AgeInv'
  BY <1>3, <1>5, <1>12, FreshNonces DEF TicksOn, Baseline, Pings, Waits, Kinds
<1>13. ASSUME NEW s \in Sides, EndsHere(s) PROVE AgeInv'
  BY <1>2, <1>13, EndingSteps, Ending
<1>14. QED
  BY <1>6, <1>7, <1>8, <1>9, <1>10, <1>11, <1>12, <1>13, Steps

\* A step that keeps a side's pings and pongs keeps its round trip.
LEMMA RoundTripKept ==
    ASSUME TypeOK, NEW t \in Sides, RoundTrip(t), UNCHANGED link,
           pending'[t] = pending[t], nonce'[t] = nonce[t],
           Ended(Peer(t)) => Ended(Peer(t))',
           Keeps(chan[t], chan'[t], "pong"), Keeps(chan[Peer(t)], chan'[Peer(t)], "ping")
    PROVE  RoundTrip(t)'
<1>1. /\ AtLeast(pending[t]) \in Int /\ AtLeast(pending[t] - Delay) \in Int
      /\ AtLeast(pending[t])' = AtLeast(pending[t])
      /\ AtLeast(pending[t] - Delay)' = AtLeast(pending[t] - Delay)
  BY DEF AtLeast, TypeOK
<1>2. Nothing(t) => Nothing(t)'
  BY DEF Nothing, Keeps
<1>3. PingOut(t) => PingOut(t)'
  BY <1>1 DEF PingOut, Keeps
<1>4. PongBack(t) => PongBack(t)'
  BY <1>1 DEF PongBack, Keeps
<1>5. QED
  BY <1>2, <1>3, <1>4 DEF RoundTrip

\* What is left alone is kept.
LEMMA KeepsSame == \A q, kind : Keeps(q, q, kind)
  BY DEF Keeps

\* A ping is asked for once, answered once, and its answer is the one waited for.
LEMMA RoundTripStep ==
    TypeOK /\ LifeInv /\ GreetInv /\ AgeInv /\ RoundTripInv /\ [Next]_vars => RoundTripInv'
<1> SUFFICES ASSUME TypeOK, LifeInv, GreetInv, AgeInv, RoundTripInv, [Next]_vars
             PROVE  RoundTripInv'
  OBVIOUS
<1> USE DEF clockVars
\* Both sides are enough, and one that has ended needs nothing.
<1>a. ASSUME NEW s \in Sides, ~Ended(s)' => RoundTrip(s)', ~Ended(Peer(s))' => RoundTrip(Peer(s))'
      PROVE  RoundTripInv'
  BY <1>a, TwoSides DEF RoundTripInv
<1>b. ASSUME NEW t \in Sides, reason' = reason, UNCHANGED link,
             pending'[t] = pending[t], nonce'[t] = nonce[t],
             Keeps(chan[t], chan'[t], "pong"), Keeps(chan[Peer(t)], chan'[Peer(t)], "ping")
      PROVE  ~Ended(t)' => RoundTrip(t)'
  <2> SUFFICES ASSUME ~Ended(t)' PROVE RoundTrip(t)'
    OBVIOUS
  <2>1. RoundTrip(t) /\ (Ended(Peer(t)) => Ended(Peer(t))')
    BY <1>b DEF Ended, RoundTripInv
  <2>2. QED
    BY <1>b, <2>1, RoundTripKept
\* A message that is neither ping nor pong is sent, or read.
<1>c. ASSUME NEW s \in Sides, NEW kind \in {"handshake", "clip"},
             UNCHANGED chan \/ Sent(s, kind, 0), UNCHANGED <<reason, link, pending, nonce>>
      PROVE  RoundTripInv'
  <2> DEFINE m == Message(kind, 0)
  <2>1. m \in Messages /\ m.kind # "ping" /\ m.kind # "pong"
    BY MessageTyped DEF Kinds
  <2>2. chan'[s] = chan[s] /\ chan'[Peer(s)] \in {chan[Peer(s)], Append(chan[Peer(s)], m)}
    <3>1. CASE UNCHANGED chan
      BY <3>1
    <3>2. CASE Sent(s, kind, 0)
      <4>1. kind \in Kinds /\ 0 \in 0..1
        BY DEF Kinds
      <4>2. QED
        BY <3>2, <4>1, Sending
    <3>3. QED
      BY <1>c, <3>1, <3>2
  <2>3. chan[Peer(s)] \in Seq(Messages)
    BY TwoSides DEF TypeOK
  <2>4. \A k \in {"ping", "pong"} :
           Keeps(chan[s], chan'[s], k) /\ Keeps(chan[Peer(s)], chan'[Peer(s)], k)
    BY <2>1, <2>2, <2>3, KeepsSame, KeepsSent
  <2>5. ~Ended(s)' => RoundTrip(s)'
    BY <1>b, <1>c, <2>4
  <2>6. ~Ended(Peer(s))' => RoundTrip(Peer(s))'
    BY <1>b, <1>c, <2>4, TwoSides
  <2>7. QED
    BY <1>a, <2>5, <2>6
<1>d. ASSUME NEW s \in Sides, OnHandshake(s) \/ OnClip(s) PROVE RoundTripInv'
  <2>1. /\ chan[s] # <<>> /\ chan[s] \in Seq(Messages)
        /\ Head(chan[s]).kind # "ping" /\ Head(chan[s]).kind # "pong"
    BY <1>d DEF OnHandshake, OnClip, Reads, TypeOK
  <2>2. chan'[s] = Tail(chan[s]) /\ chan'[Peer(s)] = chan[Peer(s)]
    BY <1>d, <2>1, Reading DEF OnHandshake, OnClip
  <2>3. \A k \in {"ping", "pong"} :
           Keeps(chan[s], chan'[s], k) /\ Keeps(chan[Peer(s)], chan'[Peer(s)], k)
    BY <2>1, <2>2, KeepsSame, KeepsTaken
  <2>4. UNCHANGED <<reason, link, pending, nonce>>
    BY <1>d DEF OnHandshake, OnClip
  <2>5. ~Ended(s)' => RoundTrip(s)'
    BY <1>b, <2>3, <2>4
  <2>6. ~Ended(Peer(s))' => RoundTrip(Peer(s))'
    BY <1>b, <2>3, <2>4, TwoSides
  <2>7. QED
    BY <1>a, <2>5, <2>6
<1>1. CASE Clock
  <2> SUFFICES ASSUME NEW t \in Sides, ~Ended(t)' PROVE RoundTrip(t)'
    BY DEF RoundTripInv
  <2>1. /\ Peer(t) \in Sides /\ chan[t] \in Seq(Messages) /\ chan[Peer(t)] \in Seq(Messages)
        /\ chan'[t] = Aged(chan[t]) /\ chan'[Peer(t)] = Aged(chan[Peer(t)])
        /\ nonce'[t] = nonce[t] /\ link' = link /\ (Ended(Peer(t))' <=> Ended(Peer(t)))
    BY <1>1, Passing, TwoSides DEF Clock, TypeOK, Ended
  <2>2. RoundTrip(t)
    BY <1>1 DEF Clock, Ended, RoundTripInv
  <2>3. Nothing(t) => Nothing(t)'
    BY <2>1, AgeingKeeps DEF Nothing
  <2>4. CASE pending[t] = None
    BY <1>1, <2>2, <2>3, <2>4 DEF Clock, RoundTrip
  <2>5. CASE pending[t] # None
    <3>1. open[t] /\ pending[t] \in Nat /\ pending'[t] = pending[t] + 1
      BY <1>1, <2>5 DEF Clock, LifeInv, Life, Ended, TypeOK
    <3> DEFINE a == AtLeast(pending[t])
               b == AtLeast(pending[t] - Delay)
    <3>2. /\ a \in Int /\ b \in Int
          /\ AtLeast(pending[t])' = IF link = "up" THEN a + 1 ELSE a
          /\ AtLeast(pending[t] - Delay)' = IF link = "up" THEN b + 1 ELSE b
      BY <2>1, <3>1 DEF AtLeast
    <3>3. PingOut(t) => PingOut(t)'
      <4> SUFFICES ASSUME PingOut(t) PROVE PingOut(t)'
        OBVIOUS
      <4>1. One(chan[Peer(t)], "ping", nonce[t], a) /\ chan[Peer(t)] # <<>>
        BY <2>1, <3>2, OneYoung DEF PingOut
      <4>2. open[Peer(t)]
        <5>1. phase[t] = "ready" /\ phase[Peer(t)] # "unborn" /\ ~Ended(Peer(t))
          BY <2>1, <2>5, <4>1 DEF LifeInv, Life
        <5>2. QED
          BY <2>1, <5>1 DEF LifeInv, Life
      <4>3. link = "up" => \A i \in 1..Len(chan[Peer(t)]) : chan[Peer(t)][i].age < Delay
        BY <1>1, <2>1, <4>2 DEF Clock
      <4>4. One(Aged(chan[Peer(t)]), "ping", nonce[t], IF link = "up" THEN a + 1 ELSE a)
        BY <2>1, <3>2, <4>1, <4>3, AgeingKeeps
      <4>5. Free(Aged(chan[t]), "pong")
        BY <2>1, AgeingKeeps DEF PingOut
      <4>6. QED
        BY <2>1, <3>2, <4>4, <4>5 DEF PingOut
    <3>4. PongBack(t) => PongBack(t)'
      <4> SUFFICES ASSUME PongBack(t) PROVE PongBack(t)'
        OBVIOUS
      <4>1. link = "up" => \A i \in 1..Len(chan[t]) : chan[t][i].age < Delay
        BY <1>1, <3>1 DEF Clock
      <4>2. One(Aged(chan[t]), "pong", nonce[t], IF link = "up" THEN b + 1 ELSE b)
        BY <2>1, <3>2, <4>1, AgeingKeeps DEF PongBack
      <4>3. Free(Aged(chan[Peer(t)]), "ping")
        BY <2>1, AgeingKeeps DEF PongBack
      <4>4. QED
        BY <2>1, <3>2, <4>2, <4>3 DEF PongBack
    <3>5. pending'[t] # None
      BY <3>1
    <3>6. QED
      BY <2>1, <2>2, <2>3, <2>5, <3>3, <3>4, <3>5 DEF RoundTrip
  <2>6. QED
    BY <2>4, <2>5
<1>2. CASE Cut \/ Restore
  <2> SUFFICES ASSUME NEW t \in Sides, ~Ended(t)' PROVE RoundTrip(t)'
    BY DEF RoundTripInv
  <2>1. link' # "up" /\ UNCHANGED <<chan, reason, pending, nonce>>
    BY <1>2 DEF Cut, Restore
  <2>2. RoundTrip(t) /\ chan[t] \in Seq(Messages) /\ chan[Peer(t)] \in Seq(Messages)
    BY <2>1, TwoSides DEF Ended, RoundTripInv, TypeOK
  <2>3. AtLeast(pending[t]) \in Int /\ AtLeast(pending[t] - Delay) \in Int
    BY DEF AtLeast, TypeOK
  <2>4. AtLeast(pending[t])' = 0 /\ AtLeast(pending[t] - Delay)' = 0
    BY <2>1 DEF AtLeast
  <2>5. PingOut(t) => PingOut(t)'
    BY <2>1, <2>2, <2>3, <2>4, OneYoung DEF PingOut
  <2>6. PongBack(t) => PongBack(t)'
    BY <2>1, <2>2, <2>3, <2>4, OneYoung DEF PongBack
  <2>7. Nothing(t) => Nothing(t)'
    BY <2>1 DEF Nothing
  <2>8. QED
    BY <2>1, <2>2, <2>5, <2>6, <2>7 DEF RoundTrip, Ended
<1>3. ASSUME NEW s \in Sides, Start(s) PROVE RoundTripInv'
  BY <1>c, <1>3 DEF Start, Greets
<1>4. ASSUME NEW s \in Sides, Command(s) \/ SendClip(s) PROVE RoundTripInv'
  BY <1>c, <1>4 DEF Command, SendClip
\* A ping arrives: it is the peer's pending one, and its pong goes out.
<1>5. ASSUME NEW s \in Sides, OnPing(s) PROVE RoundTripInv'
  <2>1. /\ phase[s] = "ready" /\ chan[s] # <<>> /\ chan[s] \in Seq(Messages)
        /\ Head(chan[s]).kind = "ping" /\ Head(chan[s]) \in Messages
        /\ Peer(s) \in Sides /\ Peer(Peer(s)) = s /\ chan[Peer(s)] \in Seq(Messages)
    BY <1>5, Reader, TwoSides DEF OnPing, TypeOK
  <2> DEFINE m == Message("pong", Head(chan[s]).nonce)
  <2>2. m \in Messages /\ m.kind = "pong" /\ m.nonce = Head(chan[s]).nonce /\ m.age = 0
    BY <2>1, MessageTyped DEF Messages, Kinds
  <2>3. /\ chan'[s] = Tail(chan[s])
        /\ chan'[Peer(s)] = IF Ended(Peer(s)) THEN chan[Peer(s)] ELSE Append(chan[Peer(s)], m)
        /\ UNCHANGED <<reason, link, pending, nonce>>
    BY <1>5, <2>1, Echoing DEF OnPing
  <2>4. Keeps(chan[s], chan'[s], "pong") /\ Keeps(chan[Peer(s)], chan'[Peer(s)], "ping")
    BY <2>1, <2>2, <2>3, KeepsSame, KeepsSent, KeepsTaken
  <2>5. ~Ended(s)' => RoundTrip(s)'
    BY <1>b, <2>3, <2>4
  <2>6. ASSUME ~Ended(Peer(s)) PROVE RoundTrip(Peer(s))'
    <3>1. RoundTrip(Peer(s)) /\ ~Free(chan[s], "ping")
      BY <2>1, <2>6, Taking DEF RoundTripInv
    <3>2. PingOut(Peer(s)) /\ pending[Peer(s)] # None
      BY <2>1, <3>1 DEF RoundTrip, Nothing, PongBack
    <3> DEFINE a == AtLeast(pending[Peer(s)])
               b == AtLeast(pending[Peer(s)] - Delay)
    <3>3. /\ Free(Tail(chan[s]), "ping") /\ Head(chan[s]).nonce = nonce[Peer(s)]
          /\ Free(chan[Peer(s)], "pong")
      BY <2>1, <3>2, Taking DEF PingOut
    <3>4. a \in Int /\ a <= Delay
      BY <2>1, <3>2, OneYoung DEF PingOut, AgeInv, AtLeast, TypeOK
    <3>5. 0 >= b
      BY <2>1, <3>4 DEF AtLeast, TypeOK
    <3>6. One(Append(chan[Peer(s)], m), "pong", nonce[Peer(s)], b)
      BY <2>1, <2>2, <3>3, <3>5, FirstSent
    <3>7. AtLeast(pending[Peer(s)] - Delay)' = b
      BY <2>3 DEF AtLeast
    <3>8. PongBack(Peer(s))'
      BY <2>1, <2>3, <2>6, <3>3, <3>6, <3>7 DEF PongBack
    <3>9. QED
      BY <2>3, <3>2, <3>8 DEF RoundTrip
  <2>7. QED
    BY <1>a, <2>3, <2>5, <2>6 DEF Ended
\* A pong arrives: it is the pending ping's.
<1>6. ASSUME NEW s \in Sides, OnPong(s) PROVE RoundTripInv'
  <2>1. /\ phase[s] = "ready" /\ chan[s] # <<>> /\ chan[s] \in Seq(Messages) /\ ~Ended(s)
        /\ Head(chan[s]).kind = "pong" /\ Peer(s) \in Sides /\ Peer(s) # s /\ Peer(Peer(s)) = s
    BY <1>6, Reader, TwoSides DEF OnPong
  <2>2. /\ chan'[s] = Tail(chan[s]) /\ chan'[Peer(s)] = chan[Peer(s)]
        /\ UNCHANGED <<reason, link, nonce>> /\ pending' = [pending EXCEPT ![s] = AfterPong(s)]
    BY <1>6, <2>1, Reading DEF OnPong
  <2>3. PongBack(s) /\ pending[s] # None
    <3>1. RoundTrip(s) /\ ~Free(chan[s], "pong")
      BY <2>1, Taking DEF RoundTripInv
    <3>2. QED
      BY <3>1 DEF RoundTrip, Nothing, PingOut
  <2>4. Free(Tail(chan[s]), "pong") /\ Head(chan[s]).nonce = nonce[s]
    BY <2>1, <2>3, Taking DEF PongBack
  <2>5. pending'[s] = None /\ pending'[Peer(s)] = pending[Peer(s)]
    BY <2>1, <2>2, <2>4 DEF AfterPong, TypeOK
  <2>6. RoundTrip(s)'
    BY <2>2, <2>3, <2>4, <2>5 DEF RoundTrip, Nothing, PongBack
  <2>7. Keeps(chan[s], chan'[s], "ping") /\ Keeps(chan[Peer(s)], chan'[Peer(s)], "pong")
    BY <2>1, <2>2, KeepsSame, KeepsTaken
  <2>8. ~Ended(Peer(s))' => RoundTrip(Peer(s))'
    BY <1>b, <2>1, <2>2, <2>5, <2>7
  <2>9. QED
    BY <1>a, <2>6, <2>8
<1>7. ASSUME NEW s \in Sides, TicksOn(s) PROVE RoundTripInv'
  <2>1. UNCHANGED <<link, reason>> /\ Peer(s) \in Sides /\ Peer(s) # s /\ Peer(Peer(s)) = s
    BY <1>7, TwoSides DEF TicksOn, OnTick, Baseline, Pings, Waits
  <2>2. CASE Baseline(s) \/ Waits(s)
    <3>1. UNCHANGED <<chan, pending, nonce>>
      BY <2>2 DEF Baseline, Waits
    <3>2. QED
      BY <1>c, <2>1, <3>1
  <2>3. CASE Pings(s)
    <3> DEFINE m == Message("ping", FreshNonce(s))
    <3>1. m \in Messages /\ m.kind = "ping" /\ m.nonce = FreshNonce(s) /\ m.age = 0
      BY FreshNonces, MessageTyped DEF Kinds
    <3>2. /\ chan'[s] = chan[s] /\ chan[Peer(s)] \in Seq(Messages)
          /\ chan'[Peer(s)] = IF Ended(Peer(s)) THEN chan[Peer(s)] ELSE Append(chan[Peer(s)], m)
      BY <2>1, <2>3, FreshNonces, Sending DEF Pings, Kinds, TypeOK
    <3>3. /\ pending[s] = None /\ pending'[s] = 0 /\ nonce'[s] = FreshNonce(s)
          /\ pending'[Peer(s)] = pending[Peer(s)] /\ nonce'[Peer(s)] = nonce[Peer(s)]
      BY <2>1, <2>3 DEF Pings, Outstanding, TypeOK
    <3>4. ~Ended(s) /\ Nothing(s)
      <4>1. ~Ended(s)
        BY <1>7 DEF TicksOn, OnTick, LifeInv, Life
      <4>2. QED
        BY <3>3, <4>1 DEF RoundTripInv, RoundTrip
    <3>5. AtLeast(pending[s])' = 0
      BY <3>3 DEF AtLeast
    <3>6. RoundTrip(s)'
      <4>1. CASE Ended(Peer(s))
        BY <2>1, <3>2, <3>4, <4>1 DEF RoundTrip, Nothing, Ended
      <4>2. CASE ~Ended(Peer(s))
        <5>1. One(Append(chan[Peer(s)], m), "ping", FreshNonce(s), 0)
          <6>1. Free(chan[Peer(s)], m.kind) /\ m.age >= 0
            BY <3>1, <3>4 DEF Nothing
          <6>2. One(Append(chan[Peer(s)], m), m.kind, m.nonce, 0)
            BY <3>1, <3>2, <6>1, FirstSent
          <6>3. QED
            BY <3>1, <6>2
        <5>2. PingOut(s)'
          BY <3>2, <3>3, <3>4, <3>5, <4>2, <5>1 DEF PingOut, Nothing
        <5>3. QED
          BY <3>3, <5>2 DEF RoundTrip
      <4>3. QED
        BY <4>1, <4>2
    <3>7. Keeps(chan[s], chan'[s], "ping") /\ Keeps(chan[Peer(s)], chan'[Peer(s)], "pong")
      BY <3>1, <3>2, KeepsSame, KeepsSent
    <3>8. ~Ended(Peer(s))' => RoundTrip(Peer(s))'
      BY <1>b, <2>1, <3>3, <3>7
    <3>9. QED
      BY <1>a, <3>6, <3>8
  <2>4. QED
    BY <1>7, <2>2, <2>3 DEF TicksOn
\* A task ends: its peer is waiting for a pong that is on its way, or for ever.
<1>8. ASSUME NEW s \in Sides, EndsHere(s) PROVE RoundTripInv'
  <2>1. PICK why \in Reasons \ {"none"} : Ends(s, why)
    BY <1>8, EndingSteps
  <2>2. /\ chan'[s] = <<>> /\ chan'[Peer(s)] = chan[Peer(s)]
        /\ Ended(s)' /\ (Ended(Peer(s))' <=> Ended(Peer(s)))
    BY <2>1, Ending DEF Ended
  <2>3. UNCHANGED <<link, nonce>> /\ pending'[Peer(s)] = pending[Peer(s)]
    BY <1>8, EndingSteps
  <2>4. Peer(s) \in Sides /\ Peer(Peer(s)) = s /\ Free(<<>>, "ping")
    BY TwoSides, EmptyFree
  <2>5. ASSUME ~Ended(Peer(s)) PROVE RoundTrip(Peer(s))'
    <3>1. RoundTrip(Peer(s))
      BY <2>4, <2>5 DEF RoundTripInv
    <3>2. AtLeast(pending[Peer(s)] - Delay)' = AtLeast(pending[Peer(s)] - Delay)
      BY <2>3 DEF AtLeast
    <3>3. Nothing(Peer(s)) \/ PingOut(Peer(s)) => Nothing(Peer(s))'
      BY <2>2, <2>4 DEF Nothing, PingOut
    <3>4. PongBack(Peer(s)) => PongBack(Peer(s))'
      BY <2>2, <2>3, <2>4, <3>2 DEF PongBack
    <3>5. QED
      BY <2>2, <2>3, <2>4, <3>1, <3>3, <3>4 DEF RoundTrip
  <2>6. QED
    BY <1>a, <2>2, <2>5
<1>9. CASE UNCHANGED vars
  <2>1. UNCHANGED <<chan, reason, link, pending, nonce>>
    BY <1>9 DEF vars
  <2>2. "phone" \in Sides
    BY DEF Sides
  <2>3. QED
    BY <1>c, <2>1, <2>2
<1>10. QED
  BY <1>d, <1>1, <1>2, <1>3, <1>4, <1>5, <1>6, <1>7, <1>8, <1>9, Steps

-----------------------------------------------------------------------------
(* Dark links.                                                               *)

\* What Dark looks at stays, but for the side that steps and the light coming back.
LEMMA DarkKept ==
    ASSUME DarkInv, NEW t \in Sides,
           UNCHANGED dark, pending'[t] = pending[t], since'[t] = since[t],
           ticked'[t] = ticked[t], phase'[t] = phase[t], open'[t] => open[t]
    PROVE  open'[t] /\ phase'[t] = "ready" => Dark(t)'
  BY DEF DarkInv, Dark

\* Each tick brings a Ready side that hears nothing nearer to giving its peer up.
LEMMA DarkStep == TypeOK /\ LifeInv /\ GreetInv /\ DarkInv /\ [Next]_vars => DarkInv'
<1> SUFFICES ASSUME TypeOK, LifeInv, GreetInv, DarkInv, [Next]_vars PROVE DarkInv'
  OBVIOUS
<1> USE DEF clockVars
<1> DEFINE Fine(t) == open'[t] /\ phase'[t] = "ready" => Dark(t)'
<1>a. ASSUME NEW s \in Sides, Fine(s), Fine(Peer(s)), UNCHANGED <<link, dark>>
      PROVE  DarkInv'
  BY <1>a, TwoSides DEF DarkInv
<1>b. ASSUME UNCHANGED <<link, dark, pending, since, ticked, phase, open>> PROVE DarkInv'
  BY <1>b DEF DarkInv, Dark
\* Only the side that steps changes.
<1>c. ASSUME NEW s \in Sides, UNCHANGED <<link, dark>>, Fine(s),
             pending'[Peer(s)] = pending[Peer(s)], since'[Peer(s)] = since[Peer(s)],
             ticked'[Peer(s)] = ticked[Peer(s)], phase'[Peer(s)] = phase[Peer(s)],
             open'[Peer(s)] = open[Peer(s)]
      PROVE  DarkInv'
  <2>1. Fine(Peer(s))
    BY <1>c, TwoSides, DarkKept
  <2>2. QED
    BY <1>a, <1>c, <2>1
<1>1. CASE Clock
  <2>1. (link' # "down" => dark' = 0) /\ dark \in Nat
    BY <1>1 DEF Clock, DarkInv, TypeOK
  <2>2. ASSUME NEW t \in Sides, open'[t], phase'[t] = "ready" PROVE Dark(t)'
    <3>1. /\ open[t] /\ phase[t] = "ready" /\ ticked[t] /\ ~ticked'[t] /\ Dark(t)
          /\ pending[t] \in Nat \cup {None} /\ since[t] \in Nat \cup {None}
          /\ pending'[t] = IF pending[t] = None THEN None ELSE pending[t] + 1
          /\ since'[t] = IF since[t] = None THEN None ELSE since[t] + 1
          /\ dark' = dark + 1 \/ dark' = 0
      BY <1>1, <2>2 DEF Clock, DarkInv, TypeOK
    <3>2. CASE pending[t] # None
      BY <2>1, <3>1, <3>2 DEF Dark
    <3>3. CASE pending[t] = None /\ since[t] # None
      BY <2>1, <3>1, <3>3 DEF Dark
    <3>4. CASE pending[t] = None /\ since[t] = None
      BY <2>1, <3>1, <3>4 DEF Dark
    <3>5. QED
      BY <3>2, <3>3, <3>4
  <2>3. QED
    BY <2>1, <2>2 DEF DarkInv
<1>2. CASE Cut
  BY <1>2 DEF Cut, DarkInv, Dark
<1>3. CASE Restore
  <2>1. /\ dark' = 0 /\ dark \in Nat
        /\ UNCHANGED <<pending, since, ticked, phase, open>>
    BY <1>3 DEF Restore, TypeOK
  <2>2. ASSUME NEW t \in Sides, open[t], phase[t] = "ready" PROVE Dark(t)'
    <3>1. /\ Dark(t) /\ pending[t] \in Nat \cup {None} /\ since[t] \in Nat \cup {None}
      BY <2>2 DEF DarkInv, TypeOK
    <3>2. QED
      BY <2>1, <3>1 DEF Dark
  <2>3. QED
    BY <2>1, <2>2 DEF DarkInv
<1>4. ASSUME NEW s \in Sides, Start(s) PROVE DarkInv'
  <2>1. /\ phase'[s] = "awaiting" /\ UNCHANGED <<link, dark, pending, since>>
        /\ ticked'[Peer(s)] = ticked[Peer(s)] /\ phase'[Peer(s)] = phase[Peer(s)]
        /\ open'[Peer(s)] = open[Peer(s)]
    BY <1>4, TwoSides DEF Start, TypeOK
  <2>2. QED
    BY <1>c, <2>1
<1>5. ASSUME NEW s \in Sides, OnHandshake(s) PROVE DarkInv'
  <2>1. phase[s] = "awaiting" /\ pending[s] = None /\ since[s] = None /\ dark = 0
    BY <1>5, Reader DEF OnHandshake, Reads, LifeInv, Life, DarkInv
  <2>2. /\ UNCHANGED <<link, dark, pending, since, ticked, open>>
        /\ phase'[Peer(s)] = phase[Peer(s)]
    BY <1>5, TwoSides DEF OnHandshake, TypeOK
  <2>3. Dark(s)'
    BY <2>1, <2>2 DEF Dark
  <2>4. QED
    BY <1>c, <2>2, <2>3
<1>6. ASSUME NEW s \in Sides, OnPong(s) PROVE DarkInv'
  <2>1. /\ dark = 0 /\ open[s] /\ Dark(s) /\ since[s] \in Nat \cup {None}
    BY <1>6, Reader DEF OnPong, Reads, DarkInv, TypeOK
  <2>2. /\ UNCHANGED <<link, dark, since, ticked, open, phase>>
        /\ pending'[s] \in {pending[s], None} /\ pending'[Peer(s)] = pending[Peer(s)]
    BY <1>6, TwoSides DEF OnPong, AfterPong, TypeOK
  <2>3. Dark(s)'
    BY <2>1, <2>2 DEF Dark
  <2>4. QED
    BY <1>c, <2>2, <2>3
<1>7. ASSUME NEW s \in Sides, OnPing(s) \/ OnClip(s) \/ Command(s) \/ SendClip(s)
      PROVE  DarkInv'
  BY <1>b, <1>7 DEF OnPing, OnClip, Command, SendClip
<1>8. ASSUME NEW s \in Sides, TicksOn(s) PROVE DarkInv'
  <2>1. /\ UNCHANGED <<link, dark, phase, open>> /\ open[s]
        /\ ticked'[s] /\ ticked'[Peer(s)] = ticked[Peer(s)]
    BY <1>8, TwoSides DEF TicksOn, OnTick, Baseline, Pings, Waits, TypeOK
  <2>2. /\ pending[s] \in Nat \cup {None} /\ since[s] \in Nat \cup {None} /\ dark \in Nat
        /\ phase[s] = "ready" => Dark(s)
    BY <2>1 DEF DarkInv, TypeOK
  <2>3. CASE Baseline(s)
    <3>1. /\ since'[s] = 0 /\ pending'[s] = None /\ since[s] = None /\ pending[s] = None
          /\ since'[Peer(s)] = since[Peer(s)] /\ pending'[Peer(s)] = pending[Peer(s)]
          /\ phase[s] = "ready"
      BY <2>3, TwoSides DEF Baseline, Outstanding, TypeOK
    <3>2. Dark(s)'
      BY <2>1, <2>2, <3>1 DEF Dark
    <3>3. QED
      BY <1>c, <2>1, <3>1, <3>2
  <2>4. CASE Pings(s)
    <3>1. /\ pending'[s] = 0 /\ since[s] # None /\ pending[s] = None
          /\ since'[Peer(s)] = since[Peer(s)] /\ pending'[Peer(s)] = pending[Peer(s)]
          /\ phase[s] = "ready"
      BY <2>4, TwoSides DEF Pings, Due, Outstanding, TypeOK
    <3>2. Dark(s)'
      BY <2>1, <2>2, <3>1 DEF Dark
    <3>3. QED
      BY <1>c, <2>1, <3>1, <3>2
  <2>5. CASE Waits(s)
    <3>1. /\ UNCHANGED <<pending, since>>
          /\ \/ phase[s] # "ready"
             \/ pending[s] # None /\ pending[s] < 3 * K
             \/ pending[s] = None /\ since[s] # None /\ since[s] < K
      BY <2>2, <2>5 DEF Waits, Outstanding, Due, PongTimeout
    <3>2. Fine(s)
      BY <2>1, <2>2, <3>1 DEF Dark
    <3>3. QED
      BY <1>c, <2>1, <3>1, <3>2
  <2>6. QED
    BY <1>8, <2>3, <2>4, <2>5 DEF TicksOn
<1>9. ASSUME NEW s \in Sides, EndsHere(s) PROVE DarkInv'
  <2>1. PICK why \in Reasons \ {"none"} : Ends(s, why)
    BY <1>9, EndingSteps
  <2>2. ~open'[s] /\ open'[Peer(s)] = open[Peer(s)]
    BY <2>1, Ending
  <2>3. /\ UNCHANGED <<link, dark, phase, since>> /\ pending'[Peer(s)] = pending[Peer(s)]
        /\ ticked'[Peer(s)] = ticked[Peer(s)]
    BY <1>9, EndingSteps
  <2>4. QED
    BY <1>c, <2>2, <2>3
<1>10. CASE UNCHANGED vars
  BY <1>b, <1>10 DEF vars
<1>11. QED
  BY <1>1, <1>2, <1>3, <1>4, <1>5, <1>6, <1>7, <1>8, <1>9, <1>10, Steps

-----------------------------------------------------------------------------
(* The theorems.                                                             *)

IInv == TypeOK /\ LifeInv /\ GreetInv /\ AgeInv /\ RoundTripInv /\ DarkInv

\* The invariants of the two tasks, their clocks and the two directions of the stream.
THEOREM Invariant == Spec => []IInv
<1>1. Init => IInv
  BY InitAll DEF IInv
<1>2. IInv /\ [Next]_vars => IInv'
  BY TypeStep, LifeStep, GreetStep, AgeStep, RoundTripStep, DarkStep DEF IInv
<1>3. QED
  BY <1>1, <1>2, PTL DEF Spec

\* Both ends' state stays in its ranges.
THEOREM TypeCorrect == Spec => []TypeOK
<1>1. IInv => TypeOK
  BY DEF IInv
<1>2. QED
  BY <1>1, Invariant, PTL

\* What on_message ignores -- a message before Ready, a pong that nobody waits for --
\* never comes from a peer of the same build.
THEOREM IgnoredCorrect == Spec => []NothingIgnored
<1>1. IInv => NothingIgnored
  <2> SUFFICES ASSUME IInv, NEW s \in Sides, open[s], chan[s] # <<>>
               PROVE  LET m == Head(chan[s]) IN
                      /\ phase[s] # "unborn"
                      /\ m.kind = "handshake" <=> phase[s] = "awaiting"
                      /\ m.kind = "pong" => pending[s] # None /\ m.nonce = nonce[s]
    BY DEF NothingIgnored
  <2> USE DEF IInv
  <2>1. phase[s] # "unborn" /\ ~Ended(s) /\ chan[s] \in Seq(Messages)
    BY DEF LifeInv, Life, TypeOK
  <2>2. phase[s] = "ready" => Head(chan[s]).kind # "handshake"
    BY <2>1, Taking DEF GreetInv, Greet
  <2>3. phase[s] = "awaiting" => Head(chan[s]).kind = "handshake"
    BY <2>1, Taking DEF GreetInv, Greet
  <2>4. phase[s] = "ready" \/ phase[s] = "awaiting"
    BY <2>1 DEF TypeOK
  <2>5. ASSUME Head(chan[s]).kind = "pong"
        PROVE  pending[s] # None /\ Head(chan[s]).nonce = nonce[s]
    <3>1. RoundTrip(s) /\ ~Free(chan[s], "pong")
      BY <2>1, <2>5, Taking DEF RoundTripInv
    <3>2. pending[s] # None /\ PongBack(s)
      BY <3>1 DEF RoundTrip, Nothing, PingOut
    <3>3. QED
      BY <2>1, <2>5, <3>2, Taking DEF PongBack
  <2>6. QED
    BY <2>1, <2>2, <2>3, <2>4, <2>5
<1>2. QED
  BY <1>1, Invariant, PTL

\* A peer that went dark is noticed within four keepalive intervals and a tick.
THEOREM DarkCorrect == Spec => []DeadPeerNoticed
<1>1. IInv => DeadPeerNoticed
  <2> SUFFICES ASSUME IInv, NEW s \in Sides, open[s], phase[s] = "ready"
               PROVE  dark <= 4 * K + 1
    BY DEF DeadPeerNoticed
  <2>1. /\ Dark(s) /\ dark \in Nat
        /\ pending[s] \in Nat \cup {None} /\ since[s] \in Nat \cup {None}
    BY DEF IInv, DarkInv, TypeOK
  <2>2. QED
    BY <2>1 DEF Dark
<1>2. QED
  BY <1>1, Invariant, PTL

\* A live peer is not given up while the link is up, if a round trip always stays below
\* the three intervals a ping is waited for.
THEOREM TimeoutCorrect == ASSUME 2 * Delay < 3 * K PROVE Spec => NoFalseTimeout
<1>1. ASSUME IInv, [Next]_vars, NEW s \in Sides,
             reason[s] # "timeout", reason'[s] = "timeout", link = "up", open[Peer(s)]
      PROVE  FALSE
  <2>1. OnTick(s) /\ TimesOut(s)
    <3>1. ASSUME NEW t \in Sides, EndsHere(t) PROVE OnTick(s) /\ TimesOut(s)
      <4>1. ASSUME NEW why \in Reasons, Ends(t, why) PROVE t = s /\ why = "timeout"
        BY <1>1, <4>1, TwoSides DEF Ends, IInv, TypeOK
      <4>2. CASE OnMismatch(t) \/ Lost(t)
        <5>1. \E why \in {"mismatch", "lost", "framing"} : Ends(t, why)
          BY <4>2 DEF OnMismatch, Lost
        <5>2. QED
          BY <4>1, <5>1 DEF Reasons
      <4>3. CASE OnTick(t) /\ TimesOut(t)
        <5>1. Ends(t, "timeout") /\ "timeout" \in Reasons
          BY <4>3 DEF TimesOut, Reasons
        <5>2. QED
          BY <4>1, <4>3, <5>1
      <4>4. QED
        BY <3>1, <4>2, <4>3 DEF EndsHere
    <3>2. UNCHANGED reason => FALSE
      BY <1>1
    <3>3. \A t \in Sides :
             (\/ Start(t) \/ OnHandshake(t) \/ OnPing(t) \/ OnPong(t) \/ OnClip(t)
              \/ Command(t) \/ SendClip(t) \/ TicksOn(t)) => UNCHANGED reason
      BY DEF Start, OnHandshake, OnPing, OnPong, OnClip, Command, SendClip, TicksOn,
             Baseline, Pings, Waits
    <3>4. Clock \/ Cut \/ Restore \/ UNCHANGED vars => UNCHANGED reason
      BY DEF Clock, Cut, Restore, vars
    <3>5. QED
      BY <1>1, <3>1, <3>2, <3>3, <3>4, Steps
  <2>2. /\ open[s] /\ pending[s] # None /\ pending[s] >= 3 * K /\ pending[s] \in Nat
    BY <1>1, <2>1 DEF OnTick, TimesOut, Outstanding, PongTimeout, IInv, TypeOK
  <2>3. /\ ~Ended(s) /\ ~Ended(Peer(s))
    BY <1>1, <2>2, TwoSides DEF IInv, LifeInv, Life
  <2>4. PingOut(s) \/ PongBack(s)
    BY <1>1, <2>2, <2>3 DEF IInv, RoundTripInv, RoundTrip
  <2>5. /\ chan[s] \in Seq(Messages) /\ Young(chan[s])
        /\ chan[Peer(s)] \in Seq(Messages) /\ Young(chan[Peer(s)])
    BY <1>1, TwoSides DEF IInv, TypeOK, AgeInv
  <2>6. AtLeast(pending[s]) = pending[s] /\ AtLeast(pending[s] - Delay) = pending[s] - Delay
    BY <1>1 DEF AtLeast
  <2>7. PingOut(s) => pending[s] <= Delay
    BY <2>2, <2>5, <2>6, OneYoung DEF PingOut
  <2>8. PongBack(s) => pending[s] - Delay <= Delay
    BY <2>2, <2>5, <2>6, OneYoung DEF PongBack
  <2>9. QED
    BY <2>2, <2>4, <2>7, <2>8
<1>2. IInv /\ [Next]_vars =>
         [\A s \in Sides :
             reason[s] # "timeout" /\ reason'[s] = "timeout" => link # "up" \/ ~open[Peer(s)]]_vars
  BY <1>1
<1>3. QED
  BY <1>2, Invariant, PTL DEF Spec, NoFalseTimeout
=============================================================================
