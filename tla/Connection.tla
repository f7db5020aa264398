----------------------------- MODULE Connection -----------------------------
(***************************************************************************)
(* One control stream between a phone and the daemon: on each side a        *)
(* ConnectionMachine (handshake, keepalive) and the task `drive` that feeds *)
(* it one event at a time -- a decoded message, a tick, a clipboard command *)
(* -- and carries out what it answers.                                     *)
(*                                                                         *)
(* The stream is reliable and ordered.  Time is counted in TICK_PERIODs: a  *)
(* side ticks once in each of them, before or after its other events, and  *)
(* while the link is good a message is read at most Delay of them after it  *)
(* was sent.                                                               *)
(***************************************************************************)
EXTENDS Integers, Sequences

CONSTANTS
    K,        \* keepalive_interval, in ticks
    Delay,    \* longest way of a message, on a good link, in ticks
    MaxClips, \* bound: clipboards on their way, both directions together
    Horizon   \* bound: how long the link may stay dark, in ticks

ASSUME TimeAssumption == K \in Nat \ {0} /\ Delay \in Nat /\ Horizon \in Nat
ASSUME ClipAssumption == MaxClips \in Nat

Sides == {"phone", "daemon"}
Peer(s) == IF s = "phone" THEN "daemon" ELSE "phone"
None == -1

VARIABLES
    link,     \* "up", silently "down", or "back" after it was down
    dark,     \* ticks the link has been down
    agree,    \* both builds have the same PROTOCOL_VERSION
    phase,    \* ConnectionMachine.phase, "unborn" until its drive task starts
    open,     \* the drive task runs
    reason,   \* the CloseReason its Closed event carried
    since,    \* ticks since last_ping_sent, or None
    pending,  \* ticks since pending_ping was sent, or None
    nonce,    \* the nonce of the last ping: a fresh one differs from the last
    commands, \* clipboards the app has handed to SessionHandle
    ticked,   \* the tick of this period has been handled
    chan      \* messages on their way to a side

clockVars == <<since, pending, nonce>>
vars == <<link, dark, agree, phase, open, reason, clockVars, commands, ticked, chan>>

Kinds == {"handshake", "ping", "pong", "clip"}
Reasons == {"none", "mismatch", "timeout", "lost", "framing"}
Message(kind, n) == [kind |-> kind, nonce |-> n, age |-> 0]
Messages == [kind : Kinds, nonce : 0..1, age : Nat]

TypeOK ==
    /\ link \in {"up", "down", "back"} /\ dark \in Nat /\ agree \in BOOLEAN
    /\ phase \in [Sides -> {"unborn", "awaiting", "ready"}]
    /\ open \in [Sides -> BOOLEAN] /\ ticked \in [Sides -> BOOLEAN]
    /\ reason \in [Sides -> Reasons]
    /\ since \in [Sides -> Nat \cup {None}] /\ pending \in [Sides -> Nat \cup {None}]
    /\ nonce \in [Sides -> 0..1] /\ commands \in [Sides -> Nat]
    /\ chan \in [Sides -> Seq(Messages)]

-----------------------------------------------------------------------------
Init ==
    /\ link = "up" /\ dark = 0 /\ agree \in BOOLEAN
    /\ phase = [s \in Sides |-> "unborn"] /\ open = [s \in Sides |-> FALSE]
    /\ reason = [s \in Sides |-> "none"]
    /\ since = [s \in Sides |-> None] /\ pending = [s \in Sides |-> None]
    /\ nonce = [s \in Sides |-> 0] /\ commands = [s \in Sides |-> 0]
    /\ ticked = [s \in Sides |-> TRUE] /\ chan = [s \in Sides |-> <<>>]

\* Write a message to the control stream; nobody reads it once the peer's task ended.
Ended(s) == reason[s] # "none"
Sent(s, kind, n) ==
    IF Ended(Peer(s)) THEN UNCHANGED chan
    ELSE chan' = [chan EXCEPT ![Peer(s)] = Append(@, Message(kind, n))]

\* The drive task sends Closed and returns, dropping both halves of the stream.
Ends(s, why) ==
    /\ open' = [open EXCEPT ![s] = FALSE]
    /\ reason' = [reason EXCEPT ![s] = why]
    /\ chan' = [chan EXCEPT ![s] = <<>>]

\* Either side begins with its own handshake; mutated, the phone waits for the other.
GreetsSecond(s) == IF s = "phone" THEN UNCHANGED chan ELSE Sent(s, "handshake", 0)
Greets(s) == Sent(s, "handshake", 0)

\* The phone opens the stream at once, the daemon when its first bytes arrive.
Start(s) ==
    /\ phase[s] = "unborn"
    /\ link # "down"
    /\ s = "phone" \/ chan[s] # <<>>
    /\ phase' = [phase EXCEPT ![s] = "awaiting"]
    /\ open' = [open EXCEPT ![s] = TRUE]
    /\ ticked' = [ticked EXCEPT ![s] = FALSE]
    /\ Greets(s)
    /\ UNCHANGED <<link, dark, agree, reason, clockVars, commands>>

-----------------------------------------------------------------------------
(* Messages.                                                                *)

\* read_message returned the next message.
Reads(s, kind) ==
    /\ open[s]
    /\ link # "down"
    /\ chan[s] # <<>>
    /\ Head(chan[s]).kind = kind

Take(s) == chan' = [chan EXCEPT ![s] = Tail(@)]

\* The peer's handshake: Ready with our version, Reject and the end of the task with
\* another.  A second one is out of place, and ignored, like every message but a
\* handshake before Ready.
OnHandshake(s) ==
    /\ Reads(s, "handshake")
    /\ agree \/ phase[s] # "awaiting"
    /\ phase' = [phase EXCEPT ![s] = "ready"]
    /\ Take(s)
    /\ UNCHANGED <<link, dark, agree, open, reason, clockVars, commands, ticked>>

OnMismatch(s) ==
    /\ Reads(s, "handshake")
    /\ ~agree /\ phase[s] = "awaiting"
    /\ Ends(s, "mismatch")
    /\ UNCHANGED <<link, dark, agree, phase, clockVars, commands, ticked>>

\* A ping is echoed.
OnPing(s) ==
    /\ Reads(s, "ping")
    /\ LET echo == Message("pong", Head(chan[s]).nonce) IN
       IF phase[s] = "ready" /\ ~Ended(Peer(s))
       THEN chan' = [chan EXCEPT ![s] = Tail(@), ![Peer(s)] = Append(@, echo)]
       ELSE Take(s)
    /\ UNCHANGED <<link, dark, agree, phase, open, reason, clockVars, commands, ticked>>

\* The pong that is waited for completes the round trip, another one does not.
AfterPong(s) ==
    IF phase[s] = "ready" /\ Head(chan[s]).nonce = nonce[s] THEN None ELSE pending[s]

OnPong(s) ==
    /\ Reads(s, "pong")
    /\ pending' = [pending EXCEPT ![s] = AfterPong(s)]
    /\ Take(s)
    /\ UNCHANGED <<link, dark, agree, phase, open, reason, since, nonce, commands, ticked>>

\* A clipboard goes up to the app.
OnClip(s) ==
    /\ Reads(s, "clip")
    /\ Take(s)
    /\ UNCHANGED <<link, dark, agree, phase, open, reason, clockVars, commands, ticked>>

Receive(s) ==
    OnHandshake(s) \/ OnMismatch(s) \/ OnPing(s) \/ OnPong(s) \/ OnClip(s)

-----------------------------------------------------------------------------
(* The app's clipboards.                                                    *)

\* The clipboards one side's app has sent and the other side has not read.
OnTheirWay(s) == commands[s] + Len(SelectSeq(chan[Peer(s)], LAMBDA m : m.kind = "clip"))

\* SessionHandle::send_clipboard only queues.
Command(s) ==
    /\ open[s]
    /\ OnTheirWay(s) + OnTheirWay(Peer(s)) < MaxClips
    /\ commands' = [commands EXCEPT ![s] = @ + 1]
    /\ UNCHANGED <<link, dark, agree, phase, open, reason, clockVars, ticked, chan>>

\* drive takes a command: the machine sends it, or drops it when it is not Ready.
SendClip(s) ==
    /\ open[s]
    /\ commands[s] > 0
    /\ commands' = [commands EXCEPT ![s] = @ - 1]
    /\ IF phase[s] = "ready" THEN Sent(s, "clip", 0) ELSE UNCHANGED chan
    /\ UNCHANGED <<link, dark, agree, phase, open, reason, clockVars, ticked>>

-----------------------------------------------------------------------------
(* Keepalive.                                                               *)

\* How old a ping may get; mutated, one interval.
PongTimeoutTooShort == K
PongTimeout == 3 * K

\* A ping is being waited for; mutated, nobody looks.
NeverOutstanding(s) == FALSE
Outstanding(s) == pending[s] # None

\* An interval has passed since the last ping; mutated, none ever has.
NeverDue(s) == FALSE
Due(s) == since[s] # None /\ since[s] >= K

\* The nonce of the next ping, random and so not the last one's; mutated, a counter.
CountedNonce(s) == nonce[s] + 1
FreshNonce(s) == 1 - nonce[s]

\* on_tick's cases.  A pending ping is given up when it is too old ...
TimesOut(s) ==
    /\ phase[s] = "ready" /\ Outstanding(s) /\ pending[s] >= PongTimeout
    /\ pending' = [pending EXCEPT ![s] = None]
    /\ Ends(s, "timeout")
    /\ UNCHANGED <<since, nonce>>

\* ... the first tick after becoming Ready is the baseline ...
Baseline(s) ==
    /\ phase[s] = "ready" /\ ~Outstanding(s) /\ since[s] = None
    /\ since' = [since EXCEPT ![s] = 0]
    /\ UNCHANGED <<open, reason, pending, nonce, chan>>

\* ... a ping goes out when it is due ...
Pings(s) ==
    /\ phase[s] = "ready" /\ ~Outstanding(s) /\ Due(s)
    /\ since' = [since EXCEPT ![s] = 0]
    /\ pending' = [pending EXCEPT ![s] = 0]
    /\ nonce' = [nonce EXCEPT ![s] = FreshNonce(s)]
    /\ Sent(s, "ping", FreshNonce(s))
    /\ UNCHANGED <<open, reason>>

\* ... and every other tick does nothing.
Waits(s) ==
    /\ \/ phase[s] # "ready"
       \/ Outstanding(s) /\ pending[s] < PongTimeout
       \/ ~Outstanding(s) /\ since[s] # None /\ ~Due(s)
    /\ UNCHANGED <<open, reason, clockVars, chan>>

OnTick(s) ==
    /\ open[s]
    /\ ~ticked[s]
    /\ ticked' = [ticked EXCEPT ![s] = TRUE]
    /\ TimesOut(s) \/ Baseline(s) \/ Pings(s) \/ Waits(s)
    /\ UNCHANGED <<link, dark, agree, phase, commands>>

-----------------------------------------------------------------------------
(* The world: time, the link, and the end of the connection.                *)

\* A period ends once every running task has had its tick, and on a good link
\* nothing has been under way to a running task for longer than Delay.
Clock ==
    LET Older(n) == IF n = None THEN None ELSE n + 1 IN
    /\ \A s \in Sides : open[s] => ticked[s]
    /\ link = "up" =>
          \A s \in Sides : open[s] => \A i \in 1..Len(chan[s]) : chan[s][i].age < Delay
    /\ link = "down" => dark < Horizon
    /\ dark' = IF link = "down" THEN dark + 1 ELSE dark
    /\ ticked' = [s \in Sides |-> ~open[s]]
    /\ since' = [s \in Sides |-> IF open[s] THEN Older(since[s]) ELSE since[s]]
    /\ pending' = [s \in Sides |-> IF open[s] THEN Older(pending[s]) ELSE pending[s]]
    /\ chan' = [s \in Sides |-> [i \in 1..Len(chan[s]) |->
                   IF chan[s][i].age < Delay
                   THEN [chan[s][i] EXCEPT !.age = @ + 1] ELSE chan[s][i]]]
    /\ UNCHANGED <<link, agree, phase, open, reason, nonce, commands>>

\* Wi-Fi goes, silently ...
Cut ==
    /\ link = "up"
    /\ link' = "down"
    /\ UNCHANGED <<dark, agree, phase, open, reason, clockVars, commands, ticked, chan>>

\* ... and may come back: QUIC then delivers what it had to hold.
Restore ==
    /\ link = "down"
    /\ link' = "back" /\ dark' = 0
    /\ UNCHANGED <<agree, phase, open, reason, clockVars, commands, ticked, chan>>

\* connection.closed(), or a read or write that fails: closed by either app, reset
\* by a peer whose task has ended, or given up by QUIC itself.
Lost(s) ==
    /\ open[s]
    /\ \E why \in {"lost", "framing"} : Ends(s, why)
    /\ UNCHANGED <<link, dark, agree, phase, clockVars, commands, ticked>>

-----------------------------------------------------------------------------
Step(s) ==
    Start(s) \/ Receive(s) \/ Command(s) \/ SendClip(s) \/ OnTick(s) \/ Lost(s)

Next == Clock \/ Cut \/ Restore \/ \E s \in Sides : Step(s)

Spec == Init /\ [][Next]_vars

\* Time passes and drive's select! loop polls its streams and its ticker.
FairSpec ==
    /\ Spec
    /\ WF_vars(Clock)
    /\ \A s \in Sides : WF_vars(Start(s)) /\ WF_vars(Receive(s)) /\ WF_vars(OnTick(s))

-----------------------------------------------------------------------------
\* Between two machines of this code no message is ever ignored: a ping, a pong or a
\* clipboard finds its receiver Ready, because the handshake went before it on the
\* same stream, and a pong is always the one waited for.
NothingIgnored ==
    \A s \in Sides : open[s] /\ chan[s] # <<>> =>
        LET m == Head(chan[s]) IN
        /\ phase[s] # "unborn"
        /\ m.kind = "handshake" <=> phase[s] = "awaiting"
        /\ m.kind = "pong" => pending[s] # None /\ m.nonce = nonce[s]

\* A live peer on a good link is never declared dead, as long as a round trip stays
\* below three keepalive intervals -- not even when the pong and the tick that would
\* give up on it fall into the same period.
NoFalseTimeout ==
    [][\A s \in Sides :
          reason[s] # "timeout" /\ reason'[s] = "timeout" => link # "up" \/ ~open[Peer(s)]]_vars

\* A peer that went dark is noticed within four intervals: at most one (and the tick
\* that sets the baseline) until the next ping, three until it is given up.
DeadPeerNoticed ==
    \A s \in Sides : open[s] /\ phase[s] = "ready" => dark <= 4 * K + 1

\* A stream whose link stays up ends in both sides Ready, or in an end both can see.
HandshakeCompletes ==
    phase["phone"] = "awaiting" ~>
        \/ \A s \in Sides : phase[s] = "ready"
        \/ link # "up" \/ \E s \in Sides : reason[s] # "none"
=============================================================================
