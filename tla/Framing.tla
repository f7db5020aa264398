------------------------------ MODULE Framing ------------------------------
(***************************************************************************)
(* The control stream below its messages: write_message and read_message on *)
(* a QUIC stream of bytes, and the task `drive` that calls both.  One task  *)
(* reads and writes: while it is inside write_all it reads nothing, and     *)
(* whenever another branch of its select! is ready first, the read_message  *)
(* future is dropped, with all that it has consumed.                       *)
(*                                                                         *)
(* Bytes are counted in units, every message has the same number of them,  *)
(* and which message a frame carries is a choice made when it is decoded.   *)
(* Both ends run the same code, and the connection stays up until one of    *)
(* them, or QUIC's idle timeout, ends it.                                  *)
(***************************************************************************)
EXTENDS Integers

CONSTANTS
    Header,      \* units of a frame's length
    Body,        \* units of a frame's message
    Window,      \* units QUIC takes from the writer before the reader reads any
    Claims,      \* bound: lengths that units in the middle of a frame may read as
    Patience,    \* age at which a ping that was not answered is given up
    MaxCommands  \* bound: clipboards waiting in `commands`

Size == Header + Body

\* A clipboard has at most 100 KiB, a window 1.25 MB: any message fits into one.
ASSUME FrameAssumption ==
    Header \in Nat \ {0} /\ Body \in Nat \ {0} /\ Window \in Nat /\ Window >= Size
ASSUME BoundAssumption == Claims \subseteq Nat /\ Patience \in Nat /\ MaxCommands \in Nat

Ends == {"phone", "daemon"}
Peer(e) == IF e = "phone" THEN "daemon" ELSE "phone"
None == -1

VARIABLES
    left,      \* units of the message it is writing that QUIC has not taken yet
    flight,    \* units QUIC has taken from its peer and it has not read
    pos,       \* where in the peer's frame the next of them stands
    got,       \* units that the present call of read_message has consumed
    claim,     \* the length they say, None before the header is complete
    commands,  \* clipboards the app has handed over
    ping,      \* ticks since the ping it waits for was written, or None
    phase,     \* whether it has yet to read the peer's handshake, is past it, or Ready
    reason,    \* why its drive task ended, "none" while it runs
    cut        \* history: a call of its read_message was dropped half way

readVars == <<pos, got, claim, cut>>
vars == <<left, flight, readVars, commands, ping, phase, reason>>

Phases  == {"awaiting", "past", "ready"}
Reasons == {"none", "write", "lost", "toolarge", "decode", "version", "timeout"}

TypeOK ==
    /\ left \in [Ends -> 0..Size] /\ flight \in [Ends -> 0..Window]
    /\ pos \in [Ends -> 0..(Size - 1)] /\ got \in [Ends -> Nat]
    /\ claim \in [Ends -> Nat \cup {None}]
    /\ commands \in [Ends -> 0..MaxCommands]
    /\ ping \in [Ends -> (0..Patience) \cup {None}]
    /\ phase \in [Ends -> Phases] /\ reason \in [Ends -> Reasons]
    /\ cut \in [Ends -> BOOLEAN]

\* Both ends begin by writing their handshake.
Init ==
    /\ left = [e \in Ends |-> Size] /\ flight = [e \in Ends |-> 0]
    /\ pos = [e \in Ends |-> 0] /\ got = [e \in Ends |-> 0]
    /\ claim = [e \in Ends |-> None]
    /\ commands = [e \in Ends |-> 0] /\ ping = [e \in Ends |-> None]
    /\ phase = [e \in Ends |-> "awaiting"] /\ reason = [e \in Ends |-> "none"]
    /\ cut = [e \in Ends |-> FALSE]

Runs(e)    == reason[e] = "none"
Selects(e) == Runs(e) /\ left[e] = 0   \* drive waits in its select!
Writes(e)  == Runs(e) /\ left[e] > 0   \* drive is inside write_message
Ready(e)   == phase[e] = "ready"

Finish(e, why) == reason' = [reason EXCEPT ![e] = why]

-----------------------------------------------------------------------------
(* Writing.                                                                 *)

\* write_all hands QUIC one more unit of the message, when it takes any.
Write(e) ==
    /\ Writes(e)
    /\ flight[Peer(e)] < Window
    /\ left' = [left EXCEPT ![e] = @ - 1]
    /\ flight' = [flight EXCEPT ![Peer(e)] = @ + 1]
    /\ UNCHANGED <<readVars, commands, ping, phase, reason>>

\* Neither end reads, because both write, and neither can write.
Stuck == \A e \in Ends : Writes(e) /\ flight[Peer(e)] = Window

\* Neither end has anything to write: it is not Ready and pings nobody, or it waits for
\* a pong.  A Ready end that does not will ping before the timeout.
Mute ==
    \A e \in Ends : /\ Selects(e) /\ flight[e] = 0
                    /\ Ready(e) => ping[e] # None /\ commands[e] = 0

\* QUIC hears nothing for its max_idle_timeout and gives up: write_all fails, or
\* connection.closed() returns.  No keep-alive is configured below the one in the
\* messages.  Mutated, the endpoints are configured without that timeout.
NoIdleTimeout == FALSE
Silence == Stuck \/ Mute
IdleTimeout(e) ==
    /\ Runs(e)
    /\ Silence
    /\ Finish(e, IF left[e] > 0 THEN "write" ELSE "lost")
    /\ UNCHANGED <<left, flight, readVars, commands, ping, phase>>

\* The peer's task has ended and with it the streams, or the connection.
PeerGone(e) ==
    /\ Runs(e)
    /\ ~Runs(Peer(e))
    /\ Finish(e, IF left[e] > 0 THEN "write" ELSE "lost")
    /\ UNCHANGED <<left, flight, readVars, commands, ping, phase>>

-----------------------------------------------------------------------------
(* Reading.                                                                 *)

\* The read_message future is polled and consumes the next unit.
Consumes(e) ==
    /\ Selects(e)
    /\ flight[e] > 0
    /\ flight' = [flight EXCEPT ![e] = @ - 1]
    /\ pos' = [pos EXCEPT ![e] = IF @ = Size - 1 THEN 0 ELSE @ + 1]

\* With the last unit of the peer's first frame its handshake is behind the reader.
Passes(e) ==
    phase' = [phase EXCEPT ![e] = IF @ = "awaiting" /\ pos[e] = Size - 1 THEN "past" ELSE @]

\* What the units just consumed say: a header says how long the message is,
\* anything else whatever it happens to say.
InPlace(e) == pos[e] = got[e]
Lengths(e) == IF InPlace(e) THEN {Body} ELSE Claims

\* A unit, neither the last of the header nor the last of the body.
ReadOn(e) ==
    /\ Consumes(e)
    /\ IF claim[e] = None THEN got[e] + 1 < Header ELSE got[e] + 1 < Header + claim[e]
    /\ got' = [got EXCEPT ![e] = @ + 1]
    /\ Passes(e)
    /\ UNCHANGED <<left, claim, commands, ping, reason, cut>>

\* The header is complete and its length is at most MAX_FRAME_LEN: wait for as much.
ReadHeader(e) ==
    /\ Consumes(e)
    /\ claim[e] = None /\ got[e] + 1 = Header
    /\ \E n \in Lengths(e) \ {0} : claim' = [claim EXCEPT ![e] = n]
    /\ got' = [got EXCEPT ![e] = @ + 1]
    /\ Passes(e)
    /\ UNCHANGED <<left, commands, ping, reason, cut>>

\* Or the length is not to be believed, or it is zero and there is nothing to decode.
Refuse(e) ==
    /\ Consumes(e)
    /\ claim[e] = None /\ got[e] + 1 = Header
    /\ ~InPlace(e)
    /\ Finish(e, "toolarge") \/ (0 \in Claims /\ Finish(e, "decode"))
    /\ Passes(e)
    /\ UNCHANGED <<left, got, claim, commands, ping, cut>>

\* The next call of read_message; mutated, one that skips nothing of the last header.
RestartsInBody(e) == got' = [got EXCEPT ![e] = 1] /\ claim' = [claim EXCEPT ![e] = None]
Restarts(e) == got' = [got EXCEPT ![e] = 0] /\ claim' = [claim EXCEPT ![e] = None]

Complete(e) ==
    /\ Consumes(e)
    /\ claim[e] # None /\ got[e] + 1 = Header + claim[e]

\* The frame is complete and is a message: the handshake, if it is the first, after
\* which the machine is Ready; once it is, a ping, which is answered, the pong that is
\* waited for, or another one.  Before, anything else is ignored.
Deliver(e) ==
    /\ Complete(e)
    /\ InPlace(e) /\ claim[e] = Body
    /\ Restarts(e)
    /\ phase' = [phase EXCEPT ![e] = IF @ = "awaiting" THEN "ready" ELSE @]
    /\ \/ Ready(e) /\ left' = [left EXCEPT ![e] = Size] /\ UNCHANGED ping
       \/ Ready(e) /\ ping' = [ping EXCEPT ![e] = None] /\ UNCHANGED left
       \/ UNCHANGED <<left, ping>>
    /\ UNCHANGED <<commands, reason, cut>>

\* What is complete never was a frame: postcard fails on it, or makes some message of
\* its first bytes -- of all pongs not the one that is waited for (mutated: any pong
\* will do).
AnyPong(e) == ping' = [ping EXCEPT ![e] = None]
NotThePong(e) == UNCHANGED ping

\* While the machine awaits a handshake, the only message that matters is one, of the
\* right version or another.
Misread(e) ==
    /\ Complete(e)
    /\ ~(InPlace(e) /\ claim[e] = Body)
    /\ Restarts(e)
    /\ NotThePong(e)
    /\ \/ Passes(e) /\ UNCHANGED <<left, reason>>
       \/ Passes(e) /\ Finish(e, "decode") /\ UNCHANGED left
       \/ Ready(e) /\ left' = [left EXCEPT ![e] = Size] /\ UNCHANGED <<phase, reason>>
       \/ ~Ready(e) /\ phase' = [phase EXCEPT ![e] = "ready"] /\ UNCHANGED <<left, reason>>
       \/ ~Ready(e) /\ Passes(e) /\ Finish(e, "version") /\ UNCHANGED left
    /\ UNCHANGED <<commands, cut>>

Read(e) == ReadOn(e) \/ ReadHeader(e) \/ Refuse(e) \/ Deliver(e) \/ Misread(e)

-----------------------------------------------------------------------------
(* The other branches of select!, each of which drops the read.             *)

Drops(e) ==
    /\ Restarts(e)
    /\ cut' = [cut EXCEPT ![e] = @ \/ got[e] > 0]
    /\ UNCHANGED <<pos, flight>>

\* The app hands over a clipboard ...
Hand(e) ==
    /\ Runs(e)
    /\ commands[e] < MaxCommands
    /\ commands' = [commands EXCEPT ![e] = @ + 1]
    /\ UNCHANGED <<left, flight, readVars, ping, phase, reason>>

\* ... and drive takes it and, if Ready, writes it.
Command(e) ==
    /\ Selects(e)
    /\ commands[e] > 0
    /\ commands' = [commands EXCEPT ![e] = @ - 1]
    /\ left' = IF Ready(e) THEN [left EXCEPT ![e] = Size] ELSE left
    /\ Drops(e)
    /\ UNCHANGED <<ping, phase, reason>>

\* A tick in which nothing is due.
IdleTick(e) ==
    /\ Selects(e)
    /\ Drops(e)
    /\ UNCHANGED <<left, commands, ping, phase, reason>>

\* A ping that can still be answered; mutated, its age is never looked at.
NeverOld(e) == ping[e] # None
Young(e) == ping[e] # None /\ ping[e] < Patience

\* A tick in which a ping is, once the machine is Ready: it is written, grows older or
\* is given up.
PingTick(e) ==
    /\ Selects(e) /\ Ready(e)
    /\ Drops(e)
    /\ \/ /\ ping[e] = None
          /\ ping' = [ping EXCEPT ![e] = 0]
          /\ left' = [left EXCEPT ![e] = Size]
          /\ UNCHANGED reason
       \/ /\ Young(e)
          /\ ping' = [ping EXCEPT ![e] = @ + 1]
          /\ UNCHANGED <<left, reason>>
       \/ /\ ping[e] # None /\ ~Young(e)
          /\ Finish(e, "timeout")
          /\ UNCHANGED <<left, ping>>
    /\ UNCHANGED <<commands, phase>>

-----------------------------------------------------------------------------
Step(e) ==
    \/ Write(e) \/ IdleTimeout(e) \/ PeerGone(e) \/ Read(e)
    \/ Hand(e) \/ Command(e) \/ IdleTick(e) \/ PingTick(e)

Next == \E e \in Ends : Step(e)

Spec == Init /\ [][Next]_vars

\* QUIC and the runtime make progress; select! picks among its ready branches at
\* random, so that one which is ready again and again is picked.
FairSpec ==
    /\ Spec
    /\ \A e \in Ends :
        /\ WF_vars(Write(e)) /\ WF_vars(IdleTimeout(e)) /\ WF_vars(PeerGone(e))
        /\ SF_vars(Read(e)) /\ SF_vars(PingTick(e))

-----------------------------------------------------------------------------
\* As long as no read is dropped half way, every message that arrives is one that
\* was sent, whole: however messages, ticks, commands and full windows interleave,
\* the reader stays in step with the frames, and fails on none of them.
OnlyCutsGarble ==
    \A e \in Ends : ~cut[e] =>
        InPlace(e) /\ claim[e] \in {None, Body} /\ reason[e] \notin {"toolarge", "decode"}

\* A task inside write_all comes out of it, even when both ends write into full
\* windows and neither reads: QUIC's idle timeout is the only thing that helps then.
WritesEnd == \A e \in Ends : Writes(e) ~> (Selects(e) \/ ~Runs(e))

\* A reader that has lost its place does not stay like that: it meets an impossible
\* length or message, falls back into step, or, once Ready, misses the pong it waits
\* for.  One that lost it inside the handshake may never be Ready and then pings nobody:
\* its peer misses the pong that it does not send or, if neither is Ready, both fall
\* silent and QUIC's idle timeout is all that ends them.
OutOfStep(e) == Runs(e) /\ ~InPlace(e)
LostPlaceIsNoticed == \A e \in Ends : OutOfStep(e) ~> (~Runs(e) \/ InPlace(e))

-----------------------------------------------------------------------------
(* What the repository says of framing and its code does not keep.          *)

\* The limit on a frame's length is "generous for control messages" (framing.rs:10):
\* no frame of a peer that runs this code exceeds it.  A dropped read makes
\* the next four bytes of a message pass for a length.
OwnFramesFit == \A e \in Ends : reason[e] # "toolarge"
=============================================================================
