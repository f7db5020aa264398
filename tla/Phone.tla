------------------------------- MODULE Phone --------------------------------
(***************************************************************************)
(* The Android process: PenguinSyncCore with its reconnect loops, their     *)
(* forward_events tasks and the one slot `active_session`, and the app's    *)
(* connection handle and folded status on top.                             *)
(*                                                                         *)
(* Every pair() leaves two tasks on a runtime with two worker threads: the  *)
(* dialer (reconnect::run) and the forwarder of its events.  One step is    *)
(* what a task does between two awaits.  abort() only stops a dialer at an *)
(* await; what it was doing by then reaches nothing that startPairing reads, *)
(* so it counts as done before.  Events that only carry a clipboard or a    *)
(* round-trip time move nothing here and are left out.                     *)
(***************************************************************************)
EXTENDS Integers, Sequences, FiniteSets

CONSTANTS
    Hosts,       \* daemons whose QR code can be scanned
    MaxPairs,    \* bound: pair() calls in the life of one process
    MaxConns,    \* bound: connections in the life of one process
    MaxAttempt,  \* bound: where `attempt` saturates
    MaxEvents    \* bound: events a forwarder may be behind

ASSUME BoundsAssumption ==
    MaxPairs \in Nat /\ MaxConns \in Nat /\ MaxAttempt \in Nat /\ MaxEvents \in Nat

Pairs == 1..MaxPairs
Conns == 1..MaxConns
None  == 0

VARIABLES
    trust,     \* the TrustStore: pinned hosts
    peers,     \* peers.json
    host,      \* the host a pair() call's QR names
    dial,      \* where its dialer is
    token,     \* whether reconnect::run still holds its pairing_token
    presented, \* history: attempts that carried the token
    attempt,   \* failed or ended attempts since the last connection
    state,     \* a connection's life
    owner,     \* the dialer that made it
    rx,        \* DialerEvents on their way to the forwarder
    saving,    \* peers.json as the forwarder has read it, while it adds to it
    persisted, \* forward_events.persisted
    active,    \* PenguinSyncCore.active_session, or None
    handle,    \* PenguinSyncApp.connectionHandle, or None
    status     \* PenguinSyncApp.connectionStatus

dialVars == <<host, dial, token, presented, attempt>>
connVars == <<state, owner>>
fwdVars  == <<rx, saving, persisted>>
appVars  == <<handle, status>>
vars == <<trust, peers, dialVars, connVars, fwdVars, active, appVars>>

Event(kind, c) == [kind |-> kind, c |-> c]
Kinds == {"connected", "handshake", "closed", "reconnecting"}
NoSave == [busy |-> FALSE, read |-> {}]

TypeOK ==
    /\ trust \subseteq Hosts /\ peers \subseteq Hosts
    /\ host \in [Pairs -> Hosts \cup {None}]
    /\ dial \in [Pairs ->
            {"none", "spawned", "connecting", "draining", "sleeping", "cancelled"}]
    /\ token \in [Pairs -> BOOLEAN] /\ presented \in [Pairs -> Nat]
    /\ attempt \in [Pairs -> 0..MaxAttempt]
    /\ state \in [Conns -> {"none", "up", "ready", "dead"}]
    /\ owner \in [Conns -> Pairs \cup {None}]
    /\ rx \in [Pairs -> Seq([kind : Kinds, c : Conns \cup {None}])]
    /\ saving \in [Pairs -> [busy : BOOLEAN, read : SUBSET Hosts]]
    /\ persisted \in [Pairs -> BOOLEAN]
    /\ active \in Conns \cup {None} /\ handle \in Pairs \cup {None}
    /\ status \in {"NotPaired", "Connected", "Reconnecting", "Disconnected"}

-----------------------------------------------------------------------------
\* A new process: the pins come from peers.json, and nothing dials yet.
Fresh ==
    [trust     |-> peers,
     host      |-> [p \in Pairs |-> None],      dial      |-> [p \in Pairs |-> "none"],
     token     |-> [p \in Pairs |-> FALSE],     presented |-> [p \in Pairs |-> 0],
     attempt   |-> [p \in Pairs |-> 0],         state     |-> [c \in Conns |-> "none"],
     owner     |-> [c \in Conns |-> None],      rx        |-> [p \in Pairs |-> <<>>],
     saving    |-> [p \in Pairs |-> NoSave],    persisted |-> [p \in Pairs |-> FALSE]]

Init ==
    /\ peers \in SUBSET Hosts
    /\ trust = Fresh.trust /\ host = Fresh.host /\ dial = Fresh.dial
    /\ token = Fresh.token /\ presented = Fresh.presented /\ attempt = Fresh.attempt
    /\ state = Fresh.state /\ owner = Fresh.owner
    /\ rx = Fresh.rx /\ saving = Fresh.saving /\ persisted = Fresh.persisted
    /\ active = None /\ handle = None /\ status = "NotPaired"

\* Android kills the process; its connections go with it.
Restart ==
    /\ trust' = Fresh.trust /\ host' = Fresh.host /\ dial' = Fresh.dial
    /\ token' = Fresh.token /\ presented' = Fresh.presented /\ attempt' = Fresh.attempt
    /\ state' = Fresh.state /\ owner' = Fresh.owner
    /\ rx' = Fresh.rx /\ saving' = Fresh.saving /\ persisted' = Fresh.persisted
    /\ active' = None /\ handle' = None /\ status' = "NotPaired"
    /\ UNCHANGED peers

-----------------------------------------------------------------------------
(* The app.                                                                 *)

\* ConnectionHandle::cancel: the dialer is dropped at its await, and the session it
\* was draining with it.
Cancelled == IF handle = None THEN dial ELSE [dial EXCEPT ![handle] = "cancelled"]

\* startPairing with a QR that decodes: cancel the previous pair(), pin the host and
\* spawn the next dialer, which is given the token, and its forwarder.
StartPairing(p, h) ==
    /\ dial[p] = "none" /\ \A q \in Pairs : q < p => dial[q] # "none"
    /\ dial' = [Cancelled EXCEPT ![p] = "spawned"]
    /\ trust' = trust \cup {h}
    /\ host' = [host EXCEPT ![p] = h]
    /\ token' = [token EXCEPT ![p] = TRUE]
    /\ handle' = p
    /\ UNCHANGED <<peers, presented, attempt, connVars, fwdVars, active, status>>

\* With one that does not, or without a socket to dial from (the host is pinned by
\* then), pair() throws after the previous one was cancelled.
StartPairingFails ==
    /\ handle # None /\ dial[handle] # "cancelled"
    /\ dial' = Cancelled
    /\ trust' \in {trust} \cup {trust \cup {h} : h \in Hosts}
    /\ UNCHANGED <<peers, host, token, presented, attempt, connVars, fwdVars,
                   active, appVars>>

-----------------------------------------------------------------------------
(* A dialer.                                                                *)

Tell(p, events) == rx' = [rx EXCEPT ![p] = @ \o events]

\* Whether the coming attempt has a token to present: take() leaves none to the next
\* one (mutated: each is given a clone).
TokenCloned(p) == TRUE
TokenLeft(p) == token[p]

\* The first attempt, or the next one when the sleep is over.
Attempt(p) ==
    /\ dial[p] \in {"spawned", "sleeping"}
    /\ dial' = [dial EXCEPT ![p] = "connecting"]
    /\ presented' = [presented EXCEPT ![p] = IF TokenLeft(p) THEN @ + 1 ELSE @]
    /\ token' = [token EXCEPT ![p] = FALSE]
    /\ UNCHANGED <<trust, peers, host, attempt, connVars, fwdVars, active, appVars>>

\* connect_once succeeds, with a host that is pinned; the session's drive task runs
\* on its own from here.
Connect(p, c) ==
    /\ dial[p] = "connecting"
    /\ host[p] \in trust
    /\ Len(rx[p]) < MaxEvents
    /\ state[c] = "none" /\ \A b \in Conns : b < c => state[b] # "none"
    /\ state' = [state EXCEPT ![c] = "up"]
    /\ owner' = [owner EXCEPT ![c] = p]
    /\ attempt' = [attempt EXCEPT ![p] = 0]
    /\ Tell(p, <<Event("connected", c)>>)
    /\ dial' = [dial EXCEPT ![p] = "draining"]
    /\ UNCHANGED <<trust, peers, host, token, presented, saving, persisted, active, appVars>>

\* saturating_add, where the counter's width is MaxAttempt; mutated, it does not stop.
AttemptOverflows(p) == attempt[p] + 1
NextAttempt(p) == IF attempt[p] < MaxAttempt THEN attempt[p] + 1 ELSE attempt[p]

\* The end of an attempt: announced, counted, and followed by a sleep.
Retry(p, events) ==
    /\ Tell(p, Append(events, Event("reconnecting", None)))
    /\ attempt' = [attempt EXCEPT ![p] = NextAttempt(p)]
    /\ dial' = [dial EXCEPT ![p] = "sleeping"]

\* connect_once fails.
ConnectFails(p) ==
    /\ dial[p] = "connecting"
    /\ Len(rx[p]) < MaxEvents
    /\ Retry(p, <<>>)
    /\ UNCHANGED <<trust, peers, host, token, presented, connVars, saving, persisted,
                   active, appVars>>

\* The dialer still drains the session of connection c.
Drains(c) ==
    /\ state[c] # "none" /\ dial[owner[c]] = "draining"
    /\ \A b \in Conns : owner[b] = owner[c] => b <= c

\* The peer's handshake came in; nobody hears of it once the session was dropped.
Greet(c) ==
    /\ state[c] = "up"
    /\ state' = [state EXCEPT ![c] = "ready"]
    /\ IF Drains(c) THEN Tell(owner[c], <<Event("handshake", c)>>) ELSE UNCHANGED rx
    /\ UNCHANGED <<trust, peers, dialVars, owner, saving, persisted, active, appVars>>

\* The connection ends and its drive task with it, for any reason.
Die(c) ==
    /\ state[c] \in {"up", "ready"}
    /\ state' = [state EXCEPT ![c] = "dead"]
    /\ UNCHANGED <<trust, peers, dialVars, owner, fwdVars, active, appVars>>

\* What drain waits for; mutated, it returns with the handshake, or the drive task
\* ends without a word.
HandshakeSeen(c) == state[c] \in {"ready", "dead"}
NothingSeen(c) == FALSE
ClosedSeen(c) == state[c] = "dead"

\* drain returns with Closed, and the loop goes round.
Drained(c) ==
    /\ Drains(c) /\ ClosedSeen(c)
    /\ Retry(owner[c], <<Event("closed", c)>>)
    /\ UNCHANGED <<trust, peers, host, token, presented, connVars, saving, persisted,
                   active, appVars>>

-----------------------------------------------------------------------------
(* A forwarder.                                                             *)

\* ConnectionStatus.reduce; mutated, a connection counts before its handshake.
ReduceEarly(kind) ==
    CASE kind \in {"connected", "handshake"} -> "Connected"
      [] kind = "reconnecting" -> "Reconnecting"
      [] kind = "closed"       -> "Disconnected"
Reduce(kind) ==
    CASE kind = "handshake"    -> "Connected"
      [] kind = "reconnecting" -> "Reconnecting"
      [] kind = "closed"       -> "Disconnected"
      [] OTHER                 -> status

\* The slot after an event: a new connection's handle, nothing after a Closed
\* (mutated: a Closed leaves the handle there).
KeepSession(e) == IF e.kind = "connected" THEN e.c ELSE active
NextSession(e) ==
    IF e.kind = "connected" THEN e.c ELSE IF e.kind = "closed" THEN None ELSE active

Oldest(p) == Head(rx[p])
ToSave(p) == Oldest(p).kind = "handshake" /\ ~persisted[p]

\* The next event: the slot first, then the app's listener.
Forward(p) ==
    /\ rx[p] # <<>> /\ ~ToSave(p)
    /\ active' = NextSession(Oldest(p))
    /\ status' = Reduce(Oldest(p).kind)
    /\ rx' = [rx EXCEPT ![p] = Tail(@)]
    /\ UNCHANGED <<trust, peers, dialVars, connVars, saving, persisted, handle>>

\* The first handshake is persisted before the app hears of it: read peers.json ...
LoadPeers(p) ==
    /\ rx[p] # <<>> /\ ToSave(p) /\ ~saving[p].busy
    /\ saving' = [saving EXCEPT ![p] = [busy |-> TRUE, read |-> peers]]
    /\ UNCHANGED <<trust, peers, dialVars, connVars, rx, persisted, active, appVars>>

\* ... and replace it by what was read and the host (or fail, which is only logged).
SavePeers(p) ==
    /\ saving[p].busy
    /\ peers' \in {peers, saving[p].read \cup {host[p]}}
    /\ saving' = [saving EXCEPT ![p] = NoSave]
    /\ persisted' = [persisted EXCEPT ![p] = TRUE]
    /\ UNCHANGED <<trust, dialVars, connVars, rx, active, appVars>>

-----------------------------------------------------------------------------
Dialer(p) ==
    \/ Attempt(p) \/ ConnectFails(p)
    \/ \E c \in Conns : Connect(p, c) \/ (owner[c] = p /\ Drained(c))

Forwarder(p) == Forward(p) \/ LoadPeers(p) \/ SavePeers(p)

Next ==
    \/ Restart \/ StartPairingFails
    \/ \E p \in Pairs, h \in Hosts : StartPairing(p, h)
    \/ \E p \in Pairs : Dialer(p) \/ Forwarder(p)
    \/ \E c \in Conns : Greet(c) \/ Die(c)

Spec == Init /\ [][Next]_vars

\* Both tasks of a pair() are polled; an attempt succeeds or fails, a sleep ends.
FairSpec == Spec /\ \A p \in Pairs : WF_vars(Dialer(p)) /\ WF_vars(Forwarder(p))

-----------------------------------------------------------------------------
\* The token of a scan leaves the phone in one attempt at most, however often its
\* dialer reconnects.
TokenOnce == \A p \in Pairs : presented[p] <= 1

\* A dialer never has two connections at once, live or still to be reported closed:
\* it drains one to its Closed before it dials again.
OneAtATime ==
    \A b, c \in Conns : b # c /\ owner[b] = owner[c] /\ owner[b] # None =>
        "dead" \in {state[b], state[c]}

\* While the first pair() is left alone, and every event has been forwarded, the slot
\* holds the live connection, or nothing if there is none.
Quiet ==
    /\ \A p \in Pairs : rx[p] = <<>> /\ ~saving[p].busy
    /\ \A c \in Conns : ~(Drains(c) /\ state[c] = "dead")
Live(c) == state[c] \in {"up", "ready"}
SlotIsLive ==
    Quiet /\ (\A p \in Pairs : dial[p] # "cancelled") =>
        \A c \in Conns : active = c <=> Live(c)

\* The same of what the app shows: it says connected exactly when a handshake has
\* been exchanged on a live connection.
StatusIsTrue ==
    Quiet /\ (\A p \in Pairs : dial[p] # "cancelled") =>
        (status = "Connected" <=> \E c \in Conns : state[c] = "ready")

\* A dialer keeps trying for ever: the end of its connection leads to another attempt.
KeepsDialing ==
    \A c \in Conns : state[c] = "dead" /\ Drains(c) ~>
        state[c] = "none" \/ dial[owner[c]] \in {"connecting", "cancelled"}

-----------------------------------------------------------------------------
(* What the repository says of the phone and its code does not keep.        *)

\* "`pairing_token` is consumed on the first successful connection only"
\* (reconnect.rs:41): before that one, a waiting dialer still has it.
TokenUntilConnected ==
    \A p \in Pairs : dial[p] = "sleeping" /\ ~(\E c \in Conns : owner[c] = p) => token[p]

\* "Errs rather than silently dropping when nothing is connected" (core.rs:212): once
\* every event has been forwarded, a handle in the slot is one of a live connection.
SendErrsWhenDead == Quiet => active = None \/ Live(active)
=============================================================================
