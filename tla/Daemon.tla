------------------------------- MODULE Daemon -------------------------------
(***************************************************************************)
(* The Linux daemon between the network and D-Bus: the TLS trust store, the *)
(* pairing token and its window, the orchestrator task that consumes the   *)
(* listener's events one at a time, the D-Bus methods that run beside it,   *)
(* and devices.json.                                                       *)
(*                                                                         *)
(* Grain: one step per stretch of code between two points where another    *)
(* task can change what the stretch reads or writes; two actions are merged *)
(* only where every other writer commutes with them, which they then say.   *)
(* The orchestrator (OrchStep), every StartPairing and Unpair call,         *)
(* ConfirmPairing, the listener's per-connection tasks and the clock        *)
(* interleave freely.  One bound is in no constant: at most one Unpair call *)
(* per phone runs at a time.                                               *)
(***************************************************************************)
EXTENDS Integers, Sequences, FiniteSets

CONSTANTS
    Devices,      \* phones, by device id
    Remotes,      \* socket addresses phones dial from
    MaxSessions,  \* bound: connections open at once, as the daemon sees it
    MaxTokens,    \* bound: StartPairing calls in the life of one daemon process
    Unpairable,   \* bound: phones whose Unpair a client calls
    TTL,          \* TOKEN_TTL, in ticks of the clock
    Grace,        \* what await_confirmation waits beyond TOKEN_TTL
    SaveMayFail   \* whether writing devices.json can fail

ASSUME BoundsAssumption ==
    /\ MaxSessions \in Nat /\ MaxTokens \in Nat /\ Unpairable \subseteq Devices
    /\ TTL \in Nat \ {0} /\ Grace \in Nat
    /\ SaveMayFail \in BOOLEAN

Sessions == 1..MaxSessions
Tokens   == 1..MaxTokens
None     == 0

ASSUME NoneAssumption  == None \notin Devices \cup Remotes

VARIABLES
    trust,     \* TrustStore.paired
    window,    \* ticks until TrustStore.pairing_deadline, 0 when shut
    left,      \* ticks each token has before it expires
    minting,   \* tokens of StartPairing calls that have not stored them yet
    shown,     \* tokens whose StartPairing returned: their QR is on a screen
    current,   \* Shared.current_token's token, or None
    redeemed,  \* that token's `redeemed` flag
    prompts,   \* history: how many prompts each token has led to
    pending,   \* keys of Shared.pending_confirmations
    yes,       \* phones the human has accepted since their latest prompt
    state,     \* Shared.state
    disk,      \* devices.json
    unpairing, \* where the Unpair call for a phone is, if one runs
    objects,   \* phones with a Device1 object
    flag,      \* phones whose Device1 object says connected
    r2d,       \* Shared.remote_to_device
    handles,   \* Shared.remote_handles
    live,      \* Shared.connected_devices
    sess,      \* where a session is, and what the listener has reported of it
    from,      \* the address a session comes from
    who,       \* the device its handshake names: its word, compared with nothing
    token,     \* the token its handshake presents
    using,     \* the session a phone dialed last, the one its dialer is holding
    queue,     \* the mpsc channel of ListenerEvents
    at,        \* where the orchestrator is in its loop
    serving,   \* the session whose handshake it is in the middle of
    answer,    \* what the confirmation channel it waits on carries
    wait,      \* ticks until that wait times out
    passed     \* history: phones that shared an address with another one

pairingVars == <<window, left, minting, shown, current, redeemed, prompts>>
humanVars   == <<pending, yes>>
storeVars   == <<trust, state, disk, unpairing>>
busVars     == <<objects, flag>>
mapVars     == <<r2d, handles, live>>
sessVars    == <<sess, from, who, token, using, queue, passed>>
orchVars    == <<at, serving, answer, wait>>
vars == <<pairingVars, humanVars, storeVars, busVars, mapVars, sessVars, orchVars>>

\* The event a listener task sends for session s (its remote is from[s]).
Event(kind, s) == [kind |-> kind, s |-> s]
Dev(s) == who[s]

\* What the variables range over.  `flag`, a property of a Device1, lives with it.
TokensOK ==
    /\ window \in 0..TTL /\ left \in [Tokens -> 0..TTL]
    /\ minting \subseteq Tokens /\ shown \subseteq Tokens
    /\ current \in Tokens \cup {None} /\ prompts \in [Tokens -> Nat]

RedeemedOK == redeemed \in BOOLEAN

DevicesOK ==
    /\ trust \subseteq Devices /\ state \subseteq Devices /\ disk \subseteq Devices
    /\ pending \subseteq Devices /\ yes \subseteq Devices
    /\ objects \subseteq Devices /\ flag \subseteq objects
    /\ unpairing \in [Devices -> {"none", "forget", "persist", "remove"}]

SessionsOK ==
    /\ sess \in [Sessions -> {"none", "admitted", "accepted", "hello", "closed"}]
    /\ from \in [Sessions -> Remotes \cup {None}]
    /\ who \in [Sessions -> Devices \cup {None}]
    /\ token \in [Sessions -> Tokens \cup {None}]
    /\ passed \subseteq Devices
    /\ using \in [Devices -> Sessions \cup {None}]
    /\ queue \in Seq([kind : {"connected", "handshake", "closed"}, s : Sessions])

MapsOK ==
    /\ r2d \in [Remotes -> Devices \cup {None}]
    /\ handles \in [Remotes -> Sessions \cup {None}]
    /\ live \in [Devices -> Sessions \cup {None}]

OrchOK ==
    /\ at \in {"idle", "register", "await", "upsert", "persist", "mark"}
    /\ serving \in Sessions \cup {None}
    /\ answer \in {"none", "yes", "no"} /\ wait \in 0..(TTL + Grace)

TypeOK == TokensOK /\ RedeemedOK /\ DevicesOK /\ SessionsOK /\ MapsOK /\ OrchOK

-----------------------------------------------------------------------------
(* The process starts: devices.json is read into the state and the trust    *)
(* store, and every saved device gets a disconnected Device1 object.        *)

Init ==
    /\ disk \in SUBSET Devices
    /\ trust = disk /\ state = disk /\ objects = disk /\ flag = {} /\ yes = {}
    /\ window = 0 /\ left = [t \in Tokens |-> 0] /\ minting = {} /\ shown = {}
    /\ current = None /\ redeemed = FALSE /\ prompts = [t \in Tokens |-> 0]
    /\ pending = {} /\ unpairing = [d \in Devices |-> "none"]
    /\ r2d = [r \in Remotes |-> None] /\ handles = [r \in Remotes |-> None]
    /\ live = [d \in Devices |-> None]
    /\ sess = [s \in Sessions |-> "none"] /\ from = [s \in Sessions |-> None]
    /\ who = [s \in Sessions |-> None] /\ token = [s \in Sessions |-> None]
    /\ queue = <<>> /\ using = [d \in Devices |-> None] /\ passed = {}
    /\ at = "idle" /\ serving = None /\ answer = "none" /\ wait = 0

\* The process dies at any point and is started again, with tokens of its own;
\* devices.json, replaced by a rename, is what the last completed save wrote.
Restart ==
    /\ trust' = disk /\ state' = disk /\ objects' = disk /\ flag' = {}
    /\ window' = 0 /\ left' = [t \in Tokens |-> 0] /\ minting' = {} /\ shown' = {}
    /\ current' = None /\ redeemed' = FALSE /\ prompts' = [t \in Tokens |-> 0]
    /\ pending' = {} /\ unpairing' = [d \in Devices |-> "none"]
    /\ r2d' = [r \in Remotes |-> None] /\ handles' = [r \in Remotes |-> None]
    /\ live' = [d \in Devices |-> None]
    /\ sess' = [s \in Sessions |-> "none"] /\ from' = [s \in Sessions |-> None]
    /\ who' = [s \in Sessions |-> None] /\ token' = [s \in Sessions |-> None]
    /\ queue' = <<>> /\ using' = [d \in Devices |-> None] /\ passed' = {}
    /\ at' = "idle" /\ serving' = None /\ answer' = "none" /\ wait' = 0
    /\ UNCHANGED <<disk, yes>>

-----------------------------------------------------------------------------
(* Time, and the listener's connections.                                    *)

\* What is left of a deadline a tick later; mutated, it does not stop at zero.
RemainingBelowZero(n) == n - 1
Remaining(n) == IF n > 0 THEN n - 1 ELSE 0

\* One tick of the clock every deadline is measured against.
Tick ==
    /\ window' = Remaining(window)
    /\ left' = [t \in Tokens |-> Remaining(left[t])]
    /\ wait' = Remaining(wait)
    /\ UNCHANGED <<minting, shown, current, redeemed, prompts, humanVars, storeVars>>
    /\ UNCHANGED <<busVars, mapVars, sessVars, at, serving, answer>>

\* A connection, by the lowest free number: which one it has makes no difference.
\* TLS lets a connection in when the key it presents is pinned, whichever phone's that
\* is, or while a window is open.  It may come from any address, also from one that was
\* another phone's a moment ago; the device its handshake will name is its own choice,
\* and the token in it, if any, it scanned from some screen.
Dial(s, r, d, t) ==
    /\ sess[s] = "none" /\ \A x \in 1..(s - 1) : sess[x] # "none"
    /\ trust # {} \/ window > 0
    /\ t \in shown \cup {None}
    /\ sess' = [sess EXCEPT ![s] = "admitted"]
    /\ from' = [from EXCEPT ![s] = r]
    /\ who' = [who EXCEPT ![s] = d]
    /\ token' = [token EXCEPT ![s] = t]
    /\ using' = [using EXCEPT ![d] = s]
    /\ UNCHANGED <<queue, passed, pairingVars, humanVars, storeVars, busVars, mapVars,
                   orchVars>>

\* The listener has reported a session, and the orchestrator not yet buried it.
Known(s) == sess[s] \in {"accepted", "hello", "closed"}

\* A session of d's and one of another phone's, at one address, are known at once:
\* the address has passed from one to the other before the first was buried.
SharesAddress(d) ==
    \E s1, s2 \in Sessions :
        /\ Known(s1) /\ Known(s2) /\ from[s1] = from[s2]
        /\ Dev(s1) = d /\ Dev(s2) # d

\* Its control stream arrived too, later on: the listener reports the connection.
Accept(s) ==
    /\ sess[s] = "admitted"
    /\ sess' = [sess EXCEPT ![s] = "accepted"]
    /\ queue' = Append(queue, Event("connected", s))
    /\ UNCHANGED <<pairingVars, humanVars, storeVars, busVars, mapVars, from, who, token,
                   using, orchVars>>
    /\ passed' = passed \cup {d \in Devices : SharesAddress(d)'}

\* What stays of session s once it is over: nothing.
Forgotten(s) ==
    /\ sess' = [sess EXCEPT ![s] = "none"]
    /\ from' = [from EXCEPT ![s] = None]
    /\ who' = [who EXCEPT ![s] = None]
    /\ token' = [token EXCEPT ![s] = None]
    /\ using' = [d \in Devices |-> IF using[d] = s THEN None ELSE using[d]]

\* Or the connection ends before its stream arrives: nobody is told of it.
AcceptFails(s) ==
    /\ sess[s] = "admitted"
    /\ Forgotten(s)
    /\ UNCHANGED <<pairingVars, humanVars, storeVars, busVars, mapVars, queue, passed,
                   orchVars>>

\* The session's machine became Ready and reported the phone's handshake.
Hello(s) ==
    /\ sess[s] = "accepted"
    /\ sess' = [sess EXCEPT ![s] = "hello"]
    /\ queue' = Append(queue, Event("handshake", s))
    /\ UNCHANGED <<pairingVars, humanVars, storeVars, busVars, mapVars, from, who,
                   token, using, passed, orchVars>>

\* The session ended, for any CloseReason: its task reports that and nothing more.
Close(s) ==
    /\ sess[s] \in {"accepted", "hello"}
    /\ sess' = [sess EXCEPT ![s] = "closed"]
    /\ queue' = Append(queue, Event("closed", s))
    /\ UNCHANGED <<pairingVars, humanVars, storeVars, busVars, mapVars, from, who,
                   token, using, passed, orchVars>>

-----------------------------------------------------------------------------
(* Daemon1's methods, each call a task of its own.                          *)

\* StartPairing mints a token, opens the window ...
StartPairing(t) ==
    /\ t \notin minting \cup shown
    /\ minting' = minting \cup {t}
    /\ left' = [left EXCEPT ![t] = TTL]
    /\ window' = TTL
    /\ UNCHANGED <<shown, current, redeemed, prompts, humanVars, storeVars, busVars,
                   mapVars, sessVars, orchVars>>

\* ... and, once it has the lock, puts the token in the single slot and returns the QR.
StoreToken(t) ==
    /\ t \in minting
    /\ minting' = minting \ {t}
    /\ shown' = shown \cup {t}
    /\ current' = t
    /\ redeemed' = FALSE
    /\ UNCHANGED <<window, left, prompts, humanVars, storeVars, busVars, mapVars,
                   sessVars, orchVars>>

\* The answer for d reaches the task that waits; mutated, whichever phone it is for.
AwaitedByAnyone(d) == d \in pending /\ at = "await"
Awaited(d) == d \in pending /\ at = "await" /\ Dev(serving) = d

\* A client answers a prompt it has seen: the one being waited for, one whose
\* sender is not registered yet, or one the daemon gave up on long ago.
ConfirmPairing(d, accept) ==
    /\ d \in pending \/ (at = "register" /\ Dev(serving) = d)
    /\ pending' = pending \ {d}
    /\ yes' = IF accept THEN yes \cup {d} ELSE yes
    /\ answer' = IF ~Awaited(d) THEN answer ELSE IF accept THEN "yes" ELSE "no"
    /\ UNCHANGED <<pairingVars, storeVars, busVars, mapVars, sessVars, at, serving, wait>>

\* Unpair(d), for a device the client lists: revoke the pin ...
Unpair(d) ==
    /\ unpairing[d] = "none"
    /\ d \in objects \cap Unpairable
    /\ trust' = trust \ {d}
    /\ unpairing' = [unpairing EXCEPT ![d] = "forget"]
    /\ UNCHANGED <<state, disk, pairingVars, humanVars, busVars, mapVars, sessVars,
                   orchVars>>

\* ... forget the device (mutated: and go on without saving) ...
UnpairForgetUnsaved(d) ==
    /\ unpairing[d] = "forget"
    /\ state' = state \ {d}
    /\ unpairing' = [unpairing EXCEPT ![d] = "remove"]
    /\ UNCHANGED <<trust, disk, pairingVars, humanVars, busVars, mapVars, sessVars,
                   orchVars>>

UnpairForget(d) ==
    /\ unpairing[d] = "forget"
    /\ state' = state \ {d}
    /\ unpairing' = [unpairing EXCEPT ![d] = "persist"]
    /\ UNCHANGED <<trust, disk, pairingVars, humanVars, busVars, mapVars, sessVars,
                   orchVars>>

\* A save replaces devices.json by the whole state, or fails and is only logged.
Save == disk' = state \/ (SaveMayFail /\ disk' = disk)

\* ... save ...
UnpairPersist(d) ==
    /\ unpairing[d] = "persist"
    /\ Save
    /\ unpairing' = [unpairing EXCEPT ![d] = "remove"]
    /\ UNCHANGED <<trust, state, pairingVars, humanVars, busVars, mapVars, sessVars,
                   orchVars>>

\* ... and remove its Device1 object.  The live connection is left alone.
UnpairRemove(d) ==
    /\ unpairing[d] = "remove"
    /\ objects' = objects \ {d}
    /\ flag' = flag \ {d}
    /\ unpairing' = [unpairing EXCEPT ![d] = "none"]
    /\ UNCHANGED <<trust, state, disk, pairingVars, humanVars, mapVars, sessVars,
                   orchVars>>

-----------------------------------------------------------------------------
(* The orchestrator, one event at a time.                                   *)

\* The loop is back at recv() and the next event is `kind` from session s.
Receives(kind, s) ==
    /\ at = "idle"
    /\ queue # <<>>
    /\ Head(queue) = Event(kind, s)
    /\ queue' = Tail(queue)

\* ListenerEvent::Connected.
OnConnected(s) ==
    /\ Receives("connected", s)
    /\ handles' = [handles EXCEPT ![from[s]] = s]
    /\ UNCHANGED <<pairingVars, humanVars, storeVars, busVars, r2d, live, sess, from,
                   who, token, using, passed, orchVars>>

\* The address now belongs to the device the handshake names; nothing compares that
\* name with the key the connection was let in with.
Identified(s) == r2d' = [r2d EXCEPT ![from[s]] = Dev(s)]

\* A handshake that names a paired device.
OnPairedHandshake(s) ==
    /\ Receives("handshake", s)
    /\ Identified(s)
    /\ Dev(s) \in trust
    /\ at' = "mark" /\ serving' = s
    /\ UNCHANGED <<pairingVars, humanVars, storeVars, busVars, handles, live>>
    /\ UNCHANGED <<sess, from, who, token, using, passed, answer, wait>>

\* PairingToken::redeem: not used before, not expired, the same bytes; mutated, a
\* used token is good until it expires.
RedeemableAgain(t) == t # None /\ t = current /\ left[t] > 0
Redeemable(t) == t # None /\ t = current /\ ~redeemed /\ left[t] > 0

\* A handshake from an unpaired device without a redeemable token: ignored, and
\* the connection stays open.
OnStrangerHandshake(s) ==
    /\ Receives("handshake", s)
    /\ Identified(s)
    /\ Dev(s) \notin trust
    /\ ~Redeemable(token[s])
    /\ UNCHANGED <<pairingVars, humanVars, storeVars, busVars, handles, live, sess, from,
                   who, token, using, passed, orchVars>>

\* A handshake that redeems the token: PairingRequested goes out to the clients.
OnPairingHandshake(s) ==
    /\ Receives("handshake", s)
    /\ Identified(s)
    /\ Dev(s) \notin trust
    /\ Redeemable(token[s])
    /\ redeemed' = TRUE
    /\ prompts' = [prompts EXCEPT ![token[s]] = @ + 1]
    /\ yes' = yes \ {Dev(s)}
    /\ at' = "register" /\ serving' = s
    /\ UNCHANGED <<window, left, minting, shown, current, pending, storeVars, busVars>>
    /\ UNCHANGED <<handles, live, sess, from, who, token, using, passed, answer, wait>>

\* The maps without device d, None if the address was never identified; mutated, the
\* entry, or the property of the object, stays.
KeepHandle(d) == live' = live
DropHandle(d) == live' = [x \in Devices |-> IF x = d THEN None ELSE live[x]]
KeepFlag(d) == flag' = flag
DropFlag(d) == flag' = flag \ {d}

\* SessionEvent::Closed.  The only other writer of what it touches is UnpairRemove,
\* which commutes with it.
OnClosed(s) ==
    /\ Receives("closed", s)
    /\ handles' = [handles EXCEPT ![from[s]] = None]
    /\ r2d' = [r2d EXCEPT ![from[s]] = None]
    /\ DropHandle(r2d[from[s]])
    /\ DropFlag(r2d[from[s]])
    /\ Forgotten(s)
    /\ passed' = (passed \ {r2d[from[s]]}) \cup {d \in Devices : SharesAddress(d)'}
    /\ UNCHANGED <<pairingVars, humanVars, storeVars, objects, orchVars>>

\* await_confirmation registers its sender, in place of a stale one for the same
\* phone, and starts to wait: the event loop is blocked from here on.
AwaitConfirmation ==
    /\ at = "register"
    /\ pending' = pending \cup {Dev(serving)}
    /\ at' = "await" /\ wait' = TTL + Grace
    /\ UNCHANGED <<pairingVars, yes, storeVars, busVars, mapVars, sessVars, serving,
                   answer>>

\* TOKEN_TTL plus a grace period have passed; mutated, the wait has no limit.
Forever == FALSE
TimedOut == answer = "none" /\ wait = 0

\* The wait ends without a yes: refused, or timed out with no answer sent (the
\* entry in pending_confirmations then stays behind).
NotConfirmed ==
    /\ at = "await"
    /\ answer = "no" \/ TimedOut
    /\ at' = "idle" /\ serving' = None /\ answer' = "none" /\ wait' = 0
    /\ UNCHANGED <<pairingVars, humanVars, storeVars, busVars, mapVars, sessVars>>

\* The human said yes: pin the key and shut the window ...
Pin ==
    /\ at = "await"
    /\ answer = "yes"
    /\ trust' = trust \cup {Dev(serving)}
    /\ window' = 0
    /\ at' = "upsert" /\ answer' = "none" /\ wait' = 0
    /\ UNCHANGED <<left, minting, shown, current, redeemed, prompts, humanVars, state>>
    /\ UNCHANGED <<disk, unpairing, busVars, mapVars, sessVars, serving>>

\* ... add the device to the state ...
Upsert ==
    /\ at = "upsert"
    /\ state' = state \cup {Dev(serving)}
    /\ at' = "persist"
    /\ UNCHANGED <<serving, answer, wait, trust, disk, unpairing, pairingVars,
                   humanVars, busVars, mapVars, sessVars>>

\* ... and save it.
Persist ==
    /\ at = "persist"
    /\ Save
    /\ at' = "mark"
    /\ UNCHANGED <<serving, answer, wait, trust, state, unpairing, pairingVars,
                   humanVars, busVars, mapVars, sessVars>>

\* mark_connected: the Device1 object exists and says connected, and the handle
\* filed under the session's address, if any, becomes the device's.  The only other
\* writer of any of this is UnpairRemove, which has the same effect between two of
\* these statements as after, or before, all of them.
MarkConnected ==
    LET d == Dev(serving)
        h == handles[from[serving]] IN
    /\ at = "mark"
    /\ objects' = objects \cup {d}
    /\ flag' = flag \cup {d}
    /\ live' = IF h = None THEN live ELSE [live EXCEPT ![d] = h]
    /\ at' = "idle" /\ serving' = None
    /\ UNCHANGED <<answer, wait, pairingVars, humanVars, storeVars, r2d, handles,
                   sessVars>>

-----------------------------------------------------------------------------
OnEvent(s) ==
    \/ OnConnected(s) \/ OnClosed(s)
    \/ OnPairedHandshake(s) \/ OnStrangerHandshake(s) \/ OnPairingHandshake(s)

OrchStep ==
    \/ \E s \in Sessions : OnEvent(s)
    \/ AwaitConfirmation \/ NotConfirmed \/ Pin \/ Upsert \/ Persist \/ MarkConnected

UnpairStep(d) == UnpairForget(d) \/ UnpairPersist(d) \/ UnpairRemove(d)

Next ==
    \/ Tick \/ Restart \/ OrchStep
    \/ \E s \in Sessions, r \in Remotes, d \in Devices, t \in Tokens \cup {None} :
          Dial(s, r, d, t)
    \/ \E s \in Sessions : Accept(s) \/ AcceptFails(s) \/ Hello(s) \/ Close(s)
    \/ \E t \in Tokens : StartPairing(t) \/ StoreToken(t)
    \/ \E d \in Devices, accept \in BOOLEAN : ConfirmPairing(d, accept)
    \/ \E d \in Devices : Unpair(d) \/ UnpairStep(d)

Spec == Init /\ [][Next]_vars

\* The orchestrator and every accepted call are tasks of a running runtime, and
\* time passes; nobody has to dial, answer or close.
FairSpec ==
    /\ Spec
    /\ WF_vars(OrchStep) /\ WF_vars(Tick)
    /\ \A d \in Devices : WF_vars(UnpairStep(d))
    /\ \A t \in Tokens : WF_vars(StoreToken(t))

-----------------------------------------------------------------------------
\* A handle in connected_devices belongs to a connection whose handshake names that
\* device and whose end the orchestrator has not been told of: a clipboard is never
\* sent to another phone, nor into a session already buried.  Only a phone that shared
\* an address with another since its last Closed is left out: EveryHandleIsCurrent.
HandlesAreCurrent ==
    \A d \in Devices \ passed : live[d] # None => Known(live[d]) /\ Dev(live[d]) = d

\* A token leads to at most one prompt in its life, however StartPairing calls,
\* handshakes and expiry interleave.
SingleUse == \A t \in Tokens : prompts[t] <= 1

\* Pairing keeps the policy of TrustPolicy: a phone is pinned, and written to the
\* state, only on a yes given to the prompt of this very handshake -- never on a
\* late answer to an earlier prompt or to another phone's.
Policy == INSTANCE TrustPolicy WITH trusted <- trust, known <- state, saved <- disk
PolicySpec == Policy!Spec

\* To its D-Bus clients the daemon is a PairingService: at most one question at a
\* time, asked for a token that is good for one, and ended by the answer to it.
Service == INSTANCE PairingService WITH
    asked   <- IF at \in {"register", "await"} THEN Dev(serving) ELSE None,
    waiting <- at = "await",
    trusted <- trust
ServiceSpec == Service!Spec

\* Between calls, devices.json is the state in memory: whoever changes the state
\* still has the save ahead of it.
DiskFollowsState ==
    \/ state = disk
    \/ at = "persist"
    \/ \E d \in Devices : unpairing[d] = "persist"

\* A Device1 that says connected is backed by a session that is still to be
\* reported closed and whose address is filed under that device, so that the
\* Closed event will find the object again.  The same phones are left out.
Backed(d) ==
    \E s \in Sessions :
        /\ sess[s] \in {"hello", "closed"}
        /\ Dev(s) = d /\ r2d[from[s]] = d

FlagWillClear == \A d \in flag \ passed : Backed(d)

\* Why the two invariants above last.  A session has an address and a name; the
\* channel holds events of known sessions only, and nothing after a session's
\* Closed; the orchestrator serves such a session, at an address filed under the
\* device it names; and for a phone whose address nobody else shares the three maps
\* agree.
SessionsHaveAddresses ==
    \A s \in Sessions : sess[s] # "none" => from[s] \in Remotes /\ who[s] \in Devices

QueueInOrder ==
    \A i \in 1..Len(queue) :
        /\ Known(queue[i].s)
        /\ queue[i].kind = "handshake" => sess[queue[i].s] \in {"hello", "closed"}
        /\ queue[i].kind = "closed" =>
              /\ sess[queue[i].s] = "closed"
              /\ \A j \in (i + 1)..Len(queue) : queue[j].s # queue[i].s

ServesItsSession ==
    at # "idle" =>
        /\ serving \in Sessions /\ sess[serving] \in {"hello", "closed"}
        /\ r2d[from[serving]] = Dev(serving)

PassedIsRight == \A d \in Devices : SharesAddress(d) => d \in passed

MapsAgree ==
    /\ \A r \in Remotes : handles[r] # None =>
          Known(handles[r]) /\ from[handles[r]] = r
    /\ \A d \in Devices \ passed : live[d] # None =>
          /\ Known(live[d]) /\ Dev(live[d]) = d
          /\ r2d[from[live[d]]] = d

SessionInv ==
    /\ SessionsHaveAddresses /\ QueueInOrder /\ ServesItsSession
    /\ PassedIsRight /\ MapsAgree /\ FlagWillClear

\* Why SingleUse lasts: a token has prompted nobody before it is on a screen, and
\* the one in the slot has prompted nobody until it is redeemed.
TokenInv ==
    /\ minting \cap shown = {}
    /\ \A t \in Tokens \ shown : prompts[t] = 0
    /\ current # None => current \in shown /\ (~redeemed => prompts[current] = 0)
    /\ SingleUse

\* Why the policy is kept: from the human's yes to the device's place in the
\* state, that yes is the latest word on the phone being served.
AgreedInv ==
    /\ answer = "yes" => at = "await" /\ Dev(serving) \in yes
    /\ at = "upsert" => Dev(serving) \in yes

\* An event loop blocked on a human, or on a save, comes back to its queue, and
\* every reported end of a session is acted on.
ClosedIsHandled == \A s \in Sessions : (sess[s] = "closed") ~> (sess[s] = "none")

-----------------------------------------------------------------------------
(* What the repository says of the daemon and its code does not keep.       *)

\* Everything reported has been acted on and no Unpair call is running.
Quiet ==
    /\ queue = <<>> /\ at = "idle"
    /\ \A d \in Devices : unpairing[d] = "none"

\* "Every currently connected, paired device's send handle" (shared.rs:67): a
\* paired phone can be sent a clipboard on the session it dialed last.  The late
\* Closed of its previous session takes the entry away from that one.
ConnectedHaveHandles ==
    Quiet => \A d \in trust :
        (using[d] # None /\ sess[using[d]] = "hello") => live[d] # None

\* The same line, read the other way: only a paired device has a send handle.
\* Unpair leaves the entry, and the connection behind it, in place.
OnlyPairedHaveHandles ==
    Quiet => \A d \in Devices : live[d] # None => d \in trust

\* HandlesAreCurrent and FlagWillClear without their exception.  The maps are keyed by
\* the bare address: when it passes to another phone whose Connected and handshake come
\* before the first phone's Closed, that Closed takes the other phone's entries away,
\* and nothing ever takes the first one's.
EveryHandleIsCurrent ==
    \A d \in Devices : live[d] # None => Known(live[d]) /\ Dev(live[d]) = d

EveryFlagWillClear == \A d \in flag : Backed(d)

\* "One Device1 object per paired device" (dbus.rs:105).  An Unpair that runs
\* between a reconnecting phone's pairing check and mark_connected leaves an
\* object for a device that is not paired.
OneObjectPerPairedDevice == Quiet => objects = trust
=============================================================================
