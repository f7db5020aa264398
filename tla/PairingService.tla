--------------------------- MODULE PairingService ---------------------------
(***************************************************************************)
(* Pairing as a client of org.penguinsync.Daemon1 sees it, with no network, *)
(* session, file or task in it: the one token the daemon would accept, the  *)
(* one question it may be asking, the answers it listens for, and who is    *)
(* trusted.  Daemon implements it; PairingClients is composed with it.      *)
(***************************************************************************)
EXTENDS Integers

CONSTANTS
    Devices,    \* phones
    MaxTokens,  \* bound: StartPairing calls
    TTL         \* how long a token is good, in ticks

Tokens == 1..MaxTokens
None   == 0

ASSUME ServiceAssumption == None \notin Devices /\ MaxTokens \in Nat /\ TTL \in Nat \ {0}

VARIABLES
    left,      \* ticks each token has left
    minting,   \* tokens of StartPairing calls that have not returned
    shown,     \* tokens of those that have
    current,   \* the token that counts, or None
    redeemed,  \* and whether it has been used
    asked,     \* the phone a question is being asked about, or None
    waiting,   \* whether the question is waited on already
    pending,   \* phones whose ConfirmPairing has an effect
    answer,    \* what came back for the question
    trusted    \* phones let in without one

tokenVars    == <<left, minting, shown, current, redeemed>>
questionVars == <<asked, waiting, pending, answer>>
vars == <<tokenVars, questionVars, trusted>>

Init ==
    /\ left = [t \in Tokens |-> 0] /\ minting = {} /\ shown = {}
    /\ current = None /\ redeemed = FALSE
    /\ asked = None /\ waiting = FALSE /\ pending = {} /\ answer = "none"
    /\ trusted \in SUBSET Devices

\* Only what was saved comes back.
Restart ==
    /\ left' = [t \in Tokens |-> 0] /\ minting' = {} /\ shown' = {}
    /\ current' = None /\ redeemed' = FALSE
    /\ asked' = None /\ waiting' = FALSE /\ pending' = {} /\ answer' = "none"
    /\ trusted' \in SUBSET Devices

Tick ==
    /\ left' = [t \in Tokens |-> IF left[t] > 0 THEN left[t] - 1 ELSE 0]
    /\ UNCHANGED <<minting, shown, current, redeemed, questionVars, trusted>>

\* A StartPairing call mints a token, and returns once it is the one that counts.
Mint(t) ==
    /\ t \notin minting \cup shown
    /\ minting' = minting \cup {t}
    /\ left' = [left EXCEPT ![t] = TTL]
    /\ UNCHANGED <<shown, current, redeemed, questionVars, trusted>>

Return(t) ==
    /\ t \in minting
    /\ minting' = minting \ {t}
    /\ shown' = shown \cup {t}
    /\ current' = t /\ redeemed' = FALSE
    /\ UNCHANGED <<left, questionVars, trusted>>

\* A phone that is not trusted uses the token: one question at a time.
Usable(t) == t = current /\ t # None /\ ~redeemed /\ left[t] > 0

Ask(d) ==
    /\ asked = None
    /\ d \notin trusted
    /\ Usable(current)
    /\ redeemed' = TRUE
    /\ asked' = d
    /\ UNCHANGED <<left, minting, shown, current, waiting, pending, answer, trusted>>

Listen ==
    /\ asked # None /\ ~waiting
    /\ waiting' = TRUE
    /\ pending' = pending \cup {asked}
    /\ UNCHANGED <<tokenVars, asked, answer, trusted>>

\* ConfirmPairing has no effect unless it is about a phone that is waited for.  It
\* takes the sender out of the map; mutated, only looks it up.
KeptSenders(d) == pending
OtherSenders(d) == pending \ {d}

Confirm(d, accept) ==
    /\ pending' = OtherSenders(d)
    /\ answer' = IF d \in pending /\ waiting /\ asked = d
                 THEN IF accept THEN "yes" ELSE "no"
                 ELSE answer
    /\ UNCHANGED <<tokenVars, asked, waiting, trusted>>

\* The question ends: without a yes at any time, with one by trusting the phone.
Over == asked' = None /\ waiting' = FALSE /\ answer' = "none"

GiveUp ==
    /\ waiting /\ answer # "yes"
    /\ Over
    /\ UNCHANGED <<tokenVars, pending, trusted>>

Trust ==
    /\ waiting /\ answer = "yes"
    /\ trusted' = trusted \cup {asked}
    /\ Over
    /\ UNCHANGED <<tokenVars, pending>>

\* Unpair.
Revoke(d) == trusted' = trusted \ {d} /\ UNCHANGED <<tokenVars, questionVars>>

Next ==
    \/ Restart \/ Tick \/ Listen \/ GiveUp \/ Trust
    \/ \E t \in Tokens : Mint(t) \/ Return(t)
    \/ \E d \in Devices, accept \in BOOLEAN : Confirm(d, accept)
    \/ \E d \in Devices : Ask(d) \/ Revoke(d)

Spec == Init /\ [][Next]_vars
=============================================================================
