--------------------------- MODULE PairingClients ---------------------------
(***************************************************************************)
(* The clients a human pairs with: the TUI and `penguinsync pair`, several  *)
(* of each, over one PairingService -- one run of the daemon.               *)
(*                                                                         *)
(* A TUI is a loop that takes one thing at a time: a key, the refresh tick  *)
(* or a PairingRequested signal.  A D-Bus call holds the loop until it      *)
(* returns; signals then queue up.  Its list of devices is in DeviceList.   *)
(***************************************************************************)
EXTENDS PairingService, Sequences, SequencesExt

CONSTANTS
    Tuis,     \* running TUIs
    Clis,     \* runs of `penguinsync pair`
    MaxInbox  \* bound: signals queued for a TUI

ASSUME InboxAssumption == MaxInbox \in Nat \ {0}

VARIABLES
    up,     \* the TUI runs
    busy,   \* the token its loop waits for a StartPairing call to return, or None
    qr,     \* App.pairing_display: the token on the screen, or None
    life,   \* ticks until that has been there for TOKEN_TTL
    conf,   \* App.confirmation: the phone on the prompt, or None
    inbox,  \* PairingRequested signals it has not taken
    past,   \* history: the last question is over for this TUI: it has answered it,
            \* or was not running when it was asked
    step,   \* where a CLI is
    mine,   \* the token of its QR
    heard   \* the phone it asks its human about

serviceVars == vars
screenVars  == <<qr, life, conf>>
tuiVars == <<up, busy, screenVars, inbox, past>>
cliVars == <<step, mine, heard>>
allVars == <<serviceVars, tuiVars, cliVars>>

ClientsTypeOK ==
    /\ up \in [Tuis -> BOOLEAN] /\ busy \in [Tuis -> Tokens \cup {None}]
    /\ qr \in [Tuis -> Tokens \cup {None}] /\ life \in [Tuis -> 0..TTL]
    /\ conf \in [Tuis -> Devices \cup {None}]
    /\ inbox \in [Tuis -> Seq(Devices)] /\ past \in [Tuis -> BOOLEAN]
    /\ step \in [Clis -> {"off", "starting", "printed", "waiting", "done"}]
    /\ mine \in [Clis -> Tokens \cup {None}] /\ heard \in [Clis -> Devices \cup {None}]

ClientsInit ==
    /\ Init
    /\ up = [u \in Tuis |-> TRUE] /\ busy = [u \in Tuis |-> None]
    /\ qr = [u \in Tuis |-> None] /\ life = [u \in Tuis |-> 0]
    /\ conf = [u \in Tuis |-> None] /\ inbox = [u \in Tuis |-> <<>>]
    /\ past = [u \in Tuis |-> FALSE]
    /\ step = [c \in Clis |-> "off"] /\ mine = [c \in Clis |-> None]
    /\ heard = [c \in Clis |-> None]

-----------------------------------------------------------------------------
(* The TUI shows a code.                                                    *)

\* The loop of u is back in its select!.
Idle(u) == up[u] /\ busy[u] = None

\* A StartPairing call goes out.
Calls(u) ==
    /\ Idle(u)
    /\ \E t \in Tokens : Mint(t) /\ busy' = [busy EXCEPT ![u] = t]
    /\ UNCHANGED <<up, screenVars, inbox, past, cliVars>>

\* The `p` key; a prompt would take the key for itself.
PressP(u) == conf[u] = None /\ Calls(u)

\* should_regenerate: the code has been on the screen for TOKEN_TTL, and no question is
\* open; mutated, it is replaced ahead of its time, or never.
StaleEarly(u) == qr[u] # None /\ life[u] <= 1 /\ conf[u] = None
StaleNever(u) == FALSE
Stale(u) == qr[u] # None /\ life[u] = 0 /\ conf[u] = None

\* The refresh tick finds the code stale.
Refresh(u) == Stale(u) /\ Calls(u)

Shows(u, t) == qr' = [qr EXCEPT ![u] = t] /\ life' = [life EXCEPT ![u] = TTL]
Hides(u)    == qr' = [qr EXCEPT ![u] = None] /\ life' = [life EXCEPT ![u] = 0]

\* The call returns and the new code is shown; or it cannot be rendered, and an old
\* one that was to be refreshed goes nevertheless.
Started(u) ==
    /\ up[u] /\ busy[u] # None
    /\ Return(busy[u])
    /\ busy' = [busy EXCEPT ![u] = None]
    /\ \/ Shows(u, busy[u])
       \/ Stale(u) /\ Hides(u)
       \/ ~Stale(u) /\ UNCHANGED <<qr, life>>
    /\ UNCHANGED <<up, conf, inbox, past, cliVars>>

\* Without a prompt, Esc dismisses the code, or quits.
Dismiss(u) ==
    /\ Idle(u) /\ conf[u] = None /\ qr[u] # None
    /\ Hides(u)
    /\ UNCHANGED <<serviceVars, up, busy, conf, inbox, past, cliVars>>

Quit(u) ==
    /\ Idle(u) /\ conf[u] = None /\ qr[u] = None
    /\ up' = [up EXCEPT ![u] = FALSE]
    /\ inbox' = [inbox EXCEPT ![u] = <<>>]
    /\ UNCHANGED <<serviceVars, busy, screenVars, past, cliVars>>

\* A TUI is started; it hears of the questions that are asked from now on.
Launch(u) ==
    /\ ~up[u]
    /\ up' = [up EXCEPT ![u] = TRUE]
    /\ past' = [past EXCEPT ![u] = TRUE]
    /\ UNCHANGED <<serviceVars, busy, screenVars, inbox, cliVars>>

-----------------------------------------------------------------------------
(* Somebody scans a code.                                                   *)

\* The daemon asks: every TUI that runs gets the signal, and every CLI that has
\* subscribed to it; a CLI keeps the first one it gets.
Requested(d) ==
    /\ Ask(d)
    /\ \A u \in Tuis : Len(inbox[u]) < MaxInbox
    /\ inbox' = [u \in Tuis |-> IF up[u] THEN Append(inbox[u], d) ELSE inbox[u]]
    /\ past' = [u \in Tuis |-> ~up[u]]
    /\ heard' = [c \in Clis |-> IF step[c] = "waiting" /\ heard[c] = None
                                THEN d ELSE heard[c]]
    /\ UNCHANGED <<up, busy, screenVars, step, mine>>

\* The prompt for a signal replaces whatever prompt is open; mutated, that one stays.
FirstPrompt(u) == IF conf[u] = None THEN Head(inbox[u]) ELSE conf[u]
NewestPrompt(u) == Head(inbox[u])

Prompt(u) ==
    /\ Idle(u)
    /\ inbox[u] # <<>>
    /\ conf' = [conf EXCEPT ![u] = NewestPrompt(u)]
    /\ inbox' = [inbox EXCEPT ![u] = Tail(@)]
    /\ UNCHANGED <<serviceVars, up, busy, qr, life, past, cliVars>>

\* A prompt takes the keyboard: `y` also takes the code away, `n` and Esc do not.
\* The prompt may be an old one: whoever answers it has not seen a newer question.
Answers(u, accept) ==
    /\ Idle(u) /\ conf[u] # None
    /\ Confirm(conf[u], accept)
    /\ conf' = [conf EXCEPT ![u] = None]
    /\ IF accept THEN Hides(u) ELSE UNCHANGED <<qr, life>>
    /\ past' = [past EXCEPT ![u] = @ \/ inbox[u] = <<>>]
    /\ UNCHANGED <<up, busy, inbox, cliVars>>

-----------------------------------------------------------------------------
(* The CLI: `pair` prints its code and only then subscribes to the signal.  *)

Goes(c, there) == step' = [step EXCEPT ![c] = there]

CliStarts(c) ==
    /\ step[c] = "off"
    /\ \E t \in Tokens : Mint(t) /\ mine' = [mine EXCEPT ![c] = t]
    /\ Goes(c, "starting")
    /\ UNCHANGED <<heard, tuiVars>>

CliPrints(c) ==
    /\ step[c] = "starting"
    /\ Return(mine[c])
    /\ Goes(c, "printed")
    /\ UNCHANGED <<mine, heard, tuiVars>>

CliSubscribes(c) ==
    /\ step[c] = "printed"
    /\ Goes(c, "waiting")
    /\ UNCHANGED <<mine, heard, tuiVars, serviceVars>>

\* It waits 65 s for one ("No device connected in time."), ...
CliGivesUp(c) ==
    /\ step[c] = "waiting" /\ heard[c] = None
    /\ Goes(c, "done")
    /\ UNCHANGED <<mine, heard, tuiVars, serviceVars>>

\* ... asks its human for as long as that takes, and passes the answer on.
CliAnswers(c, accept) ==
    /\ step[c] = "waiting" /\ heard[c] # None
    /\ Confirm(heard[c], accept)
    /\ Goes(c, "done")
    /\ UNCHANGED <<mine, heard, tuiVars>>

-----------------------------------------------------------------------------
\* What the daemon does of its own accord, or for a client that unpairs.
DaemonStep ==
    /\ Listen \/ GiveUp \/ Trust \/ \E d \in trusted : Revoke(d)
    /\ UNCHANGED <<tuiVars, cliVars>>

\* remaining_secs saturates at zero; mutated, it does not.
Unsaturated(n) == n - 1
Remaining(n) == IF n > 0 THEN n - 1 ELSE 0

TimePasses ==
    /\ Tick
    /\ life' = [u \in Tuis |-> Remaining(life[u])]
    /\ UNCHANGED <<up, busy, qr, conf, inbox, past, cliVars>>

TuiStep(u) ==
    \/ PressP(u) \/ Refresh(u) \/ Started(u) \/ Dismiss(u) \/ Quit(u) \/ Launch(u)
    \/ Prompt(u) \/ \E accept \in BOOLEAN : Answers(u, accept)

CliStep(c) ==
    \/ CliStarts(c) \/ CliPrints(c) \/ CliSubscribes(c) \/ CliGivesUp(c)
    \/ \E accept \in BOOLEAN : CliAnswers(c, accept)

ClientsNext ==
    \/ DaemonStep \/ TimePasses
    \/ \E d \in Devices : Requested(d)
    \/ \E u \in Tuis : TuiStep(u)
    \/ \E c \in Clis : CliStep(c)

ClientsSpec == ClientsInit /\ [][ClientsNext]_allVars

\* Time passes, calls return and a TUI refreshes; nobody has to press a key.
ClientsFairSpec ==
    /\ ClientsSpec
    /\ WF_allVars(TimePasses)
    /\ \A u \in Tuis : SF_allVars(Refresh(u)) /\ WF_allVars(Started(u))

-----------------------------------------------------------------------------
\* While the daemon asks about a phone, every TUI has that question: its prompt is on
\* the screen, or the last in its queue, or this TUI has answered it (or was not there
\* when it was asked).  No older prompt ever hides the one that is waited for.
PromptIsCurrent ==
    \A u \in Tuis : asked # None /\ up[u] /\ ~past[u] =>
        IF inbox[u] = <<>> THEN conf[u] = asked ELSE Last(inbox[u]) = asked

\* Of several clients that answer one question the first counts: once an answer is
\* there, nobody turns a no into a yes.
FirstAnswerCounts ==
    [][answer # "none" /\ asked' = asked => answer' = answer]_allVars

\* The TUI never refreshes away a token of its own that the daemon would still have
\* accepted: the phone that has just scanned it gets its chance.
RefreshIsHarmless ==
    [][\A u \in Tuis : Refresh(u) => ~Usable(qr[u])]_allVars

\* A code whose token is used up or expired does not stay on a screen, unless a prompt
\* is open over it or the bound on calls is reached.
DeadCode(u) == up[u] /\ qr[u] # None /\ ~Usable(qr[u])
DeadCodeGoes ==
    \A u \in Tuis : DeadCode(u) ~> ~DeadCode(u) \/ conf[u] # None \/ minting \cup shown = Tokens
=============================================================================
