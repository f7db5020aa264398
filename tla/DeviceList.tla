----------------------------- MODULE DeviceList -----------------------------
(***************************************************************************)
(* What the clients list, and what they unpair: the rows of the TUI, which  *)
(* it polls from a daemon that changes meanwhile, and the one device that   *)
(* `penguinsync unpair <prefix>` picks.  Either way list_devices takes the  *)
(* daemon's objects in one call and then asks each of them for its          *)
(* properties, in the order of a HashMap.  The rows of the TUI may be hidden *)
(* by a pairing code, which takes the whole frame but not the keyboard, and  *)
(* by the prompt of a confirmation, which takes the keyboard too.           *)
(***************************************************************************)
EXTENDS Integers, FiniteSets, Sequences, SequencesExt

CONSTANTS
    Devices,   \* devices that may be paired
    Namings,   \* what their names may be: functions to numbers, for the order of names
    None,      \* no device
    MaxTyped   \* bound: keys typed ahead

ASSUME DevicesAssumption == IsFiniteSet(Devices)
ASSUME NamingsAssumption == Namings \subseteq [Devices -> Nat \ {0}]
ASSUME TypedAssumption == MaxTyped \in Nat \ {0}

VARIABLES
    up,        \* the daemon runs
    objs,      \* the devices that have a Device1 object when it does
    live,      \* those of them that are connected
    client,    \* "tui" or "cli"
    name,      \* the names of the devices
    stage,     \* what the client is at
    todo,      \* objects it has yet to ask for their properties
    got,       \* what it was told, by object
    rows,      \* App.devices
    selected,  \* App.selected
    over,      \* what is open over the rows: App.pairing_display, App.confirmation
    typed,     \* keys the TUI has not taken, each with what its human saw
    prefix,    \* the devices whose id starts with what the CLI was given
    stayed     \* history: devices listed ever since the CLI's call, by one run of the daemon

env     == <<up, objs, live>>
listing == <<stage, todo, got>>
screen  == <<rows, selected, over, typed>>
cli     == <<prefix, stayed>>
given   == <<client, name>>
vars    == <<env, given, listing, screen, cli>>

Row == [id : Devices \cup {None}, live : BOOLEAN]
ASSUME NoneAssumption == None \notin Devices \cup Row
Keys == {"up", "down", "u", "p", "y", "esc", "q"}
Key == [key : Keys, drawn : BOOLEAN, on : Devices \cup {None},
        of : SUBSET (Devices \cup {None}), still : BOOLEAN]

TypeOK ==
    /\ up \in BOOLEAN /\ objs \subseteq Devices /\ live \subseteq objs
    /\ client \in {"tui", "cli"} /\ name \in Namings
    /\ stage \in {"idle", "reading", "picked", "done"}
    /\ todo \subseteq Devices /\ got \in [Devices \ todo -> Row \cup {None}]
    /\ rows \in Seq(Row) /\ selected \in 0..Cardinality(Devices)
    /\ over \subseteq {"code", "prompt"} /\ typed \in Seq(Key)
    /\ prefix \subseteq Devices /\ stayed \subseteq Devices

Init ==
    /\ up = TRUE /\ objs \in SUBSET Devices /\ live = {}
    /\ client \in {"tui", "cli"} /\ name \in Namings
    /\ stage = "idle" /\ todo = {} /\ got = [d \in Devices |-> None]
    /\ rows = <<>> /\ selected = 0 /\ over = {} /\ typed = <<>>
    /\ prefix \in IF client = "cli" THEN SUBSET Devices ELSE {{}}
    /\ stayed = Devices

-----------------------------------------------------------------------------
(* The daemon's side: devices are paired, unpaired by other clients, come   *)
(* and go; the daemon stops and is started again.                          *)

Unlisted(d) == objs' = objs \ {d} /\ live' = live \ {d} /\ stayed' = stayed \ {d}

Paired(d) ==
    /\ up /\ d \notin objs
    /\ objs' = objs \cup {d} /\ live' = live \cup {d}
    /\ UNCHANGED <<up, given, listing, screen, cli>>

UnpairedElsewhere(d) ==
    /\ up /\ d \in objs
    /\ Unlisted(d)
    /\ UNCHANGED <<up, given, listing, screen, prefix>>

ComesOrGoes(d) ==
    /\ up /\ d \in objs
    /\ live' = IF d \in live THEN live \ {d} ELSE live \cup {d}
    /\ UNCHANGED <<up, objs, given, listing, screen, cli>>

StopOrStart ==
    /\ up' = ~up /\ live' = {} /\ stayed' = {}
    /\ UNCHANGED <<objs, given, listing, screen, prefix>>

-----------------------------------------------------------------------------
(* list_devices.                                                           *)

\* The objects and rows of a call that is over.
Forgotten == todo' = {} /\ got' = [d \in Devices |-> None]

\* GetManagedObjects.
Lists ==
    /\ stage = "idle" /\ up
    /\ stage' = "reading"
    /\ todo' = objs /\ got' = [d \in Devices \ objs |-> None]

\* The properties of one object: an object that is gone, or a daemon that is, makes it
\* a row without an id.  Mutated, a row that was read before is not read again.
Blank == [id |-> None, live |-> FALSE]
FreshRow(d) == IF up /\ d \in objs THEN [id |-> d, live |-> d \in live] ELSE Blank
CachedRow(d) ==
    IF \E i \in DOMAIN rows : rows[i].id = d
    THEN CHOOSE r \in {rows[i] : i \in DOMAIN rows} : r.id = d ELSE FreshRow(d)
RowOf(d) == FreshRow(d)

Reads(d) ==
    /\ stage = "reading" /\ d \in todo
    /\ todo' = todo \ {d}
    /\ got' = [x \in DOMAIN got \cup {d} |-> IF x = d THEN RowOf(d) ELSE got[x]]
    /\ UNCHANGED <<env, given, stage, screen, cli>>

Answered == {d \in DOMAIN got : got[d] # None}

\* sort_by name: rows of equal names stay in the order of the HashMap.  Mutated, all do.
NameOf(r) == IF r.id = None THEN 0 ELSE name[r.id]
RowsOf(order) == [i \in DOMAIN order |-> got[order[i]]]
Orders == SetToSeqs(Answered)
UnsortedRows == {RowsOf(o) : o \in Orders}
SortedRows ==
    {s \in UnsortedRows : \A i \in 2..Len(s) : NameOf(s[i - 1]) <= NameOf(s[i])}
Listed == SortedRows

-----------------------------------------------------------------------------
(* The TUI.                                                                *)

\* The refresh tick.
Refresh ==
    /\ client = "tui" /\ Lists
    /\ UNCHANGED <<env, given, screen, cli>>

\* Its end: a code whose time is up is replaced, or goes if the daemon does not answer,
\* but not under a prompt.
CodeRefreshed ==
    \/ UNCHANGED over
    \/ ~up /\ "prompt" \notin over /\ over' = over \ {"code"}

Refreshed ==
    /\ client = "tui" /\ stage = "reading" /\ todo = {}
    /\ stage' = "idle"
    /\ rows' \in Listed
    /\ Forgotten
    /\ CodeRefreshed
    /\ UNCHANGED <<env, given, selected, typed, cli>>

\* A daemon that does not answer leaves the rows as they are.
RefreshFails ==
    /\ client = "tui" /\ stage = "idle" /\ ~up
    /\ CodeRefreshed
    /\ UNCHANGED <<env, given, listing, rows, selected, typed, cli>>

\* PairingRequested opens the prompt, over a code or over the rows.
Prompted ==
    /\ client = "tui" /\ stage = "idle"
    /\ over' = over \cup {"prompt"}
    /\ UNCHANGED <<env, given, listing, rows, selected, typed, cli>>

\* selected_device: nothing restricts `selected` to the rows when those get fewer.
Cursor == IF selected < Len(rows) THEN rows[selected + 1].id ELSE None

\* What a human sees who types this key: the rows drawn last, if nothing was drawn over
\* them, and the cursor where it still is when the arrows typed before have been taken.
\* (Asked only of the key that unpairs.)
Ids == {rows[i].id : i \in DOMAIN rows}
Drawn(k) == k = "u" /\ over = {}
OnScreen(k) == IF Drawn(k) THEN Ids ELSE {}
AtCursor(k) == IF Drawn(k) THEN Cursor ELSE None
Still == \A i \in DOMAIN typed : typed[i].key \notin {"up", "down"}

\* A key is typed whatever the loop is at.
Type(k) ==
    /\ client = "tui" /\ stage # "done" /\ Len(typed) < MaxTyped
    /\ typed' = Append(typed, [key |-> k, drawn |-> Drawn(k), on |-> AtCursor(k),
                               of |-> OnScreen(k), still |-> Still])
    /\ UNCHANGED <<env, given, listing, rows, selected, over, cli>>

\* handle_key, when the loop is back in its select!.
Takes(k) ==
    /\ client = "tui" /\ stage = "idle"
    /\ typed # <<>> /\ Head(typed).key = k
    /\ typed' = Tail(typed)

\* A prompt keeps the keyboard to itself, a code does not.
Acts(k) == Takes(k) /\ "prompt" \notin over
Swallowed ==
    /\ "prompt" \in over /\ \E k \in {"up", "down", "u", "p", "q"} : Takes(k)
    /\ UNCHANGED <<env, given, listing, rows, selected, over, cli>>

Up ==
    /\ Acts("up")
    /\ selected' = IF selected > 0 THEN selected - 1 ELSE 0
    /\ UNCHANGED <<env, given, listing, rows, over, cli>>

\* Mutated, Down passes the last row.
Onward == TRUE
HasNext == selected + 1 < Len(rows)
Down ==
    /\ Acts("down")
    /\ selected' = IF HasNext THEN selected + 1 ELSE selected
    /\ UNCHANGED <<env, given, listing, rows, over, cli>>

\* A code to scan, if the daemon answers.
Pair ==
    /\ Acts("p")
    /\ over' = IF up THEN over \cup {"code"} ELSE over
    /\ UNCHANGED <<env, given, listing, rows, selected, cli>>

\* "yes" also closes the code; without a prompt it is no key.
Yes ==
    /\ Takes("y")
    /\ over' = IF "prompt" \in over THEN {} ELSE over
    /\ UNCHANGED <<env, given, listing, rows, selected, cli>>

\* Esc closes the prompt, as "no" does, or else the code, or else the TUI.
Esc ==
    /\ Takes("esc")
    /\ over' = IF "prompt" \in over THEN over \ {"prompt"} ELSE {}
    /\ stage' = IF over = {} THEN "done" ELSE stage
    /\ UNCHANGED <<env, given, todo, got, rows, selected, cli>>

Quit ==
    /\ Acts("q")
    /\ stage' = "done"
    /\ UNCHANGED <<env, given, todo, got, rows, selected, over, cli>>

\* Unpair: the call fails for a row without an id, and with a daemon that is gone.
Call(d) ==
    IF up /\ d # None THEN Unlisted(d) ELSE UNCHANGED <<objs, live, stayed>>

UnpairKey ==
    /\ Acts("u")
    /\ Call(Cursor)
    /\ UNCHANGED <<up, given, listing, rows, selected, over, prefix>>

-----------------------------------------------------------------------------
(* `penguinsync unpair <prefix>`.                                          *)

CliLists ==
    /\ client = "cli" /\ Lists
    /\ stayed' = objs
    /\ UNCHANGED <<env, given, screen, prefix>>

Matches == {d \in Answered : got[d].id \in prefix}

\* Exactly one match is unpaired; mutated, one of several.
AnyMatch == Matches # {}
OneMatch == Cardinality(Matches) = 1

CliPicks ==
    /\ client = "cli" /\ stage = "reading" /\ todo = {}
    /\ stage' = IF OneMatch THEN "picked" ELSE "done"
    /\ UNCHANGED <<env, given, todo, got, screen, cli>>

CliUnpairs ==
    /\ client = "cli" /\ stage = "picked"
    /\ stage' = "done"
    /\ \E d \in Matches : Call(d)
    /\ Forgotten
    /\ UNCHANGED <<up, given, screen, prefix>>

\* It is run again, with a prefix of its own.
CliAgain ==
    /\ client = "cli" /\ stage = "done"
    /\ stage' = "idle"
    /\ prefix' \in SUBSET Devices
    /\ Forgotten
    /\ UNCHANGED <<env, given, screen, stayed>>

-----------------------------------------------------------------------------
Next ==
    \/ \E d \in Devices : Paired(d) \/ UnpairedElsewhere(d) \/ ComesOrGoes(d) \/ Reads(d)
    \/ StopOrStart \/ Refresh \/ Refreshed \/ RefreshFails \/ Prompted
    \/ \E k \in Keys : Type(k)
    \/ Swallowed \/ Up \/ Down \/ Pair \/ Yes \/ Esc \/ Quit \/ UnpairKey
    \/ CliLists \/ CliPicks \/ CliUnpairs \/ CliAgain

Spec == Init /\ [][Next]_vars

\* The interval ticks for ever, and select! starves no branch that stays ready.
FairSpec ==
    /\ Spec
    /\ WF_vars(Refresh) /\ WF_vars(Refreshed)
    /\ WF_vars(\E d \in Devices : Reads(d))

-----------------------------------------------------------------------------
\* The key unpairs the row its human saw the cursor on, even if the rows have been
\* replaced, or hidden, since it was typed: if it was typed at the rows at all, not at a
\* code that hid them, if no arrow was still to be taken, and if the rows are of the same
\* devices, all read and with names of their own.
Distinct(S) == None \notin S /\ \A d, e \in S : name[d] = name[e] => d = e

UnpairsTheRow ==
    [][UnpairKey /\ objs' # objs =>
          LET k == Head(typed) IN
          k.drawn /\ k.still /\ Distinct(k.of) /\ Ids = k.of =>
              objs \ objs' \subseteq {k.on}]_vars

\* "`[u]npair` means nothing while a QR is up" (tui.rs:407).  Not so: the footer no longer
\* names the key, but handle_key still takes it, for a row that nobody sees.
NothingUnderTheCode == [][UnpairKey /\ "code" \in over => UNCHANGED objs]_vars

\* `unpair` never guesses: what it unpairs matches, and no other device that was listed
\* all the while does.  (That the daemon is not restarted meanwhile is needed: rows it
\* fails to answer for lose their ids, and one that has just started, and puts up its
\* objects one by one, lists only some; an ambiguous prefix then matches just one.)
NoGuess ==
    [][CliUnpairs /\ objs' # objs =>
          LET gone == objs \ objs' IN
          gone \subseteq prefix /\ prefix \cap stayed \subseteq gone]_vars

\* Once the daemon and its devices have come to rest, the rows say what they are: no row
\* without an id stays, none is missing, none is there twice.
Truthful ==
    /\ Len(rows) = Cardinality(objs)
    /\ \A d \in objs : \E i \in DOMAIN rows : rows[i] = [id |-> d, live |-> d \in live]
RowsConverge ==
    <>[][UNCHANGED env]_vars => <>[](up /\ client = "tui" /\ stage # "done" => Truthful)
=============================================================================
