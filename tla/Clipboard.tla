----------------------------- MODULE Clipboard ------------------------------
(***************************************************************************)
(* Clipboard synchronisation: GNOME's selection behind the Shell extension,  *)
(* the two tasks of the daemon that share `last_hash` -- watch_and_broadcast *)
(* for changes made here, the orchestrator's handle_received for clipboards  *)
(* that arrive -- and the phones.                                           *)
(*                                                                         *)
(* A clip stands for its content and its hash.  One step is what a task does *)
(* between two awaits that another task can use: a D-Bus call, a lock.  The  *)
(* sessions below are FIFO (module Connection); a phone that is joined here  *)
(* has its handle in connected_devices (module Daemon).  The orchestrator is *)
(* spawned before the extension is looked for: phones join and send while    *)
(* there is no backend yet, and nothing tells the watcher what is copied     *)
(* before it has subscribed, or while the extension is off.                  *)
(***************************************************************************)
EXTENDS Integers, Sequences

CONSTANTS
    Phones,     \* devices that connect
    Texts,      \* contents Clip::new accepts
    Odd,        \* a content that never becomes a Clip: over the cap, or not text
    None,       \* no clip, no phone
    MaxCopies,  \* bound: copies by the user of the Linux side
    MaxSends    \* bound: clipboards the phones send, in all

ASSUME ClipboardAssumption ==
    /\ Odd \notin Texts /\ None \notin Texts \cup Phones \cup {Odd}
    /\ MaxCopies \in Nat /\ MaxSends \in Nat

VARIABLES
    backend,   \* the look for the extension: under way, in vain, or in Shared.clipboard
    feed,      \* the watcher's subscription to OwnerChange: not yet, open, or failed
    selection, \* what GNOME's clipboard holds
    changes,   \* OwnerChange notifications the watcher has not taken
    watcher,   \* where watch_and_broadcast is, and its clip
    handler,   \* where handle_received is, its clip and its sender
    last_hash, \* ClipboardState.last_hash
    connected, \* phones in connected_devices
    paired,    \* phones in the TrustStore
    up, down,  \* clips a phone has sent, and has been sent
    holds,     \* the last clip a phone sent or applied on its connection
    copies, sends, \* count what the bounds bound
    copied,    \* history: contents copied on the Linux side
    crossed,   \* history: clips of two sides have been under way at once
    behind     \* history: the selection has changed, or should have, unknown to the daemon

daemonVars == <<changes, watcher, handler, last_hash>>
peerVars   == <<connected, paired>>
linkVars   == <<up, down, holds>>
userVars   == <<copies, sends, copied, crossed>>
startVars  == <<backend, feed>>
vars == <<startVars, selection, daemonVars, peerVars, linkVars, userVars, behind>>

Waiting == [at |-> "waiting", clip |-> None]
Idle    == [at |-> "idle", clip |-> None, from |-> None]

TypeOK ==
    /\ backend \in {"probing", "none", "ready"} /\ feed \in {"none", "open", "dead"}
    /\ feed # "none" => backend = "ready"
    /\ selection \in Texts \cup {Odd}
    /\ changes \in Nat
    /\ watcher \in [at : {"waiting", "reading", "hashing", "sending"}, clip : Texts \cup {None}]
    /\ watcher.clip # None <=> watcher.at \in {"hashing", "sending"}
    /\ handler \in [at : {"idle", "writing", "relaying"}, clip : Texts \cup {None},
                    from : Phones \cup {None}]
    /\ handler.clip = None <=> handler.at = "idle"
    /\ handler.from = None <=> handler.at = "idle"
    /\ last_hash \in Texts \cup {None}
    /\ connected \subseteq Phones /\ paired \subseteq Phones
    /\ up \in [Phones -> Seq(Texts)] /\ down \in [Phones -> Seq(Texts)]
    /\ holds \in [Phones -> Texts \cup {None}]
    /\ copies \in 0..MaxCopies /\ sends \in 0..MaxSends
    /\ copied \subseteq Texts /\ crossed \in BOOLEAN /\ behind \in BOOLEAN

-----------------------------------------------------------------------------
Init ==
    /\ backend = "probing" /\ feed = "none" /\ selection \in Texts \cup {Odd}
    /\ changes = 0 /\ watcher = Waiting /\ handler = Idle /\ last_hash = None
    /\ connected = {} /\ paired \in SUBSET Phones
    /\ up = [p \in Phones |-> <<>>] /\ down = [p \in Phones |-> <<>>]
    /\ holds = [p \in Phones |-> None]
    /\ copies = 0 /\ sends = 0
    /\ copied = {} /\ crossed = FALSE /\ behind = FALSE

\* A received clip is on its way to the selection and the other phones.
Receiving == handler.at # "idle" \/ \E p \in Phones : up[p] # <<>>

\* Nothing is under way: no notification, no clip, no call.
Quiet ==
    /\ changes = 0 /\ watcher = Waiting /\ ~Receiving
    /\ \A p \in Phones : down[p] = <<>>

\* should_broadcast: TRUE, and remembered, unless c is what went last.
ShouldBroadcast(c) == last_hash # c /\ last_hash' = c

\* send_clipboard on each of these phones' handles.
SendTo(ps, c) == down' = [p \in Phones |-> IF p \in ps THEN Append(down[p], c) ELSE down[p]]

-----------------------------------------------------------------------------
(* The daemon's start, beside the orchestrator.                             *)

\* probe: the extension owns its name, or does not; nobody asks again.
Probe(found) ==
    /\ backend = "probing"
    /\ backend' = found
    /\ UNCHANGED <<feed, selection, daemonVars, peerVars, linkVars, userVars, behind>>

\* watch: the subscription is made, or fails, in a task of its own.
Subscribe(result) ==
    /\ backend = "ready" /\ feed = "none"
    /\ feed' = result
    /\ UNCHANGED <<backend, selection, daemonVars, peerVars, linkVars, userVars, behind>>

-----------------------------------------------------------------------------
(* The people.                                                              *)

\* The selection gets an owner -- a new content, or the same again -- and the
\* extension emits OwnerChange, which says nothing of the content.
SetOwner(c, told) == selection' = c /\ changes' = IF told THEN changes + 1 ELSE changes

\* The watcher is told if it has subscribed and the extension is on.
Copy(c) ==
    /\ copies < MaxCopies
    /\ copies' = copies + 1
    /\ \E told \in {FALSE, feed = "open"} :
          SetOwner(c, told) /\ behind' = (behind \/ ~told)
    /\ copied' = copied \cup ({c} \cap Texts)
    /\ crossed' = (crossed \/ Receiving)
    /\ UNCHANGED <<startVars, watcher, handler, last_hash, peerVars, linkVars, sends>>

\* One tap on the phone: its clipboard, whatever it holds by now, goes to the daemon.
PhoneSends(p, c) ==
    /\ p \in connected
    /\ sends < MaxSends
    /\ sends' = sends + 1
    /\ up' = [up EXCEPT ![p] = Append(@, c)]
    /\ holds' = [holds EXCEPT ![p] = c]
    /\ crossed' = (crossed \/ ~Quiet)
    /\ UNCHANGED <<startVars, selection, daemonVars, peerVars, down, copies, copied, behind>>

\* The core's event reaches the app, which writes it to the phone's clipboard.
PhoneApplies(p) ==
    /\ down[p] # <<>>
    /\ holds' = [holds EXCEPT ![p] = Head(down[p])]
    /\ down' = [down EXCEPT ![p] = Tail(@)]
    /\ UNCHANGED <<startVars, selection, daemonVars, peerVars, up, userVars, behind>>

-----------------------------------------------------------------------------
(* watch_and_broadcast.                                                     *)

\* A change: ask the extension for the text.
WatchTakes ==
    /\ watcher.at = "waiting" /\ changes > 0
    /\ changes' = changes - 1
    /\ watcher' = [Waiting EXCEPT !.at = "reading"]
    /\ UNCHANGED <<startVars, selection, handler, last_hash, peerVars, linkVars, userVars, behind>>

\* Clip::new; mutated, without its cap.
ClipAcceptsAll(c) == TRUE
ClipAccepts(c) == c \in Texts

\* The extension reads the selection as it is now, not as it was at the change.
WatchReads ==
    /\ watcher.at = "reading"
    /\ watcher' = IF ClipAccepts(selection) THEN [at |-> "hashing", clip |-> selection]
                                         ELSE Waiting
    /\ behind' = FALSE
    /\ UNCHANGED <<startVars, selection, changes, handler, last_hash, peerVars, linkVars, userVars>>

WatchReadFails ==
    /\ watcher.at = "reading"
    /\ watcher' = Waiting
    /\ behind' = TRUE
    /\ UNCHANGED <<startVars, selection, changes, handler, last_hash, peerVars, linkVars, userVars>>

WatchHashes ==
    /\ watcher.at = "hashing"
    /\ \/ ShouldBroadcast(watcher.clip) /\ watcher' = [watcher EXCEPT !.at = "sending"]
       \/ last_hash = watcher.clip /\ watcher' = Waiting /\ UNCHANGED last_hash
    /\ UNCHANGED <<startVars, selection, changes, handler, peerVars, linkVars, userVars, behind>>

\* To every handle in connected_devices, whatever device that is; mutated, what was
\* notified meanwhile counts as sent.
WatchSendsAll ==
    /\ watcher.at = "sending"
    /\ SendTo(connected, watcher.clip)
    /\ watcher' = Waiting /\ changes' = 0
    /\ UNCHANGED <<startVars, selection, handler, last_hash, peerVars, up, holds, userVars, behind>>

WatchSends ==
    /\ watcher.at = "sending"
    /\ SendTo(connected, watcher.clip)
    /\ watcher' = Waiting
    /\ UNCHANGED <<startVars, selection, changes, handler, last_hash, peerVars, up, holds,
                   userVars, behind>>

-----------------------------------------------------------------------------
(* handle_received, awaited by the orchestrator's loop.                     *)

\* Mutated, the hash is only compared.
ReceiveCompares(p) ==
    /\ handler.at = "idle" /\ up[p] # <<>>
    /\ up' = [up EXCEPT ![p] = Tail(@)]
    /\ handler' = IF p \in paired /\ last_hash # Head(up[p])
                  THEN [at |-> "writing", clip |-> Head(up[p]), from |-> p] ELSE handler
    /\ UNCHANGED <<startVars, selection, changes, watcher, last_hash, peerVars, down, holds,
                   userVars, behind>>

\* An unpaired sender and a content that went last are dropped; the check of the
\* sender and the lock on last_hash follow each other.
Receive(p) ==
    /\ handler.at = "idle" /\ up[p] # <<>>
    /\ up' = [up EXCEPT ![p] = Tail(@)]
    /\ LET c == Head(up[p]) IN
       \/ /\ p \in paired
          /\ ShouldBroadcast(c)
          /\ handler' = [at |-> "writing", clip |-> c, from |-> p]
       \/ /\ p \notin paired \/ last_hash = c
          /\ UNCHANGED <<last_hash, handler>>
    /\ UNCHANGED <<startVars, selection, changes, watcher, peerVars, down, holds, userVars, behind>>

\* SetText, which the watcher is told of if it has subscribed ...
WriteLocally ==
    /\ handler.at = "writing" /\ backend = "ready"
    /\ SetOwner(handler.clip, feed = "open")
    /\ behind' = FALSE
    /\ handler' = [handler EXCEPT !.at = "relaying"]
    /\ UNCHANGED <<startVars, watcher, last_hash, peerVars, linkVars, userVars>>

\* ... unless there is nothing to call, or nothing yet: the clip is not applied here ...
WriteNowhere ==
    /\ handler.at = "writing" /\ backend # "ready"
    /\ handler' = [handler EXCEPT !.at = "relaying"]
    /\ behind' = TRUE
    /\ UNCHANGED <<startVars, selection, changes, watcher, last_hash, peerVars, linkVars, userVars>>

\* ... or the call fails, which is only logged; mutated, it ends the handler.
WriteFailsEnds ==
    /\ handler.at = "writing" /\ backend = "ready"
    /\ handler' = Idle
    /\ behind' = TRUE
    /\ UNCHANGED <<startVars, selection, changes, watcher, last_hash, peerVars, linkVars, userVars>>

WriteFails ==
    /\ handler.at = "writing" /\ backend = "ready"
    /\ handler' = [handler EXCEPT !.at = "relaying"]
    /\ behind' = TRUE
    /\ UNCHANGED <<startVars, selection, changes, watcher, last_hash, peerVars, linkVars, userVars>>

\* To every handle but the sender's.
Relay ==
    /\ handler.at = "relaying"
    /\ SendTo(connected \ {handler.from}, handler.clip)
    /\ handler' = Idle
    /\ UNCHANGED <<startVars, selection, changes, watcher, last_hash, peerVars, up, holds,
                   userVars, behind>>

-----------------------------------------------------------------------------
(* Sessions, as the orchestrator's other events change them.                *)

Join(p) ==
    /\ handler.at = "idle" /\ p \notin connected
    /\ connected' = connected \cup {p}
    /\ UNCHANGED <<startVars, selection, daemonVars, paired, linkVars, userVars, behind>>

\* Closed: what the phone was still being sent, and what it sent in vain, is lost.
Leave(p) ==
    /\ handler.at = "idle" /\ p \in connected
    /\ connected' = connected \ {p}
    /\ up' = [up EXCEPT ![p] = <<>>] /\ down' = [down EXCEPT ![p] = <<>>]
    /\ holds' = [holds EXCEPT ![p] = None]
    /\ UNCHANGED <<startVars, selection, daemonVars, paired, userVars, behind>>

\* A D-Bus call of its own, which may come between any two steps.
Unpair(p) ==
    /\ p \in paired
    /\ paired' = paired \ {p}
    /\ UNCHANGED <<startVars, selection, daemonVars, connected, linkVars, userVars, behind>>

-----------------------------------------------------------------------------
Next ==
    \/ \E found \in {"none", "ready"} : Probe(found)
    \/ \E result \in {"open", "dead"} : Subscribe(result)
    \/ \E c \in Texts \cup {Odd} : Copy(c)
    \/ WatchTakes \/ WatchReads \/ WatchReadFails \/ WatchHashes \/ WatchSends
    \/ WriteLocally \/ WriteNowhere \/ WriteFails \/ Relay
    \/ \E p \in Phones :
          \/ \E c \in Texts : PhoneSends(p, c)
          \/ PhoneApplies(p) \/ Receive(p) \/ Join(p) \/ Leave(p) \/ Unpair(p)

Spec == Init /\ [][Next]_vars

-----------------------------------------------------------------------------
\* "Setting the hash here first means that loop sees nothing new and doesn't send it
\* right back out" (clipboard.rs:182): the watcher only sends out what somebody has
\* copied on the Linux side ...
NeverSentBack == watcher.at = "sending" => watcher.clip \in copied

\* ... which the code keeps as long as no two clips cross.  Notifications may pile up,
\* and reads and writes may fail.
NoEchoUnlessCrossed == ~crossed => NeverSentBack

\* What makes it last.  A clip on its way up, or about to be written, is alone: a phone
\* sends it when nothing is under way, and nobody copies before it has been relayed ...
ReceivedAlone ==
    /\ \A p \in Phones : up[p] # <<>> =>
          /\ Len(up[p]) = 1 /\ \A q \in Phones \ {p} : up[q] = <<>>
          /\ handler = Idle
    /\ (\E p \in Phones : up[p] # <<>>) \/ handler.at = "writing" =>
          changes = 0 /\ watcher = Waiting
    /\ handler.at = "writing" => last_hash = handler.clip

\* ... and a content that nobody copied here is recognised when it comes back.
WrittenIsKnown ==
    /\ selection \notin copied \cup {Odd} /\ (changes > 0 \/ watcher.at # "waiting") =>
          /\ selection = last_hash
          /\ watcher.at \in {"waiting", "reading"} \/ watcher.clip = selection
    /\ watcher.at = "hashing" => watcher.clip \in copied \cup {last_hash}

EchoInv == ~crossed => ReceivedAlone /\ WrittenIsKnown /\ NeverSentBack

\* Both loops fan out in the order in which they pass last_hash: once nothing is under
\* way, every paired phone that got or sent anything on its connection has the clip the
\* daemon dealt with last -- even if writing it to GNOME failed -- unless clips crossed.
PhonesAgree ==
    Quiet /\ ~crossed =>
        \A p \in connected \cap paired : holds[p] \in {None, last_hash}

\* The clip a phone has last sent or will last have applied.
Latest(p) == IF down[p] = <<>> THEN holds[p] ELSE down[p][Len(down[p])]

\* What makes it last.  While a received clip is on its way no phone has anything to
\* apply, its sender holds it, and the watcher recognises what the handler wrote ...
FanOutAlone ==
    /\ Receiving => \A p \in Phones : down[p] = <<>>
    /\ \A p \in Phones : up[p] # <<>> => holds[p] = Head(up[p])
    /\ handler.at # "idle" => last_hash = handler.clip /\ holds[handler.from] = handler.clip
    /\ handler.at = "relaying" =>
          /\ watcher.at = "hashing" => watcher.clip = last_hash
          /\ changes > 0 \/ watcher.at = "reading" => selection = last_hash
    /\ watcher.at = "sending" => watcher.clip = last_hash /\ ~Receiving
    /\ \A p \in Phones \ connected : up[p] = <<>> /\ down[p] = <<>> /\ holds[p] = None

\* ... so that every phone has the latest clip, or is about to be sent it, or sent it.
LatestKnown ==
    \A p \in connected \cap paired :
        \/ Latest(p) \in {None, last_hash}
        \/ watcher.at = "sending" \/ handler.at # "idle" \/ up[p] # <<>>

AgreeInv == ~crossed => ReceivedAlone /\ FanOutAlone /\ LatestKnown

\* A notification that names no content and several changes behind one read lose no
\* copy: what GNOME's clipboard holds in the end is what went out last, even if clips
\* crossed, because a write announces itself as a copy does.  Until its next read or
\* write the daemon may be behind: after a copy it was not told of -- before the watcher
\* has subscribed, or with the extension off -- and after a read or a write that failed,
\* or a clip that came when there was no backend to write it to.
SelectionIsShared ==
    Quiet /\ ~behind => last_hash = None \/ selection \in {last_hash, Odd}

\* What makes it last: without a notification left, the watcher's clip is the selection's
\* content, and so is last_hash once the watcher is past it and no write is due; and a
\* watcher that has not subscribed disturbs no write.
SharedInv ==
    /\ ~behind /\ changes = 0 =>
          /\ watcher.at = "hashing" => selection = watcher.clip
          /\ watcher.at \in {"waiting", "sending"} /\ handler.at # "writing" =>
                last_hash = None \/ selection \in {last_hash, Odd}
    /\ feed # "open" =>
          /\ changes = 0 /\ watcher = Waiting
          /\ handler.at = "writing" => last_hash = handler.clip
=============================================================================
