---------------------------- MODULE FirstContact ----------------------------
(***************************************************************************)
(* How a phone comes to know a daemon, and why it finds it again: the start *)
(* of a daemon process (configuration, identity files, port, bus name), the *)
(* pairing code it shows, and what the phone makes of the code it scanned.  *)
(* Any number of daemon processes may be started, and die, at any point;    *)
(* what they have written is then on disk.                                 *)
(***************************************************************************)
EXTENDS Integers, Sequences, SequencesExt

CONSTANTS
    Procs,     \* daemon processes that may be started side by side
    MaxIds,    \* bound: keypairs generated
    Ips,       \* addresses of the machine
    Ephemeral  \* bound: ports the system picks when it is asked for any

ASSUME IdsAssumption == MaxIds \in Nat /\ Procs # {} /\ Ips # {}

Ids  == 1..MaxIds
None == 0

\* What config.toml can say: nothing, nonsense, any port (0), or a port of its own.
Absent == -2
Malformed == -1
AnyPort == 0
DefaultPort == 1
OwnPort == 2
Configs == {Absent, Malformed, AnyPort, OwnPort}
ASSUME EphemeralAssumption == Ephemeral \subseteq Nat \ (0..OwnPort)

VARIABLES
    key,      \* identity-key.pem: a keypair, None if absent or half written
    keyFile,  \* whether that file exists
    cert,     \* whether identity-cert.pem does
    config,   \* config.toml
    ip,       \* the machine's outbound address, None while it has no route
    at,       \* how far a process has come
    want,     \* the port its configuration says
    me,       \* its Identity, by keypair
    port,     \* the port it has bound, or None
    made,     \* keypairs generated so far
    first,    \* history: the identity of the first process that served, or None
    raced,    \* history: a keypair was generated while another was being saved
    pins,     \* the identities the phone has pinned
    target,   \* the address the phone dials: <<ip, port>>, or <<>>
    settled   \* history: since the phone scanned the code of a daemon that ran with
              \* the present config.toml, neither that nor the network has changed

files     == <<key, keyFile, cert>>
procVars  == <<at, want, me, port, made, first, raced>>
phoneVars == <<pins, target, settled>>
vars == <<files, config, ip, procVars, phoneVars>>

Loopback == None
Stages == {"off", "check", "load", "key", "half", "cert", "bind", "bus", "serving"}

TypeOK ==
    /\ key \in Ids \cup {None} /\ keyFile \in BOOLEAN /\ cert \in BOOLEAN
    /\ config \in Configs /\ ip \in Ips \cup {None}
    /\ at \in [Procs -> Stages]
    /\ want \in [Procs -> {AnyPort, DefaultPort, OwnPort}]
    /\ me \in [Procs -> Ids \cup {None}]
    /\ port \in [Procs -> {None, DefaultPort, OwnPort} \cup Ephemeral]
    /\ made \in 0..MaxIds /\ first \in Ids \cup {None} /\ raced \in BOOLEAN
    /\ pins \subseteq Ids /\ settled \in BOOLEAN

Init ==
    /\ key = None /\ keyFile = FALSE /\ cert = FALSE
    /\ config \in Configs /\ ip \in Ips \cup {None}
    /\ at = [p \in Procs |-> "off"] /\ want = [p \in Procs |-> DefaultPort]
    /\ me = [p \in Procs |-> None] /\ port = [p \in Procs |-> None]
    /\ made = 0 /\ first = None /\ raced = FALSE
    /\ pins = {} /\ target = <<>> /\ settled = FALSE

-----------------------------------------------------------------------------
(* A daemon process starts.                                                 *)

\* A missing or malformed config.toml says the default; mutated, a malformed one leaves
\* the port to the system, or both are taken as they are.
Verbatim(c) == c
MalformedIsAny(c) == IF c = Absent THEN DefaultPort ELSE IF c = Malformed THEN AnyPort ELSE c
PortOf(c) == IF c \in {Absent, Malformed} THEN DefaultPort ELSE c

Goes(p, there) == at' = [at EXCEPT ![p] = there]

Launch(p) ==
    /\ at[p] = "off"
    /\ Goes(p, "check")
    /\ want' = [want EXCEPT ![p] = PortOf(config)]
    /\ UNCHANGED <<files, config, ip, me, port, made, first, raced, phoneVars>>

\* load_or_generate goes by the files that exist; mutated, by the key's alone.
KeyFound == keyFile
Found == keyFile /\ cert

CheckLoads(p) ==
    /\ at[p] = "check" /\ Found
    /\ Goes(p, "load")
    /\ UNCHANGED <<files, config, ip, want, me, port, made, first, raced, phoneVars>>

\* Saving(q): another process is between its check and its certificate.
Saving(q) == at[q] \in {"key", "half", "cert"}

CheckGenerates(p) ==
    /\ at[p] = "check" /\ ~Found
    /\ made < MaxIds
    /\ made' = made + 1
    /\ me' = [me EXCEPT ![p] = made + 1]
    /\ raced' = (raced \/ \E q \in Procs \ {p} : Saving(q))
    /\ Goes(p, "key")
    /\ UNCHANGED <<files, config, ip, want, port, first, phoneVars>>

\* The file is not a key: "failed to load or generate device identity", exit.
Dies(p) ==
    /\ Goes(p, "off")
    /\ want' = [want EXCEPT ![p] = DefaultPort]
    /\ me' = [me EXCEPT ![p] = None]
    /\ port' = [port EXCEPT ![p] = None]

LoadFails(p) ==
    /\ at[p] = "load" /\ key = None
    /\ Dies(p)
    /\ UNCHANGED <<files, config, ip, made, first, raced, phoneVars>>

Load(p) ==
    /\ at[p] = "load" /\ key # None
    /\ me' = [me EXCEPT ![p] = key]
    /\ Goes(p, "bind")
    /\ UNCHANGED <<files, config, ip, want, port, made, first, raced, phoneVars>>

\* save: the key's file is created, then filled, and the certificate's comes last.
CreateKey(p) ==
    /\ at[p] = "key"
    /\ key' = None /\ keyFile' = TRUE
    /\ Goes(p, "half")
    /\ UNCHANGED <<cert, config, ip, want, me, port, made, first, raced, phoneVars>>

FillKey(p) ==
    /\ at[p] = "half"
    /\ key' = me[p]
    /\ Goes(p, "cert")
    /\ UNCHANGED <<keyFile, cert, config, ip, want, me, port, made, first, raced, phoneVars>>

\* Mutated, the certificate is held to be for inspection only.
KeyIsEnough == UNCHANGED cert
SaveCert == cert' = TRUE

WriteCert(p) ==
    /\ at[p] = "cert"
    /\ SaveCert
    /\ Goes(p, "bind")
    /\ UNCHANGED <<key, keyFile, config, ip, want, me, port, made, first, raced, phoneVars>>

\* Endpoint::listening: a fixed port can be taken.
Free(n) == \A q \in Procs : port[q] # n

Bind(p) ==
    /\ at[p] = "bind"
    /\ \E n \in IF want[p] = AnyPort THEN Ephemeral ELSE {want[p]} :
          Free(n) /\ port' = [port EXCEPT ![p] = n]
    /\ Goes(p, "bus")
    /\ UNCHANGED <<files, config, ip, want, me, made, first, raced, phoneVars>>

\* The bus name has one owner.
OwnName(p) ==
    /\ at[p] = "bus"
    /\ \A q \in Procs : at[q] # "serving"
    /\ Goes(p, "serving")
    /\ first' = IF first = None THEN me[p] ELSE first
    /\ UNCHANGED <<files, config, ip, want, me, port, made, raced, phoneVars>>

\* The process ends: killed, or because a file, the port or the name was not to be had.
Exit(p) ==
    /\ at[p] # "off"
    /\ Dies(p)
    /\ UNCHANGED <<files, config, ip, made, first, raced, phoneVars>>

-----------------------------------------------------------------------------
(* The code: a URI with a list of fields.  A value is <<>> when it does not *)
(* parse; a name always does.                                              *)

Version == <<1>>
Pair(k, v) == [key |-> k, val |-> v]

\* candidate_addrs: the outbound address, if there is a route, and the loopback.
Addrs(p) ==
    IF ip = None THEN <<<<Loopback, port[p]>>>>
    ELSE <<<<ip, port[p]>>, <<Loopback, port[p]>>>>

\* encode_qr_uri.
Code(p) ==
    [scheme |-> "penguinsync",
     fields |-> <<Pair("v", Version), Pair("id", <<me[p]>>), Pair("name", <<1>>)>>
                \o [i \in DOMAIN Addrs(p) |-> Pair("addr", Addrs(p)[i])]
                \o <<Pair("token", <<1>>)>>]

\* What decode_qr_uri makes of one field after another; mutated, of the first of them
\* with the same key.
Nothing == [error |-> "none", v |-> <<>>, id |-> <<>>, name |-> <<>>, addr |-> <<>>,
            token |-> <<>>]

Kept(seen, f) == IF seen[f.key] = <<>> THEN [seen EXCEPT ![f.key] = f.val] ELSE seen
Replaced(seen, f) == [seen EXCEPT ![f.key] = f.val]

Field(seen, f) ==
    IF seen.error # "none" \/ f.key = "other" THEN seen
    ELSE IF f.val = <<>> THEN [seen EXCEPT !.error = "malformed"]
    ELSE IF f.key = "addr" THEN [seen EXCEPT !.addr = Append(@, f.val)]
    ELSE Replaced(seen, f)

Complete(seen) == \A k \in {"v", "id", "name", "token"} : seen[k] # <<>>

Decode(c) ==
    IF c.scheme # "penguinsync" THEN [Nothing EXCEPT !.error = "scheme"]
    ELSE LET seen == FoldLeft(Field, Nothing, c.fields) IN
         IF seen.error = "none" /\ ~Complete(seen)
         THEN [seen EXCEPT !.error = "missing"] ELSE seen

\* Codes that a camera, or somebody who types them in, takes for the one of p: with at
\* most one field lost, spoilt, or added at either end, or of another scheme.
Extra == {Pair("v", <<2>>), Pair("id", <<MaxIds + 1>>), Pair("id", <<>>),
          Pair("addr", <<>>), Pair("other", <<>>)}
Codes(p) ==
    LET c == Code(p)
        f == c.fields
        With(g) == [c EXCEPT !.fields = g]
        Spoilable == {i \in DOMAIN f : f[i].key # "name"} IN
    {c, [c EXCEPT !.scheme = "https"]}
        \cup {With(RemoveAt(f, i)) : i \in DOMAIN f}
        \cup {With([f EXCEPT ![i].val = <<>>]) : i \in Spoilable}
        \cup {With(Append(f, x)) : x \in Extra} \cup {With(<<x>> \o f) : x \in Extra}

-----------------------------------------------------------------------------
(* The phone scans the code that p shows, or one that is nearly that.       *)

\* pair()'s early returns.
Acceptable(d) == d.error = "none" /\ d.v = Version /\ d.addr # <<>>

Scan(p) ==
    /\ at[p] = "serving"
    /\ \E c \in Codes(p) :
        LET d == Decode(c) IN
        /\ Acceptable(d)
        /\ d.id[1] \in Ids
        /\ pins' = pins \cup {d.id[1]}
        /\ target' = Head(d.addr)
        /\ settled' = (c = Code(p) /\ ip # None /\ want[p] = PortOf(config))
    /\ UNCHANGED <<files, config, ip, procVars>>

\* The user edits config.toml; the machine moves to another network.
Edit ==
    /\ config' \in Configs \ {config}
    /\ settled' = FALSE
    /\ UNCHANGED <<files, ip, procVars, pins, target>>

Roam ==
    /\ ip' \in (Ips \cup {None}) \ {ip}
    /\ settled' = FALSE
    /\ UNCHANGED <<files, config, procVars, pins, target>>

-----------------------------------------------------------------------------
Start(p) ==
    \/ CheckLoads(p) \/ CheckGenerates(p) \/ Load(p) \/ LoadFails(p)
    \/ CreateKey(p) \/ FillKey(p) \/ WriteCert(p) \/ Bind(p) \/ OwnName(p)

Next ==
    \/ \E p \in Procs : Launch(p) \/ Start(p) \/ Exit(p) \/ Scan(p)
    \/ Edit \/ Roam

Spec == Init /\ [][Next]_vars

-----------------------------------------------------------------------------
\* Whoever serves, serves under the identity that was first served, and no start fails
\* because of what an earlier one left behind: the peers' pins outlive every crash, also
\* one in the middle of the first start, unless two first starts ran into each other.
IdentityIsStable ==
    ~raced => \A p \in Procs :
        /\ at[p] = "serving" => me[p] = first
        /\ at[p] = "load" => key # None

\* The phone that has scanned a daemon's code can dial it and will accept its key,
\* whatever restarts follow, as long as nobody changes the configured port and the
\* machine keeps its address (and no process that still runs with an older
\* configuration takes over the bus name).
StillReachable ==
    settled /\ ~raced /\ config # AnyPort =>
        \A p \in Procs : at[p] = "serving" /\ want[p] = PortOf(config) =>
            target = <<ip, port[p]>> /\ me[p] \in pins

\* decode_qr_uri against what a code means: every field it knows must parse, each
\* required one must be there, the last of several counts, and the addresses keep
\* their order.
Places(c, k) == {i \in DOMAIN c.fields : c.fields[i].key = k}
Required == {"v", "id", "name", "token"}
Meaningful(c) ==
    /\ c.scheme = "penguinsync"
    /\ \A i \in DOMAIN c.fields : c.fields[i].key # "other" => c.fields[i].val # <<>>
    /\ \A k \in Required : Places(c, k) # {}

IsRight(c) ==
    LET d == Decode(c)
        Addresses == Places(c, "addr") IN
    /\ d.error = "none" <=> Meaningful(c)
    /\ Meaningful(c) =>
          /\ \A k \in Required : d[k] = c.fields[Max(Places(c, k))].val
          /\ Len(d.addr) = Cardinality(Addresses)
          /\ \A i \in Addresses :
                d.addr[Cardinality({j \in Addresses : j <= i})] = c.fields[i].val

DecodeIsRight == \A p \in Procs : at[p] = "serving" => \A c \in Codes(p) : IsRight(c)
=============================================================================
