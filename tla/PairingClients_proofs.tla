------------------------ MODULE PairingClients_proofs ------------------------
(***************************************************************************)
(* For any number of TUIs, CLIs, phones and tokens: the type invariant, the *)
(* prompt that belongs to the question, the answer that stays, the refresh  *)
(* that hurts nobody, and that the clients are clients of PairingService.   *)
(***************************************************************************)
EXTENDS PairingClients, TLAPS

ServiceTypeOK ==
    /\ left \in [Tokens -> 0..TTL]
    /\ minting \subseteq Tokens /\ shown \subseteq Tokens
    /\ current \in Tokens \cup {None} /\ redeemed \in BOOLEAN
    /\ asked \in Devices \cup {None} /\ waiting \in BOOLEAN /\ pending \subseteq Devices
    /\ answer \in {"none", "yes", "no"} /\ trusted \subseteq Devices

\* An answer is one to a question that is waited on, and its sender is used up.
AnswerInv ==
    /\ waiting => asked # None
    /\ answer # "none" => waiting /\ asked \notin pending

\* A code on a screen is a token that was shown, and its time on the screen is not over
\* before the token's is: the token was minted first.
ScreenInv ==
    \A u \in Tuis : qr[u] # None => qr[u] \in shown /\ left[qr[u]] <= life[u]

Types == ServiceTypeOK /\ ClientsTypeOK
IInv == Types /\ PromptIsCurrent /\ AnswerInv /\ ScreenInv

-----------------------------------------------------------------------------
(* The last of a queue.                                                     *)

\* What is put at the end of a queue is its last, ...
LEMMA AppendedIsLast ==
    ASSUME NEW S, NEW q \in Seq(S), NEW x \in S
    PROVE  Append(q, x) \in Seq(S) /\ Append(q, x) # <<>> /\ Last(Append(q, x)) = x
  BY DEF Last

\* ... and stays it while the front is taken away, unless it is the front.
LEMMA LastStays ==
    ASSUME NEW S, NEW q \in Seq(S), q # <<>>
    PROVE  /\ Head(q) \in S /\ Tail(q) \in Seq(S)
           /\ IF Tail(q) = <<>> THEN Last(q) = Head(q) ELSE Last(Tail(q)) = Last(q)
  <1>1. Head(q) \in S /\ Tail(q) \in Seq(S) /\ Len(q) \in Nat \ {0}
    OBVIOUS
  <1>2. Len(Tail(q)) = Len(q) - 1 /\ Head(q) = q[1]
    OBVIOUS
  <1>3. CASE Tail(q) = <<>>
    <2>1. Len(q) = 1
      BY <1>1, <1>2, <1>3
    <2> QED
      BY <1>2, <1>3, <2>1 DEF Last
  <1>4. CASE Tail(q) # <<>>
    <2>1. Len(q) > 1
      BY <1>1, <1>2, <1>4
    <2>2. Tail(q)[Len(q) - 1] = q[Len(q)]
      BY <1>1, <2>1
    <2> QED
      BY <1>2, <1>4, <2>2 DEF Last
  <1> QED
    BY <1>1, <1>3, <1>4

-----------------------------------------------------------------------------
(* The service's own variables.                                            *)

\* An operation of the service, or a step that is none of its business.
ServiceStep ==
    \/ Listen \/ GiveUp \/ Trust \/ Tick \/ UNCHANGED serviceVars
    \/ \E t \in Tokens : Mint(t) \/ Return(t)
    \/ \E d \in Devices : Ask(d) \/ Revoke(d)
    \/ \E d \in Devices, accept \in BOOLEAN : Confirm(d, accept)

\* No operation of the service breaks its types, or answers but the question it waits on.
LEMMA ServiceKeeps ==
    ASSUME ServiceTypeOK, AnswerInv, ServiceStep
    PROVE  ServiceTypeOK' /\ AnswerInv'
  <1> USE ServiceAssumption DEF ServiceTypeOK, AnswerInv, tokenVars, questionVars
  <1>1. CASE Listen
    BY <1>1 DEF Listen
  <1>2. CASE GiveUp
    BY <1>2 DEF GiveUp, Over
  <1>3. CASE Trust
    BY <1>3 DEF Trust, Over
  <1>4. CASE Tick
    BY <1>4 DEF Tick
  <1>5. CASE UNCHANGED serviceVars
    BY <1>5 DEF serviceVars, vars
  <1>6. ASSUME NEW t \in Tokens, Mint(t) PROVE ServiceTypeOK' /\ AnswerInv'
    <2>1. left' \in [Tokens -> 0..TTL]
      BY <1>6 DEF Mint
    <2> QED
      BY <1>6, <2>1 DEF Mint
  <1>7. ASSUME NEW t \in Tokens, Return(t) PROVE ServiceTypeOK' /\ AnswerInv'
    BY <1>7 DEF Return
  <1>8. ASSUME NEW d \in Devices, Ask(d) PROVE ServiceTypeOK' /\ AnswerInv'
    BY <1>8 DEF Ask
  <1>9. ASSUME NEW d \in Devices, Revoke(d) PROVE ServiceTypeOK' /\ AnswerInv'
    BY <1>9 DEF Revoke
  <1>10. ASSUME NEW d \in Devices, NEW accept \in BOOLEAN, Confirm(d, accept)
         PROVE  ServiceTypeOK' /\ AnswerInv'
    BY <1>10 DEF Confirm, OtherSenders
  <1> QED
    BY <1>1, <1>2, <1>3, <1>4, <1>5, <1>6, <1>7, <1>8, <1>9, <1>10 DEF ServiceStep

\* What a step of the clients is to the service.
LEMMA IsServiceStep ==
    ASSUME Types, [ClientsNext]_allVars PROVE ServiceStep
  <1>1. CASE DaemonStep
    BY <1>1 DEF DaemonStep, Types, ServiceTypeOK, ServiceStep
  <1>2. CASE TimePasses
    BY <1>2 DEF TimePasses, ServiceStep
  <1>3. ASSUME NEW d \in Devices, Requested(d) PROVE Ask(d)
    BY <1>3 DEF Requested
  <1>4. ASSUME NEW u \in Tuis, PressP(u) \/ Refresh(u) PROVE \E t \in Tokens : Mint(t)
    BY <1>4 DEF PressP, Refresh, Calls
  <1>5. ASSUME NEW u \in Tuis, Started(u) PROVE \E t \in Tokens : Return(t)
    BY <1>5 DEF Started, Types, ClientsTypeOK
  <1>6. ASSUME NEW u \in Tuis, Dismiss(u) \/ Quit(u) \/ Launch(u) \/ Prompt(u)
        PROVE  UNCHANGED serviceVars
    BY <1>6 DEF Dismiss, Quit, Launch, Prompt
  <1>7. ASSUME NEW u \in Tuis, NEW accept \in BOOLEAN, Answers(u, accept)
        PROVE  \E d \in Devices : Confirm(d, accept)
    BY <1>7 DEF Answers, Types, ClientsTypeOK
  <1>8. ASSUME NEW c \in Clis, CliStarts(c) PROVE \E t \in Tokens : Mint(t)
    BY <1>8 DEF CliStarts
  <1>9. ASSUME NEW c \in Clis, CliPrints(c) PROVE \E t \in Tokens : Return(t)
    <2>1. mine[c] \in Tokens \cup {None} /\ Return(mine[c])
      BY <1>9 DEF CliPrints, Types, ClientsTypeOK
    <2>2. mine[c] \in Tokens
      BY <2>1 DEF Return, Types, ServiceTypeOK
    <2> QED
      BY <2>1, <2>2
  <1>10. ASSUME NEW c \in Clis, CliSubscribes(c) \/ CliGivesUp(c) PROVE UNCHANGED serviceVars
    BY <1>10 DEF CliSubscribes, CliGivesUp
  <1>11. ASSUME NEW c \in Clis, NEW accept \in BOOLEAN, CliAnswers(c, accept)
         PROVE  \E d \in Devices : Confirm(d, accept)
    BY <1>11 DEF CliAnswers, Types, ClientsTypeOK
  <1>12. CASE UNCHANGED allVars
    BY <1>12 DEF allVars, ServiceStep
  <1> QED
    BY <1>1, <1>2, <1>3, <1>4, <1>5, <1>6, <1>7, <1>8, <1>9, <1>10, <1>11, <1>12
       DEF ClientsNext, TuiStep, CliStep, ServiceStep
-----------------------------------------------------------------------------
(* The clients' variables.                                                  *)

\* No step of a TUI breaks the clients' types.
LEMMA TuiTypes == ASSUME Types, NEW u \in Tuis, TuiStep(u) PROVE ClientsTypeOK'
  <1> USE ServiceAssumption DEF Types, ClientsTypeOK, screenVars, cliVars
  <1>1. CASE PressP(u) \/ Refresh(u)
    BY <1>1 DEF PressP, Refresh, Calls
  <1>2. CASE Started(u)
    <2>1. busy[u] \in Tokens /\ TTL \in 0..TTL /\ 0 \in 0..TTL
      BY <1>2 DEF Started, None
    <2>2. CASE Shows(u, busy[u])
      BY <1>2, <2>1, <2>2 DEF Started, Shows
    <2>3. CASE Hides(u)
      BY <1>2, <2>1, <2>3 DEF Started, Hides
    <2>4. CASE UNCHANGED <<qr, life>>
      BY <1>2, <2>4 DEF Started
    <2> QED
      BY <1>2, <2>2, <2>3, <2>4 DEF Started
  <1>3. CASE Dismiss(u)
    BY <1>3 DEF Dismiss, Hides
  <1>4. CASE Quit(u)
    <2>1. <<>> \in Seq(Devices)
      OBVIOUS
    <2> QED
      BY <1>4, <2>1 DEF Quit
  <1>5. CASE Launch(u)
    BY <1>5 DEF Launch
  <1>6. CASE Prompt(u)
    <2>1. Head(inbox[u]) \in Devices /\ Tail(inbox[u]) \in Seq(Devices)
      BY <1>6, LastStays DEF Prompt
    <2> QED
      BY <1>6, <2>1 DEF Prompt, NewestPrompt
  <1>7. ASSUME NEW accept \in BOOLEAN, Answers(u, accept) PROVE ClientsTypeOK'
    <2>1. 0 \in 0..TTL
      OBVIOUS
    <2>2. qr' \in [Tuis -> Tokens \cup {None}] /\ life' \in [Tuis -> 0..TTL]
      BY <1>7, <2>1 DEF Answers, Hides
    <2>3. past' \in [Tuis -> BOOLEAN] /\ conf' \in [Tuis -> Devices \cup {None}]
      BY <1>7 DEF Answers
    <2> QED
      BY <1>7, <2>2, <2>3 DEF Answers
  <1> QED
    BY <1>1, <1>2, <1>3, <1>4, <1>5, <1>6, <1>7 DEF TuiStep

\* Nor does one of a CLI.
LEMMA CliTypes == ASSUME Types, NEW c \in Clis, CliStep(c) PROVE ClientsTypeOK'
  <1> USE DEF Types, ClientsTypeOK, tuiVars, screenVars, Goes
  <1>1. CASE CliStarts(c)
    BY <1>1 DEF CliStarts
  <1>2. CASE CliPrints(c)
    BY <1>2 DEF CliPrints
  <1>3. CASE CliSubscribes(c)
    BY <1>3 DEF CliSubscribes
  <1>4. CASE CliGivesUp(c)
    BY <1>4 DEF CliGivesUp
  <1>5. ASSUME NEW accept \in BOOLEAN, CliAnswers(c, accept) PROVE ClientsTypeOK'
    BY <1>5 DEF CliAnswers
  <1> QED
    BY <1>1, <1>2, <1>3, <1>4, <1>5 DEF CliStep

\* Nor what the daemon does.
LEMMA ClientsTypes == ASSUME Types, [ClientsNext]_allVars PROVE ClientsTypeOK'
  <1> USE ServiceAssumption DEF Types, ClientsTypeOK, tuiVars, cliVars, screenVars
  <1>1. CASE DaemonStep
    BY <1>1 DEF DaemonStep
  <1>2. CASE TimePasses
    BY <1>2 DEF TimePasses, Remaining
  <1>3. ASSUME NEW d \in Devices, Requested(d) PROVE ClientsTypeOK'
    <2>1. \A u \in Tuis : Append(inbox[u], d) \in Seq(Devices)
      BY AppendedIsLast
    <2> QED
      BY <1>3, <2>1 DEF Requested
  <1>4. CASE UNCHANGED allVars
    BY <1>4 DEF allVars
  <1> QED
    BY <1>1, <1>2, <1>3, <1>4, TuiTypes, CliTypes DEF ClientsNext

-----------------------------------------------------------------------------
(* The prompt and the question.                                             *)

\* A TUI has the question that is asked.
Has(u) == asked # None /\ up[u] /\ ~past[u] =>
              IF inbox[u] = <<>> THEN conf[u] = asked ELSE Last(inbox[u]) = asked

\* What leaves the TUI and the question alone, or ends it, leaves this true.
LEMMA PromptStays ==
    ASSUME NEW u \in Tuis, Has(u), asked' = asked \/ asked' = None,
           up'[u] = up[u], past'[u] = past[u], inbox'[u] = inbox[u], conf'[u] = conf[u]
    PROVE  Has(u)'
  BY DEF Has

\* A TUI that takes its signals in order, and answers none before the last of them,
\* has the question on its screen or at the end of its queue.
LEMMA TuiPrompt ==
    ASSUME Types, \A u \in Tuis : Has(u), NEW v \in Tuis, TuiStep(v), NEW u \in Tuis
    PROVE  Has(u)'
  <1> USE DEF Types, ClientsTypeOK, screenVars, serviceVars, vars, questionVars
  <1>1. CASE PressP(v) \/ Refresh(v)
    BY <1>1, PromptStays DEF PressP, Refresh, Calls, Mint
  <1>2. CASE Started(v)
    BY <1>2, PromptStays DEF Started, Return
  <1>3. CASE Dismiss(v)
    BY <1>3, PromptStays DEF Dismiss
  <1>4. CASE Quit(v)
    BY <1>4 DEF Quit, Has
  <1>5. CASE Launch(v)
    BY <1>5 DEF Launch, Has
  <1>6. CASE Prompt(v) /\ u = v
    <2>1. /\ conf'[u] = Head(inbox[u]) /\ inbox'[u] = Tail(inbox[u])
          /\ up'[u] = up[u] /\ past'[u] = past[u] /\ asked' = asked
      BY <1>6 DEF Prompt, NewestPrompt
    <2>2. IF Tail(inbox[u]) = <<>> THEN Last(inbox[u]) = Head(inbox[u])
                                   ELSE Last(Tail(inbox[u])) = Last(inbox[u])
      BY <1>6, LastStays DEF Prompt
    <2> QED
      BY <1>6, <2>1, <2>2 DEF Has, Prompt
  <1>7. CASE Prompt(v) /\ u # v
    BY <1>7, PromptStays DEF Prompt
  <1>8. ASSUME NEW accept \in BOOLEAN, Answers(v, accept) PROVE Has(u)'
    <2>1. /\ inbox'[u] = inbox[u] /\ up'[u] = up[u] /\ asked' = asked
          /\ u # v => conf'[u] = conf[u] /\ past'[u] = past[u]
          /\ u = v => past'[u] = (past[u] \/ inbox[u] = <<>>)
      BY <1>8 DEF Answers, Confirm
    <2> QED
      BY <2>1 DEF Has
  <1> QED
    BY <1>1, <1>2, <1>3, <1>4, <1>5, <1>6, <1>7, <1>8 DEF TuiStep

\* Every TUI that runs gets the signal of a question that is asked; nobody else's steps
\* touch its screen.
LEMMA PromptKept ==
    ASSUME Types, \A u \in Tuis : Has(u), [ClientsNext]_allVars, NEW u \in Tuis
    PROVE  Has(u)'
  <1> USE DEF Types, ClientsTypeOK, tuiVars, screenVars, serviceVars, vars, questionVars
  <1>1. CASE DaemonStep
    <2>1. asked' = asked \/ asked' = None
      BY <1>1 DEF DaemonStep, Listen, GiveUp, Trust, Over, Revoke
    <2> QED
      BY <1>1, <2>1, PromptStays DEF DaemonStep
  <1>2. CASE TimePasses
    BY <1>2, PromptStays DEF TimePasses, Tick
  <1>3. ASSUME NEW d \in Devices, Requested(d) PROVE Has(u)'
    <2>1. Append(inbox[u], d) # <<>> /\ Last(Append(inbox[u], d)) = d
      BY AppendedIsLast
    <2>2. /\ asked' = d /\ up' = up /\ past'[u] = ~up[u]
          /\ up[u] => inbox'[u] = Append(inbox[u], d)
      BY <1>3 DEF Requested, Ask
    <2> QED
      BY <2>1, <2>2 DEF Has
  <1>4. ASSUME NEW c \in Clis, CliStep(c) PROVE Has(u)'
    <2>1. asked' = asked
      BY <1>4 DEF CliStep, CliStarts, CliPrints, CliSubscribes, CliGivesUp, CliAnswers,
                  Mint, Return, Confirm
    <2>2. UNCHANGED tuiVars
      BY <1>4 DEF CliStep, CliStarts, CliPrints, CliSubscribes, CliGivesUp, CliAnswers
    <2> QED
      BY <2>1, <2>2, PromptStays
  <1>5. CASE UNCHANGED allVars
    BY <1>5, PromptStays DEF allVars
  <1> QED
    BY <1>1, <1>2, <1>3, <1>4, <1>5, TuiPrompt DEF ClientsNext
-----------------------------------------------------------------------------
(* The screen and the token's time.                                         *)

\* A code on the screen of u is a token that was shown, and is there long enough.
OnTime(u) == qr[u] # None => qr[u] \in shown /\ left[qr[u]] <= life[u]

\* What leaves the screen of u alone, and the time of tokens that were shown, ...
LEMMA ScreenStays ==
    ASSUME NEW u \in Tuis, OnTime(u), qr'[u] = qr[u], life'[u] = life[u],
           shown \subseteq shown', \A t \in shown : left'[t] = left[t]
    PROVE  OnTime(u)'
  BY DEF OnTime

\* ... which a new token, a call that returns, and what the service does about its
\* question all leave alone.
LEMMA ShownKeeps ==
    ASSUME Types,
           \/ \E t \in Tokens : Mint(t) \/ Return(t)
           \/ \E d \in Devices : Ask(d) \/ Revoke(d)
           \/ \E d \in Devices, accept \in BOOLEAN : Confirm(d, accept)
           \/ Listen \/ GiveUp \/ Trust
    PROVE  shown \subseteq shown' /\ \A t \in shown : left'[t] = left[t]
  BY DEF Types, ServiceTypeOK, Mint, Return, Ask, Revoke, Confirm, Listen, GiveUp, Trust,
         tokenVars

\* A code is put on the screen for as long as a token is good, and time that passes
\* passes for both.
LEMMA ScreenKept ==
    ASSUME Types, \A u \in Tuis : OnTime(u), [ClientsNext]_allVars, NEW u \in Tuis
    PROVE  OnTime(u)'
  <1> USE DEF Types, ClientsTypeOK, tuiVars, screenVars, serviceVars
  <1>1. CASE DaemonStep
    BY <1>1, ShownKeeps, ScreenStays DEF DaemonStep, ServiceTypeOK
  <1>2. CASE TimePasses
    <2>1. life'[u] = Remaining(life[u]) /\ UNCHANGED <<qr, shown>>
      BY <1>2 DEF TimePasses, Tick
    <2>2. \A t \in Tokens : left'[t] = Remaining(left[t])
      BY <1>2 DEF TimePasses, Tick, Remaining, ServiceTypeOK
    <2>3. \A m, n \in Nat : m <= n => Remaining(m) <= Remaining(n)
      BY DEF Remaining
    <2>4. \A t \in Tokens : left[t] \in Nat
      BY ServiceAssumption DEF ServiceTypeOK
    <2>5. life[u] \in Nat
      BY ServiceAssumption
    <2> QED
      BY <2>1, <2>2, <2>3, <2>4, <2>5 DEF OnTime, ServiceTypeOK
  <1>3. ASSUME NEW d \in Devices, Requested(d) PROVE OnTime(u)'
    BY <1>3, ShownKeeps, ScreenStays DEF Requested
  <1>4. ASSUME NEW v \in Tuis, TuiStep(v) PROVE OnTime(u)'
    <2>1. CASE PressP(v) \/ Refresh(v)
      BY <2>1, ShownKeeps, ScreenStays DEF PressP, Refresh, Calls
    <2>2. CASE Started(v)
      <3>1. busy[v] \in Tokens /\ Return(busy[v])
        BY <2>2 DEF Started
      <3>2. shown \subseteq shown' /\ \A t \in shown : left'[t] = left[t]
        BY <3>1, ShownKeeps
      <3>3. CASE Shows(v, busy[v]) /\ u = v
        <4>1. qr'[u] = busy[v] /\ life'[u] = TTL
          BY <3>3 DEF Shows
        <4>2. busy[v] \in shown' /\ left'[busy[v]] <= TTL
          BY <3>1, ServiceAssumption DEF Return, ServiceTypeOK
        <4> QED
          BY <4>1, <4>2 DEF OnTime
      <3>4. CASE Hides(v) /\ u = v
        BY <3>4 DEF Hides, OnTime
      <3>5. CASE u # v \/ UNCHANGED <<qr, life>>
        <4>1. qr'[u] = qr[u] /\ life'[u] = life[u]
          BY <2>2, <3>5 DEF Started, Shows, Hides
        <4> QED
          BY <3>2, <4>1, ScreenStays
      <3> QED
        BY <2>2, <3>3, <3>4, <3>5 DEF Started
    <2>3. CASE Dismiss(v)
      BY <2>3 DEF Dismiss, Hides, OnTime, vars, tokenVars
    <2>4. CASE Quit(v) \/ Launch(v) \/ Prompt(v)
      BY <2>4, ScreenStays DEF Quit, Launch, Prompt, vars, tokenVars
    <2>5. ASSUME NEW accept \in BOOLEAN, Answers(v, accept) PROVE OnTime(u)'
      <3>1. shown' = shown /\ left' = left
        BY <2>5 DEF Answers, Confirm, tokenVars
      <3> QED
        BY <2>5, <3>1 DEF Answers, Hides, OnTime
    <2> QED
      BY <1>4, <2>1, <2>2, <2>3, <2>4, <2>5 DEF TuiStep
  <1>5. ASSUME NEW c \in Clis, CliStep(c) PROVE OnTime(u)'
    <2>1. UNCHANGED tuiVars
      BY <1>5 DEF CliStep, CliStarts, CliPrints, CliSubscribes, CliGivesUp, CliAnswers
    <2>2. shown \subseteq shown' /\ \A t \in shown : left'[t] = left[t]
      BY <1>5, ShownKeeps DEF CliStep, CliStarts, CliPrints, CliSubscribes, CliGivesUp,
                              CliAnswers, ServiceTypeOK, Mint, Return, Confirm, vars, tokenVars
    <2> QED
      BY <2>1, <2>2, ScreenStays
  <1>6. CASE UNCHANGED allVars
    BY <1>6, ScreenStays DEF allVars, vars, tokenVars
  <1> QED
    BY <1>1, <1>2, <1>3, <1>4, <1>5, <1>6 DEF ClientsNext
-----------------------------------------------------------------------------
(* The theorems.                                                           *)

\* Nothing is asked, shown or queued when the daemon has started.
LEMMA InitInv == ClientsInit => IInv
  <1> SUFFICES ASSUME ClientsInit PROVE IInv
    OBVIOUS
  <1> USE ServiceAssumption DEF ClientsInit, Init
  <1>1. ServiceTypeOK /\ AnswerInv
    <2>1. left \in [Tokens -> 0..TTL]
      OBVIOUS
    <2> QED
      BY <2>1 DEF ServiceTypeOK, AnswerInv
  <1>2. ClientsTypeOK
    <2>1. <<>> \in Seq(Devices)
      OBVIOUS
    <2> QED
      BY <2>1 DEF ClientsTypeOK
  <1>3. PromptIsCurrent /\ ScreenInv
    BY DEF PromptIsCurrent, ScreenInv
  <1> QED
    BY <1>1, <1>2, <1>3 DEF IInv, Types

\* Every step of every client, and of the daemon, keeps all of it.
LEMMA StepInv == IInv /\ [ClientsNext]_allVars => IInv'
  <1> SUFFICES ASSUME IInv, [ClientsNext]_allVars PROVE IInv'
    OBVIOUS
  <1>1. Types
    BY DEF IInv
  <1>2. ServiceTypeOK' /\ AnswerInv'
    BY <1>1, IsServiceStep, ServiceKeeps DEF IInv, Types
  <1>3. ClientsTypeOK'
    BY <1>1, ClientsTypes
  <1>4. PromptIsCurrent'
    <2>1. \A u \in Tuis : Has(u)
      BY DEF IInv, PromptIsCurrent, Has
    <2>2. \A u \in Tuis : Has(u)'
      BY <1>1, <2>1, PromptKept
    <2> QED
      BY <2>2 DEF PromptIsCurrent, Has
  <1>5. ScreenInv'
    <2>1. \A u \in Tuis : OnTime(u)
      BY DEF IInv, ScreenInv, OnTime
    <2>2. \A u \in Tuis : OnTime(u)'
      BY <1>1, <2>1, ScreenKept
    <2> QED
      BY <2>2 DEF ScreenInv, OnTime
  <1> QED
    BY <1>2, <1>3, <1>4, <1>5 DEF IInv, Types

\* The inductive invariant.
THEOREM Invariance == ClientsSpec => []IInv
  BY InitInv, StepInv, PTL DEF ClientsSpec

\* Every variable of the TUIs and the CLIs keeps its type.
THEOREM TypesHold == ClientsSpec => []ClientsTypeOK
  <1>1. IInv => ClientsTypeOK
    BY DEF IInv, Types
  <1> QED
    BY <1>1, Invariance, PTL

\* A TUI that has not answered shows the question the daemon asks, or will show it last:
\* NewestPrompt replaces what an older signal left on the screen.
THEOREM PromptBelongs == ClientsSpec => []PromptIsCurrent
  <1>1. IInv => PromptIsCurrent
    BY DEF IInv
  <1> QED
    BY <1>1, Invariance, PTL

\* ConfirmPairing takes the sender with it, so that a later answer meets none.
THEOREM AnswerStays == ClientsSpec => FirstAnswerCounts
  <1>1. IInv /\ [ClientsNext]_allVars
            => (answer # "none" /\ asked' = asked => answer' = answer)
    <2> SUFFICES ASSUME IInv, [ClientsNext]_allVars, answer # "none", asked' = asked
                 PROVE  answer' = answer
      OBVIOUS
    <2>1. ServiceStep
      BY IsServiceStep DEF IInv
    <2>2. waiting /\ asked # None /\ asked \notin pending
      BY DEF IInv, AnswerInv
    <2>3. ASSUME NEW d \in Devices, NEW accept \in BOOLEAN, Confirm(d, accept)
          PROVE  answer' = answer
      BY <2>2, <2>3 DEF Confirm
    <2>4. CASE Listen \/ GiveUp \/ Trust \/ Tick
      BY <2>2, <2>4 DEF Listen, GiveUp, Trust, Over, Tick, questionVars
    <2>5. CASE \E t \in Tokens : Mint(t) \/ Return(t)
      BY <2>5 DEF Mint, Return, questionVars
    <2>6. CASE \E d \in Devices : Ask(d) \/ Revoke(d)
      BY <2>6 DEF Ask, Revoke, questionVars
    <2>7. CASE UNCHANGED serviceVars
      BY <2>7 DEF serviceVars, vars, questionVars
    <2> QED
      BY <2>1, <2>3, <2>4, <2>5, <2>6, <2>7 DEF ServiceStep
  <1> QED
    BY <1>1, Invariance, PTL DEF ClientsSpec, FirstAnswerCounts

\* should_regenerate counts TOKEN_TTL from when the code was shown, and the daemon from
\* when it was minted, which is no later.
THEOREM RefreshWaits == ClientsSpec => RefreshIsHarmless
  <1>1. IInv => (\A u \in Tuis : Refresh(u) => ~Usable(qr[u]))
    <2> SUFFICES ASSUME IInv, NEW u \in Tuis, Refresh(u), Usable(qr[u]) PROVE FALSE
      OBVIOUS
    <2>1. qr[u] # None /\ life[u] = 0
      BY DEF Refresh, Stale
    <2>2. qr[u] \in Tokens /\ left[qr[u]] <= 0 /\ left[qr[u]] \in Nat
      BY <2>1, ServiceAssumption
         DEF IInv, ScreenInv, Types, ServiceTypeOK, ClientsTypeOK
    <2> QED
      BY <2>2 DEF Usable
  <1> QED
    BY <1>1, Invariance, PTL DEF RefreshIsHarmless

\* The TUIs and CLIs only do to the daemon what its D-Bus interface offers: what
\* Daemon_proofs shows of the service holds with any number of them.
THEOREM ClientsAreClients == ClientsSpec => Spec
  <1>1. ClientsInit => Init
    BY DEF ClientsInit
  <1>2. IInv /\ [ClientsNext]_allVars => [Next]_vars
    <2> SUFFICES ASSUME IInv, [ClientsNext]_allVars PROVE [Next]_vars
      OBVIOUS
    <2>1. ServiceStep
      BY IsServiceStep DEF IInv
    <2> QED
      BY <2>1 DEF ServiceStep, Next, serviceVars
  <1> QED
    BY <1>1, <1>2, Invariance, PTL DEF ClientsSpec, Spec
=============================================================================
