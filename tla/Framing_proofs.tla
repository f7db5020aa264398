--------------------------- MODULE Framing_proofs ---------------------------
(***************************************************************************)
(* For frames, windows and bounds of any size: the type invariant, and that *)
(* a reader stays in step with its peer's frames as long as no call of      *)
(* read_message is dropped half way.                                       *)
(***************************************************************************)
EXTENDS Framing, TLAPS

\* A reader of which no call was dropped knows where it stands: it has consumed as much
\* of this frame as the next unit's place in it says, less than a header while it knows
\* no length, and the length it knows is the message's.
InStep(e) ==
    /\ InPlace(e)
    /\ claim[e] \in {None, Body}
    /\ claim[e] = None => got[e] < Header
    /\ claim[e] = Body => Header <= got[e] /\ got[e] < Size
    /\ reason[e] \notin {"toolarge", "decode"}

IInv == TypeOK /\ \A e \in Ends : ~cut[e] => InStep(e)

-----------------------------------------------------------------------------
\* A stream has two ends, and each is the other's peer.
LEMMA PeerIsEnd == \A e \in Ends : Peer(e) \in Ends /\ Peer(e) # e
  BY DEF Ends, Peer

\* A connection begins with both ends writing and nothing read.
LEMMA InitInv == Init => IInv
  <1> SUFFICES ASSUME Init PROVE IInv
    OBVIOUS
  <1>1. TypeOK
    BY FrameAssumption, BoundAssumption DEF Init, TypeOK, Size, Reasons, Phases
  <1>2. \A e \in Ends : InStep(e)
    BY FrameAssumption DEF Init, InStep, InPlace, None, Size
  <1> QED
    BY <1>1, <1>2 DEF IInv

\* A unit that is written: nobody's reading changes.
LEMMA WriteKeeps == ASSUME IInv, NEW e \in Ends, Write(e) PROVE IInv'
  <1> USE FrameAssumption, BoundAssumption, PeerIsEnd
  <1>1. TypeOK'
    BY DEF IInv, TypeOK, Write, Writes, readVars, Size
  <1>2. \A x \in Ends : InStep(x)' <=> InStep(x)
    BY DEF Write, InStep, InPlace, readVars
  <1> QED
    BY <1>1, <1>2 DEF IInv, Write, readVars

\* What only ends a task, or only queues a clipboard, garbles nothing.
LEMMA EndKeeps ==
    ASSUME IInv, NEW e \in Ends, IdleTimeout(e) \/ PeerGone(e) \/ Hand(e) PROVE IInv'
  <1> USE FrameAssumption, BoundAssumption
  <1>1. TypeOK'
    BY DEF IInv, TypeOK, IdleTimeout, PeerGone, Hand, Finish, Reasons, readVars
  <1>2. UNCHANGED readVars
    BY DEF IdleTimeout, PeerGone, Hand
  <1>3. \A x \in Ends : reason[x] \notin {"toolarge", "decode"}
                            => reason'[x] \notin {"toolarge", "decode"}
    BY DEF IdleTimeout, PeerGone, Hand, Finish, IInv, TypeOK
  <1>4. \A x \in Ends : InStep(x) => InStep(x)'
    BY <1>2, <1>3 DEF InStep, InPlace, readVars
  <1> QED
    BY <1>1, <1>2, <1>4 DEF IInv, readVars

-----------------------------------------------------------------------------
\* The reader's types, whatever it reads.
LEMMA ReadTypes == ASSUME IInv, NEW e \in Ends, Read(e) PROVE TypeOK'
  <1> USE FrameAssumption, BoundAssumption DEF IInv, TypeOK, Consumes, Selects, Runs
  <1> USE DEF Passes, Phases
  <1>1. CASE ReadOn(e)
    BY <1>1 DEF ReadOn, Size
  <1>2. CASE ReadHeader(e)
    <2>1. \A n \in Lengths(e) : n \in Nat
      BY DEF Lengths
    <2> QED
      BY <1>2, <2>1 DEF ReadHeader, Size
  <1>3. CASE Refuse(e)
    BY <1>3 DEF Refuse, Finish, Reasons, Size
  <1>4. CASE Deliver(e)
    BY <1>4 DEF Deliver, Complete, Restarts, Size
  <1>5. CASE Misread(e)
    BY <1>5 DEF Misread, Complete, Restarts, NotThePong, Finish, Reasons, Size
  <1> QED
    BY <1>1, <1>2, <1>3, <1>4, <1>5 DEF Read

\* An end only reads its own stream.
LEMMA ReadsOwn ==
    ASSUME IInv, NEW e \in Ends, Read(e)
    PROVE  /\ cut' = cut
           /\ \A x \in Ends \ {e} : InStep(x) => InStep(x)'
  <1>1. cut' = cut
    BY DEF Read, ReadOn, ReadHeader, Refuse, Deliver, Misread
  <1>2. ASSUME NEW x \in Ends \ {e}
        PROVE  pos'[x] = pos[x] /\ got'[x] = got[x] /\ claim'[x] = claim[x]
                   /\ reason'[x] = reason[x]
    BY <1>2 DEF IInv, TypeOK, Read, ReadOn, ReadHeader, Refuse, Deliver, Misread, Consumes,
                Complete, Restarts, Finish
  <1> QED
    BY <1>1, <1>2 DEF InStep, InPlace

\* A reader in step stays in step: the header is where it looks for it, a length is
\* believed because it is the message's, and what is complete is a message.
LEMMA ReadStaysInStep ==
    ASSUME IInv, NEW e \in Ends, Read(e), InStep(e) PROVE InStep(e)'
  <1> USE FrameAssumption, BoundAssumption DEF IInv, TypeOK, InStep, InPlace, Consumes
  <1>1. CASE ReadOn(e)
    BY <1>1 DEF ReadOn, Size, None
  <1>2. CASE ReadHeader(e)
    <2>1. Lengths(e) = {Body}
      BY DEF Lengths
    <2> QED
      BY <1>2, <2>1 DEF ReadHeader, Size, None
  <1>3. CASE Refuse(e)
    BY <1>3 DEF Refuse
  <1>4. CASE Deliver(e)
    BY <1>4 DEF Deliver, Complete, Restarts, Size, None
  <1>5. CASE Misread(e)
    BY <1>5 DEF Misread, Complete, None
  <1> QED
    BY <1>1, <1>2, <1>3, <1>4, <1>5 DEF Read

-----------------------------------------------------------------------------
\* The other branches of select!: a read that had consumed nothing is dropped without
\* harm, and one that had is remembered as cut.
LEMMA DropKeeps ==
    ASSUME IInv, NEW e \in Ends, Command(e) \/ IdleTick(e) \/ PingTick(e) PROVE IInv'
  <1> USE FrameAssumption, BoundAssumption DEF IInv, TypeOK
  <1>1. Drops(e)
    BY DEF Command, IdleTick, PingTick
  <1>2. TypeOK'
    <2>1. CASE Command(e)
      BY <2>1 DEF Command, Drops, Restarts, Size
    <2>2. CASE IdleTick(e)
      BY <2>2 DEF IdleTick, Drops, Restarts
    <2>3. CASE PingTick(e)
      BY <2>3 DEF PingTick, Young, Finish, Reasons, Drops, Restarts, Size, None
    <2> QED
      BY <2>1, <2>2, <2>3
  <1>3. \A x \in Ends : reason[x] \notin {"toolarge", "decode"}
                            => reason'[x] \notin {"toolarge", "decode"}
    BY DEF Command, IdleTick, PingTick, Finish
  <1>4. ASSUME NEW x \in Ends, ~cut'[x]
        PROVE  InStep(x)'
    <2>1. ~cut[x] /\ InStep(x)
      BY <1>1, <1>4 DEF Drops
    <2>2. CASE x # e
      BY <1>1, <1>3, <2>1, <2>2 DEF Drops, Restarts, InStep, InPlace
    <2>3. CASE x = e
      <3>1. got[e] = 0
        <4>1. cut'[e] = (cut[e] \/ got[e] > 0)
          BY <1>1, Zenon DEF Drops
        <4>2. ~(got[e] > 0)
          BY <1>4, <2>3, <4>1
        <4> QED
          BY <4>2
      <3> QED
        BY <1>1, <1>3, <2>1, <2>3, <3>1 DEF Drops, Restarts, InStep, InPlace, None
    <2> QED
      BY <2>2, <2>3
  <1> QED
    BY <1>2, <1>4

-----------------------------------------------------------------------------
\* IInv is inductive.
LEMMA NextInv == IInv /\ [Next]_vars => IInv'
  <1> SUFFICES ASSUME IInv, [Next]_vars PROVE IInv'
    OBVIOUS
  <1>1. CASE UNCHANGED vars
    BY <1>1 DEF IInv, TypeOK, InStep, InPlace, vars, readVars
  <1>2. ASSUME NEW e \in Ends, Step(e)
        PROVE  IInv'
    <2>1. CASE Write(e)
      BY <2>1, WriteKeeps
    <2>2. CASE IdleTimeout(e) \/ PeerGone(e) \/ Hand(e)
      BY <2>2, EndKeeps
    <2>3. CASE Read(e)
      BY <2>3, ReadTypes, ReadsOwn, ReadStaysInStep DEF IInv
    <2>4. CASE Command(e) \/ IdleTick(e) \/ PingTick(e)
      BY <2>4, DropKeeps
    <2> QED
      BY <1>2, <2>1, <2>2, <2>3, <2>4 DEF Step
  <1> QED
    BY <1>1, <1>2 DEF Next

\* Every reachable state of every stream satisfies it.
THEOREM Invariant == Spec => []IInv
  BY InitInv, NextInv, PTL DEF Spec

\* Type correctness of the framing model.
THEOREM TypeCorrect == Spec => []TypeOK
  <1>1. IInv => TypeOK
    BY DEF IInv
  <1> QED
    BY <1>1, Invariant, PTL

\* As long as read_message is not dropped half way, it never takes anything but a
\* header for a length nor anything but a message for a message (session.rs:238).
THEOREM FramesCorrect == Spec => []OnlyCutsGarble
  <1>1. IInv => OnlyCutsGarble
    BY DEF IInv, InStep, OnlyCutsGarble
  <1> QED
    BY <1>1, Invariant, PTL
=============================================================================
