--------------------------- MODULE GuardianProofs ---------------------------
(***************************************************************************)
(* Proofs about Guardian, for any set of frames and threads, any window and *)
(* any timestamps.                                                          *)
(***************************************************************************)
EXTENDS Guardian, TLAPS

-----------------------------------------------------------------------------
(* Types *)

Step(t) ==
  \/ \E f \in Frames : FrameArrives(t, f)
  \/ HandlerStep(t) \/ DecisionStarts(t)
  \/ \E verdict \in {"DENY", "asked", "allowed"} : Decides(t, verdict)

Jobs == [pc: Pcs, frame: Frames \cup {None}, at: Nat]

\* What is left of a nonce table after pruning is a nonce table.
LEMMA KeptType ==
  ASSUME TypeOK, NEW moment \in Nat
  PROVE  /\ Kept(moment) \in [Frames -> Nat \cup {None}]
         /\ \A f \in Frames : Kept(moment)[f] \in {None, seen[f]}
BY DEF TypeOK, Kept

LEMMA HandlerType ==
  ASSUME TypeOK, NEW t \in Handlers, Step(t)
  PROVE  TypeOK'
  <1>t. handler \in [Handlers -> Jobs] /\ handler[t] \in Jobs
    BY DEF TypeOK, Jobs
  <1>1. ASSUME NEW f \in Frames, FrameArrives(t, f) PROVE TypeOK'
    BY <1>1, GuardianAssumption DEF TypeOK, FrameArrives, Pcs, Runs
  <1>2. CASE AcceptNonce(t)
    <2>1. handler[t].frame \in Frames /\ handler[t].at \in Nat
      BY <1>2, <1>t DEF TypeOK, AcceptNonce, Jobs
    <2>2. sent[handler[t].frame] \in Nat \cup {None}
      BY <2>1 DEF TypeOK
    <2>3. seen' \in [Frames -> Nat \cup {None}]
      BY <1>2, <2>1, <2>2, KeptType DEF AcceptNonce
    <2>4. accepted' \in [Frames -> Nat]
      BY <1>2, <2>1 DEF TypeOK, AcceptNonce
    <2>. QED
      BY <1>2, <2>3, <2>4 DEF TypeOK, AcceptNonce, Pcs, Runs
  <1>3. CASE ReplayDenied(t)
    <2>1. seen' \in [Frames -> Nat \cup {None}]
      BY <1>3, <1>t, KeptType DEF ReplayDenied, Jobs
    <2>. QED
      BY <1>3, <2>1 DEF TypeOK, ReplayDenied, Idle, Pcs, Runs
  <1>4. CASE DecisionStarts(t)
    BY <1>4 DEF TypeOK, DecisionStarts, Pcs, Runs
  <1>5. ASSUME NEW verdict \in {"DENY", "asked", "allowed"}, Decides(t, verdict) PROVE TypeOK'
    BY <1>5 DEF TypeOK, Decides, Idle, Pcs, Runs
  <1>6. CASE DecisionTimesOut(t)
    BY <1>6 DEF TypeOK, DecisionTimesOut, Idle, Pcs, Runs
  <1>7. CASE RecordPending(t)
    <2>1. handler[t].frame \in Frames
      BY <1>7, <1>t DEF TypeOK, RecordPending, Jobs
    <2>2. pending' \in [Frames -> Nat]
      BY <1>7, <2>1 DEF TypeOK, RecordPending
    <2>. QED
      BY <1>7, <2>2 DEF TypeOK, RecordPending, Idle, Pcs, Runs
  <1>8. ASSUME NEW succeeds \in BOOLEAN, Mint(t, succeeds) PROVE TypeOK'
    <2>1. handler[t].frame \in Frames
      BY <1>8, <1>t DEF TypeOK, Mint, Jobs
    <2>2. minted' \in [Frames -> Nat]
      BY <1>8, <2>1 DEF TypeOK, Mint
    <2>. QED
      BY <1>8, <2>2 DEF TypeOK, Mint, Idle, Pcs, Runs
  <1>. QED
    BY <1>1, <1>2, <1>3, <1>4, <1>5, <1>6, <1>7, <1>8 DEF Step, HandlerStep

LEMMA OtherType ==
  ASSUME TypeOK
  PROVE  /\ \A f \in Frames, ts \in Stamps : PeerSends(f, ts) => TypeOK'
         /\ WorkerReturns => TypeOK'
         /\ HoldsInterpreter \/ YieldsInterpreter => TypeOK'
         /\ \A r \in Resolvers, f \in Frames : TakePending(r, f) => TypeOK'
         /\ \A r \in Resolvers : ResolverStep(r) => TypeOK'
         /\ Tick => TypeOK'
  <1>1. ASSUME NEW f \in Frames, NEW ts \in Stamps, PeerSends(f, ts) PROVE TypeOK'
    BY <1>1, GuardianAssumption DEF TypeOK, PeerSends
  <1>2. ASSUME WorkerReturns PROVE TypeOK'
    BY <1>2 DEF TypeOK, WorkerReturns, Runs
  <1>3. ASSUME NEW r \in Resolvers, NEW f \in Frames, TakePending(r, f) PROVE TypeOK'
    BY <1>3 DEF TypeOK, TakePending, Runs
  <1>4. ASSUME NEW r \in Resolvers, NEW mints \in BOOLEAN, Resolve(r, mints) PROVE TypeOK'
    <2>1. resolver[r] \in Frames
      BY <1>4 DEF TypeOK, Resolve
    <2>2. minted' \in [Frames -> Nat]
      BY <1>4, <2>1 DEF TypeOK, Resolve
    <2>. QED
      BY <1>4, <2>2 DEF TypeOK, Resolve, Runs
  <1>5. ASSUME Tick PROVE TypeOK'
    BY <1>5 DEF TypeOK, Tick
  <1>6. ASSUME HoldsInterpreter \/ YieldsInterpreter PROVE TypeOK'
    BY <1>6 DEF TypeOK, HoldsInterpreter, YieldsInterpreter
  <1>. QED
    BY <1>1, <1>2, <1>3, <1>4, <1>5, <1>6 DEF ResolverStep

LEMMA TypeStep == TypeOK /\ [Next]_vars => TypeOK'
  <1>1. CASE UNCHANGED vars
    BY <1>1 DEF TypeOK, vars
  <1>. QED
    BY <1>1, HandlerType, OtherType DEF Next, Step

LEMMA TypeInit == Init => TypeOK
  <1>. SUFFICES ASSUME Init PROVE TypeOK
    OBVIOUS
  <1>1. held \in BOOLEAN
    BY DEF Init
  <1>2. /\ now = 0 /\ pinned = 0
        /\ sent = [f \in Frames |-> None] /\ seen = [f \in Frames |-> None]
        /\ handler = [t \in Handlers |-> Idle]
        /\ pending = [f \in Frames |-> 0] /\ resolver = [r \in Resolvers |-> None]
        /\ accepted = [f \in Frames |-> 0] /\ minted = [f \in Frames |-> 0]
    BY DEF Init
  <1>. QED
    BY <1>1, <1>2, GuardianAssumption DEF TypeOK, Idle, Pcs

\* Every variable of the guardian stays in its range.
THEOREM TypeCorrect == Spec => []TypeOK
  <1>. QED
    BY TypeInit, TypeStep, PTL DEF Spec

-----------------------------------------------------------------------------
(* No nonce is accepted twice                                              *)
(*                                                                         *)
(* A nonce that was accepted is in the table, or was dropped from it at a  *)
(* moment more than two windows past its timestamp.  A thread that is      *)
(* about to take the lock read its clock at most one window past the       *)
(* timestamp, and at most MaxLockWait ago.                                 *)

Waiting(t) == handler[t].pc = "locking"

WaitsAreShort ==
  \A t \in Handlers : Waiting(t) =>
    /\ handler[t].frame \in Frames
    /\ sent[handler[t].frame] \in Nat
    /\ handler[t].at <= sent[handler[t].frame] + Window
    /\ handler[t].at <= now /\ now <= handler[t].at + MaxLockWait

AcceptedIsRemembered ==
  \A f \in Frames :
    \/ accepted[f] = 0 /\ seen[f] = None
    \/ /\ accepted[f] = 1
       /\ sent[f] \in Nat
       /\ \/ seen[f] = sent[f]
          \/ seen[f] = None /\ sent[f] + 2 * Window < now

NonceInv == TypeOK /\ WaitsAreShort /\ AcceptedIsRemembered

\* What pruning forgets at a moment that has passed was accepted long ago.
LEMMA PruningForgetsTheOld ==
  ASSUME NonceInv, NEW t \in Handlers, Waiting(t), NEW f \in Frames, accepted[f] # 0
  PROVE  /\ accepted[f] = 1 /\ sent[f] \in Nat
         /\ \/ Kept(handler[t].at)[f] = sent[f]
            \/ Kept(handler[t].at)[f] = None /\ sent[f] + 2 * Window < now
  <1>1. handler[t].at \in Nat /\ handler[t].at <= now /\ now \in Nat /\ Window \in Nat
    BY GuardianAssumption DEF NonceInv, WaitsAreShort, TypeOK
  <1>2. /\ accepted[f] = 1 /\ sent[f] \in Nat
        /\ \/ seen[f] = sent[f]
           \/ seen[f] = None /\ sent[f] + 2 * Window < now
    BY DEF NonceInv, AcceptedIsRemembered
  <1>3. Kept(handler[t].at)[f] =
          IF seen[f] # None /\ seen[f] + 2 * Window < handler[t].at THEN None ELSE seen[f]
    BY DEF Kept
  <1>. QED
    BY <1>1, <1>2, <1>3

\* The nonce a thread is about to check is in the table if it was accepted.
LEMMA CheckedIsRemembered ==
  ASSUME NonceInv, NEW t \in Handlers, Waiting(t), accepted[handler[t].frame] # 0
  PROVE  Kept(handler[t].at)[handler[t].frame] # None
  <1>. DEFINE f == handler[t].frame
  <1>1. f \in Frames /\ sent[f] \in Nat /\ handler[t].at <= sent[f] + Window
        /\ now <= handler[t].at + MaxLockWait
    BY DEF NonceInv, WaitsAreShort
  <1>2. handler[t].at \in Nat /\ now \in Nat /\ Window \in Nat /\ MaxLockWait \in Nat
        /\ MaxLockWait <= Window /\ None \notin Nat
    BY GuardianAssumption DEF NonceInv, TypeOK
  <1>3. \/ Kept(handler[t].at)[f] = sent[f]
        \/ sent[f] + 2 * Window < now
    BY <1>1, PruningForgetsTheOld
  <1>4. ~(sent[f] + 2 * Window < now)
    BY <1>1, <1>2
  <1>. HIDE DEF f
  <1>5. Kept(handler[t].at)[f] # None
    BY <1>1, <1>2, <1>3, <1>4
  <1>. QED
    BY <1>5 DEF f

LEMMA AcceptStep ==
  ASSUME NonceInv, NEW t \in Handlers, AcceptNonce(t)
  PROVE  WaitsAreShort' /\ AcceptedIsRemembered'
  <1>. DEFINE f == handler[t].frame
  <1>1. Waiting(t) /\ f \in Frames /\ sent[f] \in Nat
    BY DEF AcceptNonce, Waiting, NonceInv, WaitsAreShort
  <1>2. accepted[f] = 0
    BY <1>1, CheckedIsRemembered DEF AcceptNonce
  <1>3. WaitsAreShort'
    BY DEF NonceInv, WaitsAreShort, AcceptNonce, Waiting, TypeOK
  <1>4. /\ seen' = [Kept(handler[t].at) EXCEPT ![f] = sent[f]]
        /\ accepted' = [accepted EXCEPT ![f] = @ + 1]
        /\ sent' = sent /\ now' = now
    BY DEF AcceptNonce
  <1>5. handler[t].at \in Nat /\ Kept(handler[t].at) \in [Frames -> Nat \cup {None}]
        /\ accepted \in [Frames -> Nat]
    BY KeptType DEF NonceInv, TypeOK
  <1>6. ASSUME NEW g \in Frames
        PROVE  \/ accepted'[g] = 0 /\ seen'[g] = None
               \/ /\ accepted'[g] = 1
                  /\ sent[g] \in Nat
                  /\ \/ seen'[g] = sent[g]
                     \/ seen'[g] = None /\ sent[g] + 2 * Window < now
    <2>1. CASE g = f
      BY <2>1, <1>1, <1>2, <1>4, <1>5
    <2>2. CASE g # f
      <3>1. accepted'[g] = accepted[g] /\ seen'[g] = Kept(handler[t].at)[g]
        BY <2>2, <1>4, <1>5
      <3>2. CASE accepted[g] = 0
        <4>1. seen[g] = None
          BY <3>2 DEF NonceInv, AcceptedIsRemembered
        <4>. QED
          BY <3>1, <3>2, <4>1 DEF Kept
      <3>3. CASE accepted[g] # 0
        BY <3>1, <3>3, <1>1, PruningForgetsTheOld
      <3>. QED
        BY <3>2, <3>3
    <2>. QED
      BY <2>1, <2>2
  <1>. QED
    BY <1>3, <1>4, <1>6 DEF AcceptedIsRemembered

LEMMA ReplayStep ==
  ASSUME NonceInv, NEW t \in Handlers, ReplayDenied(t)
  PROVE  WaitsAreShort' /\ AcceptedIsRemembered'
  <1>1. Waiting(t) /\ seen' = Kept(handler[t].at) /\ accepted' = accepted /\ sent' = sent /\ now' = now
    BY DEF ReplayDenied, Waiting
  <1>2. WaitsAreShort'
    BY DEF NonceInv, WaitsAreShort, ReplayDenied, Waiting, TypeOK, Idle
  <1>3. ASSUME NEW g \in Frames
        PROVE  \/ accepted[g] = 0 /\ seen'[g] = None
               \/ /\ accepted[g] = 1
                  /\ sent[g] \in Nat
                  /\ \/ seen'[g] = sent[g]
                     \/ seen'[g] = None /\ sent[g] + 2 * Window < now
    <2>1. CASE accepted[g] = 0
      <3>1. seen[g] = None
        BY <2>1 DEF NonceInv, AcceptedIsRemembered
      <3>. QED
        BY <1>1, <2>1, <3>1 DEF Kept
    <2>2. CASE accepted[g] # 0
      BY <1>1, <2>2, PruningForgetsTheOld
    <2>. QED
      BY <2>1, <2>2
  <1>. QED
    BY <1>1, <1>2, <1>3 DEF AcceptedIsRemembered

\* Steps that leave the nonces and the clock alone.
LEMMA QuietStep ==
  ASSUME NonceInv, UNCHANGED <<now, sent, seen, accepted>>,
         \A t \in Handlers : Waiting(t)' => handler'[t] = handler[t]
  PROVE  WaitsAreShort' /\ AcceptedIsRemembered'
BY DEF NonceInv, WaitsAreShort, AcceptedIsRemembered, Waiting

LEMMA NonceStep == NonceInv /\ [Next]_vars => NonceInv'
  <1>. SUFFICES ASSUME NonceInv, [Next]_vars
                PROVE  WaitsAreShort' /\ AcceptedIsRemembered'
    BY TypeStep DEF NonceInv
  <1>1. ASSUME NEW f \in Frames, NEW ts \in Stamps, PeerSends(f, ts)
        PROVE  WaitsAreShort' /\ AcceptedIsRemembered'
    <2>1. sent[f] = None /\ sent' = [sent EXCEPT ![f] = ts] /\ None \notin Nat
      BY <1>1, GuardianAssumption DEF PeerSends
    <2>2. \A g \in Frames : sent[g] \in Nat => sent'[g] = sent[g]
      BY <2>1 DEF NonceInv, TypeOK
    <2>. QED
      BY <1>1, <2>2 DEF PeerSends, NonceInv, WaitsAreShort, AcceptedIsRemembered, Waiting
  <1>2. ASSUME NEW t \in Handlers, NEW f \in Frames, FrameArrives(t, f)
        PROVE  WaitsAreShort' /\ AcceptedIsRemembered'
    <2>1. sent[f] \in Nat /\ now \in Nat /\ MaxLockWait \in Nat /\ now <= sent[f] + Window
      BY <1>2, GuardianAssumption DEF FrameArrives, InWindow, NonceInv, TypeOK
    <2>2. AcceptedIsRemembered'
      BY <1>2 DEF FrameArrives, NonceInv, AcceptedIsRemembered
    <2>3. handler' = [handler EXCEPT ![t] = [pc |-> "locking", frame |-> f, at |-> now]]
          /\ handler \in [Handlers -> Jobs]
      BY <1>2 DEF FrameArrives, NonceInv, TypeOK, Jobs
    <2>4. ASSUME NEW u \in Handlers, Waiting(u)'
          PROVE  /\ handler'[u].frame \in Frames
                 /\ sent[handler'[u].frame] \in Nat
                 /\ handler'[u].at <= sent[handler'[u].frame] + Window
                 /\ handler'[u].at <= now /\ now <= handler'[u].at + MaxLockWait
      <3>1. CASE u = t
        <4>1. handler'[u].frame = f /\ handler'[u].at = now
          BY <2>3, <3>1
        <4>. QED
          BY <2>1, <4>1
      <3>2. CASE u # t
        BY <2>3, <2>4, <3>2 DEF NonceInv, WaitsAreShort, Waiting
      <3>. QED
        BY <3>1, <3>2
    <2>. QED
      BY <1>2, <2>2, <2>4 DEF FrameArrives, WaitsAreShort
  <1>3. ASSUME NEW t \in Handlers, DecisionStarts(t) \/ DecisionTimesOut(t) \/ RecordPending(t)
        PROVE  WaitsAreShort' /\ AcceptedIsRemembered'
    BY <1>3, QuietStep
       DEF DecisionStarts, DecisionTimesOut, RecordPending, Waiting, NonceInv, TypeOK, Idle
  <1>4. ASSUME NEW t \in Handlers, NEW verdict \in {"DENY", "asked", "allowed"}, Decides(t, verdict)
        PROVE  WaitsAreShort' /\ AcceptedIsRemembered'
    BY <1>4, QuietStep DEF Decides, Waiting, NonceInv, TypeOK, Idle
  <1>5. ASSUME NEW t \in Handlers, NEW succeeds \in BOOLEAN, Mint(t, succeeds)
        PROVE  WaitsAreShort' /\ AcceptedIsRemembered'
    BY <1>5, QuietStep DEF Mint, Waiting, NonceInv, TypeOK, Idle
  <1>6. CASE WorkerReturns \/ HoldsInterpreter \/ YieldsInterpreter \/ UNCHANGED vars
    BY <1>6, QuietStep DEF WorkerReturns, HoldsInterpreter, YieldsInterpreter, Waiting, vars
  <1>7. ASSUME NEW r \in Resolvers, NEW f \in Frames, TakePending(r, f)
        PROVE  WaitsAreShort' /\ AcceptedIsRemembered'
    BY <1>7, QuietStep DEF TakePending, Waiting
  <1>8. ASSUME NEW r \in Resolvers, ResolverStep(r)
        PROVE  WaitsAreShort' /\ AcceptedIsRemembered'
    BY <1>8, QuietStep DEF ResolverStep, Resolve, Waiting
  <1>9. CASE Tick
    <2>1. now \in Nat /\ now' = now + 1 /\ MaxLockWait \in Nat /\ Window \in Nat
      BY <1>9, GuardianAssumption DEF Tick, NonceInv, TypeOK
    <2>2. \A f \in Frames : sent[f] \in Nat /\ sent[f] + 2 * Window < now => sent[f] + 2 * Window < now'
      BY <2>1
    <2>3. AcceptedIsRemembered'
      BY <1>9, <2>2 DEF Tick, NonceInv, AcceptedIsRemembered
    <2>4. \A t \in Handlers : Waiting(t) => handler[t].at \in Nat /\ now < handler[t].at + MaxLockWait
      BY <1>9 DEF Tick, Waiting, NonceInv, TypeOK
    <2>5. WaitsAreShort'
      BY <1>9, <2>1, <2>4 DEF Tick, NonceInv, WaitsAreShort, Waiting
    <2>. QED
      BY <2>3, <2>5
  <1>10. ASSUME NEW t \in Handlers, AcceptNonce(t) \/ ReplayDenied(t)
         PROVE  WaitsAreShort' /\ AcceptedIsRemembered'
    BY <1>10, AcceptStep, ReplayStep
  <1>. QED
    BY <1>1, <1>2, <1>3, <1>4, <1>5, <1>6, <1>7, <1>8, <1>9, <1>10 DEF Next, HandlerStep

LEMMA NonceInit == Init => NonceInv
  <1>. SUFFICES ASSUME Init PROVE NonceInv
    OBVIOUS
  <1>1. WaitsAreShort
    BY DEF Init, WaitsAreShort, Waiting, Idle
  <1>2. AcceptedIsRemembered
    BY DEF Init, AcceptedIsRemembered
  <1>. QED
    BY <1>1, <1>2, TypeInit DEF NonceInv

LEMMA NonceInvariant == Spec => []NonceInv
  <1>. QED
    BY NonceInit, NonceStep, PTL DEF Spec

\* No nonce is accepted twice, however long it is replayed: when it has been
\* forgotten, no thread can still be holding it.
THEOREM NonceHolds == Spec => []NonceAcceptedOnce
  <1>1. NonceInv => NonceAcceptedOnce
    BY DEF NonceInv, AcceptedIsRemembered, NonceAcceptedOnce
  <1>. QED
    BY <1>1, NonceInvariant, PTL
-----------------------------------------------------------------------------
(* One frame, one capability                                               *)
(*                                                                         *)
(* The right to mint for a frame is in one place: with the handler that    *)
(* accepted it, in its pending entry, with the resolver that took that, or *)
(* spent.                                                                  *)

Deciding(t, f) ==
  /\ handler[t].pc \in {"queued", "running", "asked", "allowed"}
  /\ handler[t].frame = f

Unaccepted(f) == accepted[f] = 0

OnePlace(f) ==
  /\ pending[f] + minted[f] <= 1
  /\ \A t, u \in Handlers : Deciding(t, f) /\ Deciding(u, f) => t = u
  /\ \A r, q \in Resolvers : resolver[r] = f /\ resolver[q] = f => r = q
  /\ \A t \in Handlers, r \in Resolvers : ~(Deciding(t, f) /\ resolver[r] = f)
  /\ pending[f] + minted[f] = 1 =>
       /\ \A t \in Handlers : ~Deciding(t, f)
       /\ \A r \in Resolvers : resolver[r] # f
  /\ Unaccepted(f) =>
       /\ pending[f] + minted[f] = 0
       /\ \A t \in Handlers : ~Deciding(t, f)
       /\ \A r \in Resolvers : resolver[r] # f

RightInv == NonceInv /\ \A f \in Frames : OnePlace(f)

\* A handler that takes up no new frame can only give its right away.
LEMMA RightKept ==
  ASSUME RightInv, UNCHANGED <<pending, minted, resolver, accepted>>,
         \A t \in Handlers, f \in Frames : Deciding(t, f)' => Deciding(t, f)
  PROVE  \A f \in Frames : OnePlace(f)'
BY DEF RightInv, OnePlace, Unaccepted

LEMMA AcceptKeepsOnePlace ==
  ASSUME RightInv, NEW t \in Handlers, AcceptNonce(t), NEW f \in Frames
  PROVE  OnePlace(f)'
  <1>. DEFINE g == handler[t].frame
  <1>1. Waiting(t) /\ g \in Frames
    BY DEF AcceptNonce, Waiting, RightInv, NonceInv, WaitsAreShort
  <1>2. Unaccepted(g)
    BY <1>1, CheckedIsRemembered DEF AcceptNonce, RightInv, Unaccepted
  <1>3. OnePlace(f) /\ OnePlace(g)
    BY <1>1 DEF RightInv
  <1>4. /\ accepted' = [accepted EXCEPT ![g] = @ + 1] /\ accepted \in [Frames -> Nat]
        /\ UNCHANGED <<pending, minted, resolver>>
        /\ handler' = [handler EXCEPT ![t].pc = "queued"]
        /\ handler \in [Handlers -> Jobs]
    BY DEF AcceptNonce, RightInv, NonceInv, TypeOK, Jobs
  <1>5. \A u \in Handlers : u # t => (Deciding(u, f)' <=> Deciding(u, f))
    BY <1>4 DEF Deciding
  <1>6. Deciding(t, f)' => f = g
    BY <1>4 DEF Deciding, Jobs
  <1>. HIDE DEF g
  <1>7. CASE f = g
    <2>1. accepted'[f] # 0
      BY <1>1, <1>2, <1>4, <1>7 DEF Unaccepted
    <2>. QED
      BY <2>1, <1>2, <1>3, <1>4, <1>5, <1>7 DEF OnePlace, Unaccepted
  <1>8. CASE f # g
    <2>1. accepted'[f] = accepted[f]
      BY <1>4, <1>8
    <2>. QED
      BY <2>1, <1>3, <1>4, <1>5, <1>6, <1>8 DEF OnePlace, Unaccepted
  <1>. QED
    BY <1>7, <1>8

\* The handler becomes idle, and what it held moves into the entry or is spent.
LEMMA HandlerGivesAway ==
  ASSUME RightInv, NEW t \in Handlers,
         RecordPending(t) \/ \E succeeds \in BOOLEAN : Mint(t, succeeds),
         NEW f \in Frames
  PROVE  OnePlace(f)'
  <1>. DEFINE g == handler[t].frame
  <1>0. handler \in [Handlers -> Jobs]
    BY DEF RightInv, NonceInv, TypeOK, Jobs
  <1>1. /\ handler[t].pc \in {"asked", "allowed"} /\ Deciding(t, g)
        /\ handler' = [handler EXCEPT ![t] = Idle]
        /\ UNCHANGED <<resolver, accepted>>
    BY DEF RecordPending, Mint, Deciding
  <1>2. g \in Frames
    BY <1>0, <1>1 DEF Jobs, RightInv, NonceInv, TypeOK
  <1>3. OnePlace(f) /\ OnePlace(g) /\ pending \in [Frames -> Nat] /\ minted \in [Frames -> Nat]
    BY <1>2 DEF RightInv, NonceInv, TypeOK
  <1>4. \A u \in Handlers : Deciding(u, f)' <=> u # t /\ Deciding(u, f)
    BY <1>0, <1>1 DEF Deciding, Idle
  <1>5. /\ pending'[f] \in Nat /\ minted'[f] \in Nat
        /\ f # g => pending'[f] = pending[f] /\ minted'[f] = minted[f]
        /\ pending'[f] + minted'[f] <= pending[f] + minted[f] + 1
    BY <1>2, <1>3 DEF RecordPending, Mint
  <1>. HIDE DEF g
  <1>6. pending[f] \in Nat /\ minted[f] \in Nat
    BY <1>3
  <1>7. CASE f = g
    <2>1. pending[f] + minted[f] = 0 /\ ~Unaccepted(f)
      BY <1>1, <1>3, <1>6, <1>7 DEF OnePlace
    <2>2. ~Unaccepted(f)'
      BY <2>1, <1>1 DEF Unaccepted
    <2>3. \A u \in Handlers : ~Deciding(u, f)'
      BY <1>1, <1>3, <1>4, <1>7 DEF OnePlace
    <2>4. \A r \in Resolvers : resolver'[r] # f
      BY <1>1, <1>3, <1>7 DEF OnePlace
    <2>. QED
      BY <2>1, <2>2, <2>3, <2>4, <1>5, <1>6 DEF OnePlace
  <1>8. CASE f # g
    <2>1. Unaccepted(f)' <=> Unaccepted(f)
      BY <1>1 DEF Unaccepted
    <2>2. pending'[f] + minted'[f] = pending[f] + minted[f]
      BY <1>5, <1>8
    <2>. QED
      BY <2>1, <2>2, <1>1, <1>3, <1>4 DEF OnePlace
  <1>. QED
    BY <1>7, <1>8

\* The entry moves to the resolver.
LEMMA TakeKeepsOnePlace ==
  ASSUME RightInv, NEW r \in Resolvers, NEW g \in Frames, TakePending(r, g), NEW f \in Frames
  PROVE  OnePlace(f)'
  <1>1. /\ resolver[r] = None /\ pending[g] > 0
        /\ pending' = [pending EXCEPT ![g] = @ - 1] /\ resolver' = [resolver EXCEPT ![r] = g]
        /\ UNCHANGED <<handler, accepted, minted>>
    BY DEF TakePending
  <1>2. /\ pending \in [Frames -> Nat] /\ minted \in [Frames -> Nat]
        /\ resolver \in [Resolvers -> Frames \cup {None}]
        /\ OnePlace(f)
    BY DEF RightInv, NonceInv, TypeOK
  <1>3. (\A t \in Handlers : Deciding(t, f)' <=> Deciding(t, f)) /\ (Unaccepted(f)' <=> Unaccepted(f))
    BY <1>1 DEF Deciding, Unaccepted
  <1>4. CASE f = g
    <2>1. pending[f] = 1 /\ minted[f] = 0 /\ pending'[f] = 0 /\ minted'[f] = 0
      BY <1>1, <1>2, <1>4 DEF OnePlace
    <2>2. \A q \in Resolvers : resolver'[q] = f <=> q = r
      BY <1>1, <1>2, <1>4, <2>1 DEF OnePlace
    <2>3. ~Unaccepted(f) /\ \A t \in Handlers : ~Deciding(t, f)
      BY <1>2, <2>1 DEF OnePlace
    <2>. QED
      BY <2>1, <2>2, <2>3, <1>3 DEF OnePlace
  <1>5. CASE f # g
    <2>1. pending'[f] = pending[f] /\ minted'[f] = minted[f]
      BY <1>1, <1>2, <1>5
    <2>2. \A q \in Resolvers : resolver'[q] = f => resolver[q] = f
      BY <1>1, <1>2, <1>5
    <2>. QED
      BY <2>1, <2>2, <1>2, <1>3 DEF OnePlace
  <1>. QED
    BY <1>4, <1>5

\* The resolver spends or drops what it holds.
LEMMA ResolveKeepsOnePlace ==
  ASSUME RightInv, NEW r \in Resolvers, NEW mints \in BOOLEAN, Resolve(r, mints), NEW f \in Frames
  PROVE  OnePlace(f)'
  <1>. DEFINE g == resolver[r]
  <1>1. /\ g \in Frames
        /\ minted' = [minted EXCEPT ![g] = IF mints THEN @ + 1 ELSE @]
        /\ resolver' = [resolver EXCEPT ![r] = None]
        /\ UNCHANGED <<handler, accepted, pending>>
    BY DEF Resolve, RightInv, NonceInv, TypeOK
  <1>2. /\ pending \in [Frames -> Nat] /\ minted \in [Frames -> Nat]
        /\ resolver \in [Resolvers -> Frames \cup {None}] /\ None \notin Frames
        /\ OnePlace(f)
    BY GuardianAssumption DEF RightInv, NonceInv, TypeOK
  <1>3. (\A t \in Handlers : Deciding(t, f)' <=> Deciding(t, f)) /\ (Unaccepted(f)' <=> Unaccepted(f))
    BY <1>1 DEF Deciding, Unaccepted
  <1>4. \A q \in Resolvers : resolver'[q] = f <=> q # r /\ resolver[q] = f
    BY <1>1, <1>2
  <1>5. CASE f = g
    <2>1. pending[f] = 0 /\ minted[f] = 0 /\ pending'[f] = 0 /\ minted'[f] \in {0, 1}
      BY <1>1, <1>2, <1>5 DEF OnePlace
    <2>2. ~Unaccepted(f) /\ \A t \in Handlers : ~Deciding(t, f)
      BY <1>2, <1>5 DEF OnePlace
    <2>3. \A q \in Resolvers : resolver'[q] # f
      BY <1>2, <1>4, <1>5 DEF OnePlace
    <2>. QED
      BY <2>1, <2>2, <2>3, <1>3 DEF OnePlace
  <1>6. CASE f # g
    <2>1. pending'[f] = pending[f] /\ minted'[f] = minted[f]
      BY <1>1, <1>2, <1>6
    <2>. QED
      BY <2>1, <1>2, <1>3, <1>4 DEF OnePlace
  <1>. QED
    BY <1>5, <1>6

LEMMA RightStep == RightInv /\ [Next]_vars => RightInv'
  <1>. SUFFICES ASSUME RightInv, [Next]_vars
                PROVE  \A f \in Frames : OnePlace(f)'
    BY NonceStep DEF RightInv
  <1>t. handler \in [Handlers -> Jobs]
    BY DEF RightInv, NonceInv, TypeOK, Jobs
  <1>1. ASSUME NEW t \in Handlers, NEW f \in Frames, FrameArrives(t, f)
        PROVE  \A g \in Frames : OnePlace(g)'
    BY <1>1, <1>t, RightKept DEF FrameArrives, Deciding, Idle
  <1>2. ASSUME NEW t \in Handlers, ReplayDenied(t) \/ DecisionTimesOut(t)
        PROVE  \A g \in Frames : OnePlace(g)'
    BY <1>2, <1>t, RightKept DEF ReplayDenied, DecisionTimesOut, Deciding, Idle
  <1>3. ASSUME NEW t \in Handlers, DecisionStarts(t)
        PROVE  \A g \in Frames : OnePlace(g)'
    <2>1. \A u \in Handlers, f \in Frames : Deciding(u, f)' => Deciding(u, f)
      BY <1>3, <1>t DEF DecisionStarts, Deciding, Jobs
    <2>. QED
      BY <1>3, <2>1, RightKept DEF DecisionStarts
  <1>4. ASSUME NEW t \in Handlers, NEW verdict \in {"DENY", "asked", "allowed"}, Decides(t, verdict)
        PROVE  \A g \in Frames : OnePlace(g)'
    <2>1. \A u \in Handlers, f \in Frames : Deciding(u, f)' => Deciding(u, f)
      BY <1>4, <1>t DEF Decides, Deciding, Jobs, Idle
    <2>. QED
      BY <1>4, <2>1, RightKept DEF Decides
  <1>5. CASE WorkerReturns \/ HoldsInterpreter \/ YieldsInterpreter \/ Tick \/ UNCHANGED vars
    BY <1>5, RightKept DEF WorkerReturns, HoldsInterpreter, YieldsInterpreter, Tick, vars, Deciding
  <1>6. ASSUME NEW f \in Frames, NEW ts \in Stamps, PeerSends(f, ts)
        PROVE  \A g \in Frames : OnePlace(g)'
    BY <1>6, RightKept DEF PeerSends, Deciding
  <1>7. ASSUME NEW t \in Handlers, HandlerStep(t)
        PROVE  \A g \in Frames : OnePlace(g)'
    BY <1>7, <1>2, AcceptKeepsOnePlace, HandlerGivesAway DEF HandlerStep
  <1>. QED
    BY <1>1, <1>3, <1>4, <1>5, <1>6, <1>7, TakeKeepsOnePlace, ResolveKeepsOnePlace
       DEF Next, ResolverStep

\* One frame never leads to two capabilities: not when it is replayed, not
\* when its entry is resolved twice, not when it is both allowed and asked.
THEOREM AuthorizedHolds == Spec => []AuthorizedOnce
  <1>1. Init => RightInv
    <2>1. Init => \A f \in Frames : OnePlace(f)
      BY GuardianAssumption DEF Init, OnePlace, Unaccepted, Deciding, Idle
    <2>. QED
      BY NonceInit, <2>1 DEF RightInv
  <1>2. RightInv => AuthorizedOnce
    BY DEF RightInv, NonceInv, TypeOK, OnePlace, AuthorizedOnce
  <1>. QED
    BY <1>1, <1>2, RightStep, PTL DEF Spec

\* A frame is accepted once by _authenticate_frame and authorizes once at the most.
THEOREM OnceHolds == Spec => []OncePerFrame
  <1>1. NonceAcceptedOnce /\ AuthorizedOnce => OncePerFrame
    BY DEF OncePerFrame
  <1>. QED
    BY <1>1, NonceHolds, AuthorizedHolds, PTL

-----------------------------------------------------------------------------
(* Towards an answer: what EveryFrameAnswered needs of the steps *)

\* How many steps a handler has before it at the most.
StepsLeft == [idle |-> 0, asked |-> 1, allowed |-> 1, running |-> 2, queued |-> 3, locking |-> 4]

\* Nobody but handler t moves it, and t only towards its answer.
Advances(t) ==
  handler[t].pc # "idle" /\ handler'[t] # handler[t] => StepsLeft[handler'[t].pc] < StepsLeft[handler[t].pc]

LEMMA PcAfter ==
  ASSUME TypeOK, NEW t \in Handlers, NEW u \in Handlers, NEW pc,
         handler' = [handler EXCEPT ![u].pc = pc] \/ (pc = "idle" /\ handler' = [handler EXCEPT ![u] = Idle])
  PROVE  IF t = u THEN handler'[t].pc = pc ELSE handler'[t] = handler[t]
BY DEF TypeOK, Idle

\* A step of a handler's own brings it nearer to its answer.
LEMMA OwnSteps ==
  ASSUME TypeOK, NEW t \in Handlers, HandlerStep(t)
  PROVE  /\ handler[t].pc # "idle" /\ StepsLeft[handler'[t].pc] < StepsLeft[handler[t].pc]
         /\ \A u \in Handlers \ {t} : handler'[u] = handler[u]
  <1>1. CASE AcceptNonce(t)
    <2>1. handler[t].pc = "locking" /\ handler' = [handler EXCEPT ![t].pc = "queued"]
      BY <1>1 DEF AcceptNonce
    <2>2. \A u \in Handlers : IF u = t THEN handler'[u].pc = "queued" ELSE handler'[u] = handler[u]
      BY <2>1, PcAfter
    <2>. QED
      BY <2>1, <2>2 DEF StepsLeft
  <1>2. ASSUME handler[t].pc \in Pcs \ {"idle"}, handler' = [handler EXCEPT ![t] = Idle]
        PROVE  /\ handler[t].pc # "idle" /\ StepsLeft[handler'[t].pc] < StepsLeft[handler[t].pc]
               /\ \A u \in Handlers \ {t} : handler'[u] = handler[u]
    <2>1. \A u \in Handlers : IF u = t THEN handler'[u].pc = "idle" ELSE handler'[u] = handler[u]
      BY <1>2, PcAfter
    <2>. QED
      BY <1>2, <2>1 DEF StepsLeft, Pcs
  <1>3. CASE ReplayDenied(t)
    <2>1. handler[t].pc \in Pcs \ {"idle"} /\ handler' = [handler EXCEPT ![t] = Idle]
      BY <1>3 DEF ReplayDenied, Pcs
    <2>. QED
      BY <2>1, <1>2
  <1>4. CASE DecisionTimesOut(t)
    <2>1. handler[t].pc \in Pcs \ {"idle"} /\ handler' = [handler EXCEPT ![t] = Idle]
      BY <1>4 DEF DecisionTimesOut, WaitLimit, Pcs
    <2>. QED
      BY <2>1, <1>2
  <1>5. CASE RecordPending(t)
    <2>1. handler[t].pc \in Pcs \ {"idle"} /\ handler' = [handler EXCEPT ![t] = Idle]
      BY <1>5 DEF RecordPending, Pcs
    <2>. QED
      BY <2>1, <1>2
  <1>6. CASE \E succeeds \in BOOLEAN : Mint(t, succeeds)
    <2>1. handler[t].pc \in Pcs \ {"idle"} /\ handler' = [handler EXCEPT ![t] = Idle]
      BY <1>6 DEF Mint, Pcs
    <2>. QED
      BY <2>1, <1>2
  <1>. QED
    BY <1>1, <1>3, <1>4, <1>5, <1>6 DEF HandlerStep

LEMMA AdvanceStep ==
  ASSUME TypeOK, [Next]_vars, NEW t \in Handlers
  PROVE  Advances(t)
  <1>1. ASSUME NEW u \in Handlers, NEW f \in Frames, FrameArrives(u, f) PROVE Advances(t)
    <2>1. t = u => handler[t].pc = "idle"
      BY <1>1 DEF FrameArrives, Idle
    <2>2. t # u => handler'[t] = handler[t]
      BY <1>1 DEF FrameArrives, TypeOK
    <2>. QED
      BY <2>1, <2>2 DEF Advances
  <1>2. ASSUME NEW u \in Handlers, HandlerStep(u) PROVE Advances(t)
    BY <1>2, OwnSteps DEF Advances
  <1>3. ASSUME NEW u \in Handlers, DecisionStarts(u) PROVE Advances(t)
    BY <1>3, PcAfter DEF DecisionStarts, Advances, StepsLeft
  <1>4. ASSUME NEW u \in Handlers, NEW verdict \in {"DENY", "asked", "allowed"}, Decides(u, verdict) PROVE Advances(t)
    <2>1. handler[u].pc = "running"
      BY <1>4 DEF Decides
    <2>2. CASE verdict = "DENY"
      <3>1. handler' = [handler EXCEPT ![u] = Idle]
        BY <1>4, <2>2 DEF Decides
      <3>2. IF t = u THEN handler'[t].pc = "idle" ELSE handler'[t] = handler[t]
        BY <3>1, PcAfter
      <3>. QED
        BY <2>1, <3>2 DEF Advances, StepsLeft
    <2>3. CASE verdict # "DENY"
      <3>1. handler' = [handler EXCEPT ![u].pc = verdict]
        BY <1>4, <2>3 DEF Decides
      <3>2. IF t = u THEN handler'[t].pc = verdict ELSE handler'[t] = handler[t]
        BY <3>1, PcAfter
      <3>. QED
        BY <2>1, <2>3, <3>2 DEF Advances, StepsLeft
    <2>. QED
      BY <2>2, <2>3
  <1>5. CASE handler' = handler
    BY <1>5 DEF Advances
  <1>6. \/ \E u \in Handlers, f \in Frames : FrameArrives(u, f)
        \/ \E u \in Handlers : HandlerStep(u) \/ DecisionStarts(u)
        \/ \E u \in Handlers, verdict \in {"DENY", "asked", "allowed"} : Decides(u, verdict)
        \/ handler' = handler
    BY DEF Next, vars, PeerSends, WorkerReturns, HoldsInterpreter, YieldsInterpreter, TakePending, ResolverStep, Resolve, Tick
  <1>. QED
    BY <1>1, <1>2, <1>3, <1>4, <1>5, <1>6

\* No peer, worker, resolver or other thread, no replay and no tick throws a handler of
\* handle_frame back or moves it at all, but towards its answer; as each step of its own does
\* (OwnSteps), it answers after four of them at the most.
THEOREM HandlersAdvance == Spec => [][\A t \in Handlers : Advances(t)]_vars
  <1>1. TypeOK /\ [Next]_vars => [\A t \in Handlers : Advances(t)]_vars
    BY AdvanceStep
  <1>. QED
    BY <1>1, TypeCorrect, PTL DEF Spec
=============================================================================
