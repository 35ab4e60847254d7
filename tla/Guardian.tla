------------------------------ MODULE Guardian ------------------------------
(***************************************************************************)
(* The ACS Guardian (acs_guardian.py): it authenticates event frames from  *)
(* the wire, runs the decision function in a pool under a time budget, and  *)
(* answers; ALLOW and MODIFY mint one capability, ASK and DEFER leave an    *)
(* entry that resolve_pending turns into a capability or a DENY.           *)
(*                                                                         *)
(* Frames are delayed, duplicated and reordered at will.  Each handler     *)
(* thread reads the clock, checks the timestamp, and only then takes the   *)
(* nonce lock; the pool's workers may hang in a decision function for ever, *)
(* and one that computes without releasing the interpreter lock stops every *)
(* other thread meanwhile, also the one that waits for its time budget.    *)
(* HMAC, parsing, hooks and envelope checks that fail without touching any  *)
(* state are a frame that is not handled; a failing mint is a choice.      *)
(***************************************************************************)
EXTENDS Naturals, FiniteSets

CONSTANTS
  Frames,        \* signed event frames, each with its nonce
  Handlers,      \* threads in handle_frame
  Resolvers,     \* threads in resolve_pending
  Workers,       \* max_workers of the decision pool
  Window,        \* replay_window_s
  Stamps,        \* timestamps a peer's clock may put in a frame
  MaxTime,       \* bound on the clock
  MaxLockWait,   \* longest time from reading the clock to holding the nonce lock
  None

ASSUME GuardianAssumption ==
  /\ Workers \in Nat \ {0} /\ Window \in Nat /\ Stamps \subseteq Nat
  /\ MaxTime \in Nat /\ MaxLockWait \in Nat
  /\ MaxLockWait <= Window
  /\ None \notin Nat \cup Frames

VARIABLES
  now,           \* the guardian's clock
  sent,          \* the timestamp of each frame a peer has signed
  seen,          \* _seen_nonces: the timestamp recorded for each nonce
  handler,       \* what each handler thread is in the middle of
  pinned,        \* workers still running a decision that timed out
  held,          \* a decision function computes and holds the interpreter lock
  pending,       \* _pending: how many entries a frame has left
  resolver,      \* what each resolver thread is in the middle of
  accepted,      \* history: how often each nonce was accepted
  minted         \* history: how many capabilities were minted for each frame

vars == <<now, sent, seen, handler, pinned, held, pending, resolver, accepted, minted>>

Idle == [pc |-> "idle", frame |-> None, at |-> 0]
Pcs  == {"idle", "locking", "queued", "running", "asked", "allowed"}

Init ==
  /\ now = 0
  /\ sent = [f \in Frames |-> None]
  /\ seen = [f \in Frames |-> None]
  /\ handler = [t \in Handlers |-> Idle]
  /\ pinned = 0
  /\ held = FALSE
  /\ pending = [f \in Frames |-> 0]
  /\ resolver = [r \in Resolvers |-> None]
  /\ accepted = [f \in Frames |-> 0]
  /\ minted = [f \in Frames |-> 0]

\* Every step of a thread of the guardian needs the interpreter.
Runs == ~held /\ UNCHANGED held

-----------------------------------------------------------------------------
(* The wire *)

PeerSends(f, ts) ==
  /\ sent[f] = None
  /\ sent' = [sent EXCEPT ![f] = ts]
  /\ UNCHANGED <<now, seen, handler, pinned, held, pending, resolver, accepted, minted>>

InWindow(moment, ts) == moment <= ts + Window /\ ts <= moment + Window

\* handle_frame receives a frame, once more or for the first time:
\* _authenticate_frame up to the nonce lock
FrameArrives(t, f) ==
  /\ handler[t] = Idle
  /\ sent[f] # None
  /\ InWindow(now, sent[f])
  /\ handler' = [handler EXCEPT ![t] = [pc |-> "locking", frame |-> f, at |-> now]]
  /\ Runs
  /\ UNCHANGED <<now, sent, seen, pinned, pending, resolver, accepted, minted>>

\* _prune_nonces_locked: entries older than two windows are dropped
Kept(moment) ==
  [f \in Frames |-> IF seen[f] # None /\ seen[f] + 2 * Window < moment THEN None ELSE seen[f]]

\* Prune, check and record, under the lock, at the moment read before it; the
\* event goes to the pool.
AcceptNonce(t) ==
  LET f == handler[t].frame IN
  /\ handler[t].pc = "locking"
  /\ Kept(handler[t].at)[f] = None
  /\ seen' = [Kept(handler[t].at) EXCEPT ![f] = sent[f]]
  /\ accepted' = [accepted EXCEPT ![f] = @ + 1]
  /\ handler' = [handler EXCEPT ![t].pc = "queued"]
  /\ Runs
  /\ UNCHANGED <<now, sent, pinned, pending, resolver, minted>>

\* A replay is answered DENY, after the pruning.
ReplayDenied(t) ==
  LET f == handler[t].frame IN
  /\ handler[t].pc = "locking"
  /\ Kept(handler[t].at)[f] # None
  /\ seen' = Kept(handler[t].at)
  /\ handler' = [handler EXCEPT ![t] = Idle]
  /\ Runs
  /\ UNCHANGED <<now, sent, pinned, pending, resolver, accepted, minted>>

-----------------------------------------------------------------------------
(* The decision: _run_decision_fn and handle_event *)

Running == {t \in Handlers : handler[t].pc = "running"}

\* A free worker takes the call.
DecisionStarts(t) ==
  /\ handler[t].pc = "queued"
  /\ Cardinality(Running) + pinned < Workers
  /\ handler' = [handler EXCEPT ![t].pc = "running"]
  /\ Runs
  /\ UNCHANGED <<now, sent, seen, pinned, pending, resolver, accepted, minted>>

\* The decision function returns in time; DENY, and whatever it raises or
\* returns wrongly, is answered at once.
Decides(t, verdict) ==
  /\ handler[t].pc = "running"
  /\ handler' = [handler EXCEPT ![t] =
       IF verdict = "DENY" THEN Idle ELSE [@ EXCEPT !.pc = verdict]]
  /\ Runs
  /\ UNCHANGED <<now, sent, seen, pinned, pending, resolver, accepted, minted>>

\* Mutant of WaitLimit: a call in a worker is waited for without a limit.
WaitUnlimited == {"queued"}

WaitLimit == {"queued", "running"}

\* The budget is over: DENY.  A queued call is cancelled, a running one keeps
\* its worker and its result is dropped.  (An event whose payload, subject or
\* hook is refused after its nonce was recorded is answered DENY as well: the
\* same step as a queued call that is cancelled.)
DecisionTimesOut(t) ==
  /\ handler[t].pc \in WaitLimit
  /\ pinned' = IF handler[t].pc = "running" THEN pinned + 1 ELSE pinned
  /\ handler' = [handler EXCEPT ![t] = Idle]
  /\ Runs
  /\ UNCHANGED <<now, sent, seen, pending, resolver, accepted, minted>>

\* A decision nobody waits for any more returns, if it ever does.
WorkerReturns ==
  /\ pinned > 0
  /\ pinned' = pinned - 1
  /\ Runs
  /\ UNCHANGED <<now, sent, seen, handler, pending, resolver, accepted, minted>>

\* A decision function that a worker runs, waited for or not, computes without
\* giving the interpreter up (a regular expression that backtracks, say), for as
\* long as it likes.
HoldsInterpreter ==
  /\ ~held /\ (Running # {} \/ pinned > 0)
  /\ held' = TRUE
  /\ UNCHANGED <<now, sent, seen, handler, pinned, pending, resolver, accepted, minted>>

YieldsInterpreter ==
  /\ held
  /\ held' = FALSE
  /\ UNCHANGED <<now, sent, seen, handler, pinned, pending, resolver, accepted, minted>>

\* ASK and DEFER record an entry and answer.
RecordPending(t) ==
  LET f == handler[t].frame IN
  /\ handler[t].pc = "asked"
  /\ pending' = [pending EXCEPT ![f] = @ + 1]
  /\ handler' = [handler EXCEPT ![t] = Idle]
  /\ Runs
  /\ UNCHANGED <<now, sent, seen, pinned, resolver, accepted, minted>>

\* ALLOW and MODIFY answer with a capability, or DENY when the mint fails.
Mint(t, succeeds) ==
  LET f == handler[t].frame IN
  /\ handler[t].pc = "allowed"
  /\ minted' = [minted EXCEPT ![f] = IF succeeds THEN @ + 1 ELSE @]
  /\ handler' = [handler EXCEPT ![t] = Idle]
  /\ Runs
  /\ UNCHANGED <<now, sent, seen, pinned, pending, resolver, accepted>>

-----------------------------------------------------------------------------
(* resolve_pending *)

\* Mutant of TakePending: the entry is read and not removed.
ReadPending(r, f) ==
  /\ resolver[r] = None
  /\ pending[f] > 0
  /\ resolver' = [resolver EXCEPT ![r] = f]
  /\ Runs
  /\ UNCHANGED <<now, sent, seen, handler, pinned, pending, accepted, minted>>

\* Mutant of TakePending: an entry that is gone is popped again.
TakeMissing(r, f) ==
  /\ resolver[r] = None
  /\ pending' = [pending EXCEPT ![f] = @ - 1]
  /\ resolver' = [resolver EXCEPT ![r] = f]
  /\ Runs
  /\ UNCHANGED <<now, sent, seen, handler, pinned, accepted, minted>>

\* The entry is popped before anything else happens.
TakePending(r, f) ==
  /\ resolver[r] = None
  /\ pending[f] > 0
  /\ pending' = [pending EXCEPT ![f] = @ - 1]
  /\ resolver' = [resolver EXCEPT ![r] = f]
  /\ Runs
  /\ UNCHANGED <<now, sent, seen, handler, pinned, accepted, minted>>

\* Approved and minted; or rejected, or the mint failed: the entry is gone.
Resolve(r, mints) ==
  /\ resolver[r] # None
  /\ minted' = [minted EXCEPT ![resolver[r]] = IF mints THEN @ + 1 ELSE @]
  /\ resolver' = [resolver EXCEPT ![r] = None]
  /\ Runs
  /\ UNCHANGED <<now, sent, seen, handler, pinned, pending, accepted>>

-----------------------------------------------------------------------------
\* A thread between its clock and the lock waits at most MaxLockWait.
Tick ==
  /\ now < MaxTime
  /\ \A t \in Handlers : handler[t].pc = "locking" => now < handler[t].at + MaxLockWait
  /\ now' = now + 1
  /\ UNCHANGED <<sent, seen, handler, pinned, held, pending, resolver, accepted, minted>>

\* What a handler does once a frame has arrived, the decision function's own
\* return apart.
HandlerStep(t) ==
  \/ AcceptNonce(t) \/ ReplayDenied(t)
  \/ DecisionTimesOut(t)
  \/ RecordPending(t)
  \/ \E succeeds \in BOOLEAN : Mint(t, succeeds)

ResolverStep(r) == \E mints \in BOOLEAN : Resolve(r, mints)

Next ==
  \/ \E f \in Frames, ts \in Stamps : PeerSends(f, ts)
  \/ \E t \in Handlers, f \in Frames : FrameArrives(t, f)
  \/ \E t \in Handlers : HandlerStep(t)
  \/ \E t \in Handlers : DecisionStarts(t)
  \/ \E t \in Handlers, verdict \in {"DENY", "asked", "allowed"} : Decides(t, verdict)
  \/ WorkerReturns
  \/ HoldsInterpreter \/ YieldsInterpreter
  \/ \E r \in Resolvers, f \in Frames : TakePending(r, f)
  \/ \E r \in Resolvers : ResolverStep(r)
  \/ Tick

Spec == Init /\ [][Next]_vars

\* A thread that can always run does run, at last; nothing is assumed of peers, of the
\* decision function, of the pool's workers or of whoever resolves.
FairSpec == Spec /\ \A t \in Handlers : WF_vars(HandlerStep(t))

-----------------------------------------------------------------------------
(* Properties *)

\* Every variable stays in its range.
TypeOK ==
  /\ now \in Nat
  /\ sent \in [Frames -> Nat \cup {None}]
  /\ seen \in [Frames -> Nat \cup {None}]
  /\ handler \in [Handlers -> [pc: Pcs, frame: Frames \cup {None}, at: Nat]]
  /\ \A t \in Handlers : handler[t].pc # "idle" => handler[t].frame # None
  /\ pinned \in Nat
  /\ held \in BOOLEAN
  /\ pending \in [Frames -> Nat]
  /\ resolver \in [Resolvers -> Frames \cup {None}]
  /\ accepted \in [Frames -> Nat]
  /\ minted \in [Frames -> Nat]

\* A nonce is accepted once, although it is forgotten after two windows and a
\* thread may wait for the lock with a clock reading from before (as long as
\* the wait is no longer than the window).
NonceAcceptedOnce == \A f \in Frames : accepted[f] <= 1

\* A frame leads to one capability at most, however often it is delivered,
\* whether it is allowed at once or asked about, and whoever resolves it how
\* often ("no double mint is possible", resolve_pending).
AuthorizedOnce == \A f \in Frames : minted[f] <= 1

\* Both: replays and late threads get through _authenticate_frame no second time, and
\* no path through handle_event and resolve_pending mints twice.
OncePerFrame == NonceAcceptedOnce /\ AuthorizedOnce

\* Every frame that arrives is answered, also when every worker of the pool hangs in
\* the decision function (fail closed: the timeout answers DENY), provided decision
\* functions yield: from some moment on none of them holds the interpreter any more.
\* One that does not yield delays the timeout itself for as long as it computes
\* (LIMITATION in _run_decision_fn: "a backstop, not a guarantee").
EveryFrameAnswered ==
  <>[](~held) => \A t \in Handlers : handler[t].pc # "idle" ~> handler[t].pc = "idle"
=============================================================================
