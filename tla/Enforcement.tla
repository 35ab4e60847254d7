---------------------------- MODULE Enforcement ----------------------------
(***************************************************************************)
(* The enforcement points over one capability store: ShellPEP.execute,     *)
(* EgressProxy.authorize_http (pep.py) and NativeMCPGateway.tools_call     *)
(* (mcp_gateway.py).                                                       *)
(*                                                                         *)
(* Each call resolves the presented action in its own table, consumes the  *)
(* capability in the store (one atomic step, module CapabilityStore), and  *)
(* only then acts.  Nothing holds a lock across the three: calls with the  *)
(* same capability interleave, the tables are rewired, capabilities are    *)
(* revoked, and a crash may hit between any two steps.                     *)
(***************************************************************************)
EXTENDS Naturals

CONSTANTS
  Callers,           \* threads in an enforcement point
  Caps, ActionOf,    \* capabilities and the action digest each is bound to
  Actions, PlaneOf,  \* action digests and the plane each names
  Wirings,           \* what an action may be wired to: an argv, a secret's name, a backend
  Working,           \* the argvs that can be started and the secrets the broker holds
  None

Planes == {"shell", "http", "mcp"}

ASSUME EnforcementAssumption ==
  /\ ActionOf \in [Caps -> Actions]
  /\ PlaneOf \in [Actions -> Planes]
  /\ Working \subseteq Wirings
  /\ None \notin Wirings

VARIABLES
  wiring,            \* _commands, _routes and _tools, by action
  capState, revoked, \* the store: ISSUED or CONSUMED, and the revoked capabilities
  call,              \* what each caller is in the middle of
  performed,         \* the world: how often each action was performed on each capability
  receipts,          \* how many execution receipts name each capability
  lost,              \* history: capabilities a crash took between consume and act
  spentOn            \* history: what the action was wired to for the call that consumed

vars == <<wiring, capState, revoked, call, performed, receipts, lost, spentOn>>

Idle == [pc |-> "idle"]

Init ==
  /\ wiring = [a \in Actions |-> None]
  /\ capState = [c \in Caps |-> "ISSUED"]
  /\ revoked = {}
  /\ call = [t \in Callers |-> Idle]
  /\ performed = [c \in Caps |-> [a \in Actions |-> 0]]
  /\ receipts = [c \in Caps |-> 0]
  /\ lost = {}
  /\ spentOn = [c \in Caps |-> None]

-----------------------------------------------------------------------------
(* Deployment and authority *)

\* register_command, register_route and register_tool: a tool always has a
\* backend and its name is taken for good, the others are overwritten.
Wire(a, w) ==
  /\ PlaneOf[a] = "mcp" => wiring[a] = None /\ w \in Working
  /\ wiring' = [wiring EXCEPT ![a] = w]
  /\ UNCHANGED <<capState, revoked, call, performed, receipts, lost, spentOn>>

Revoke(c) ==
  /\ revoked' = revoked \cup {c}
  /\ UNCHANGED <<wiring, capState, call, performed, receipts, lost, spentOn>>

-----------------------------------------------------------------------------
(* A call *)

\* Mutant of Present: the action is not looked up before the capability is used.
PresentUnresolved(t, c, a) ==
  /\ call[t] = Idle
  /\ call' = [call EXCEPT ![t] = [pc |-> "presented", cap |-> c, action |-> a, wire |-> wiring[a]]]
  /\ UNCHANGED <<wiring, capState, revoked, performed, receipts, lost, spentOn>>

\* The envelope is of the point's own plane and its action is registered;
\* otherwise the call is refused with nothing touched.
Present(t, c, a) ==
  /\ call[t] = Idle
  /\ wiring[a] # None
  /\ call' = [call EXCEPT ![t] = [pc |-> "presented", cap |-> c, action |-> a, wire |-> wiring[a]]]
  /\ UNCHANGED <<wiring, capState, revoked, performed, receipts, lost, spentOn>>

\* Mutant of Consumable: the envelope's digest is not compared.
ConsumableForAnything(c, a) == capState[c] = "ISSUED" /\ c \notin revoked

Consumable(c, a) == capState[c] = "ISSUED" /\ c \notin revoked /\ ActionOf[c] = a

\* store.consume_capability
Consume(t) ==
  LET c == call[t].cap a == call[t].action IN
  /\ call[t].pc = "presented"
  /\ Consumable(c, a)
  /\ capState' = [capState EXCEPT ![c] = "CONSUMED"]
  /\ spentOn' = [spentOn EXCEPT ![c] = call[t].wire]
  /\ call' = [call EXCEPT ![t].pc = "authorized"]
  /\ UNCHANGED <<wiring, revoked, performed, receipts, lost>>

\* Mutant of ConsumeRefused: the flip stays when a later check fails.
ConsumeKeptOnRefusal(t) ==
  /\ call[t].pc = "presented"
  /\ capState' = [capState EXCEPT ![call[t].cap] = "CONSUMED"]
  /\ spentOn' = [spentOn EXCEPT ![call[t].cap] = call[t].wire]
  /\ call' = [call EXCEPT ![t] = Idle]
  /\ UNCHANGED <<wiring, revoked, performed, receipts, lost>>

\* AuthorizationDenied, for one of these reasons or another (proof, expiry)
ConsumeRefused(t) ==
  /\ call[t].pc = "presented"
  /\ call' = [call EXCEPT ![t] = Idle]
  /\ UNCHANGED <<wiring, capState, revoked, performed, receipts, lost, spentOn>>

PerformedBy(t) == [performed EXCEPT ![call[t].cap][call[t].action] = @ + 1]

Plane(t) == PlaneOf[call[t].action]

\* subprocess.run starts the command; backend.call_tool runs the tool
Dispatch(t) ==
  /\ call[t].pc = "authorized"
  /\ \/ Plane(t) = "shell" /\ call[t].wire \in Working
     \/ Plane(t) = "mcp"
  /\ performed' = PerformedBy(t)
  /\ call' = [call EXCEPT ![t].pc = "running"]
  /\ UNCHANGED <<wiring, capState, revoked, receipts, lost, spentOn>>

\* The egress proxy hands out the brokered headers.
ReturnHeaders(t) ==
  /\ call[t].pc = "authorized"
  /\ Plane(t) = "http" /\ call[t].wire \in Working
  /\ performed' = PerformedBy(t)
  /\ call' = [call EXCEPT ![t] = Idle]
  /\ UNCHANGED <<wiring, capState, revoked, receipts, lost, spentOn>>

\* The argv cannot be started, the broker has no such secret: raised after the
\* capability was consumed.  (Start failures of a working argv are left out.)
CannotAct(t) ==
  /\ call[t].pc = "authorized"
  /\ Plane(t) \in {"shell", "http"} /\ call[t].wire \notin Working
  /\ call' = [call EXCEPT ![t] = Idle]
  /\ UNCHANGED <<wiring, capState, revoked, performed, receipts, lost, spentOn>>

\* The command ends with whatever code, or is killed at its timeout.
CommandEnds(t) ==
  /\ call[t].pc = "running" /\ Plane(t) = "shell"
  /\ call' = [call EXCEPT ![t] = Idle]
  /\ UNCHANGED <<wiring, capState, revoked, performed, receipts, lost, spentOn>>

\* The tool returns a dict or raises (an error result); anything else is raised
\* to the caller without a receipt.
ToolReturns(t, usable) ==
  /\ call[t].pc = "running" /\ Plane(t) = "mcp"
  /\ call' = [call EXCEPT ![t] = IF usable THEN [@ EXCEPT !.pc = "answered"] ELSE Idle]
  /\ UNCHANGED <<wiring, capState, revoked, performed, receipts, lost, spentOn>>

\* Mutant of SignReceipt: the call stays open for another receipt.
SignReceiptAgain(t) ==
  /\ call[t].pc = "answered"
  /\ receipts' = [receipts EXCEPT ![call[t].cap] = @ + 1]
  /\ UNCHANGED <<wiring, capState, revoked, call, performed, lost, spentOn>>

SignReceipt(t) ==
  /\ call[t].pc = "answered"
  /\ receipts' = [receipts EXCEPT ![call[t].cap] = @ + 1]
  /\ call' = [call EXCEPT ![t] = Idle]
  /\ UNCHANGED <<wiring, capState, revoked, performed, lost, spentOn>>

\* The enforcement point crashes in the middle of a call.
Crash(t) ==
  /\ call[t] # Idle
  /\ lost' = lost \cup {c \in Caps : call[t].pc = "authorized" /\ call[t].cap = c}
  /\ call' = [call EXCEPT ![t] = Idle]
  /\ UNCHANGED <<wiring, capState, revoked, performed, receipts, spentOn>>

Next ==
  \/ \E a \in Actions, w \in Wirings : Wire(a, w)
  \/ \E c \in Caps : Revoke(c)
  \/ \E t \in Callers, c \in Caps, a \in Actions : Present(t, c, a)
  \/ \E t \in Callers :
       \/ Consume(t) \/ ConsumeRefused(t)
       \/ Dispatch(t) \/ ReturnHeaders(t) \/ CannotAct(t)
       \/ CommandEnds(t) \/ SignReceipt(t) \/ Crash(t)
  \/ \E t \in Callers, usable \in BOOLEAN : ToolReturns(t, usable)

Spec == Init /\ [][Next]_vars

-----------------------------------------------------------------------------
(* Properties *)

Calls ==
  {Idle} \cup
  [pc: {"presented", "authorized", "running", "answered"}, cap: Caps, action: Actions,
   wire: Wirings]

\* Every variable stays in its range.
TypeOK ==
  /\ wiring \in [Actions -> Wirings \cup {None}]
  /\ capState \in [Caps -> {"ISSUED", "CONSUMED"}]
  /\ revoked \subseteq Caps
  /\ call \in [Callers -> Calls]
  /\ performed \in [Caps -> [Actions -> Nat]]
  /\ receipts \in [Caps -> Nat]
  /\ lost \subseteq Caps
  /\ spentOn \in [Caps -> Wirings \cup {None}]

Spent == {c \in Caps : capState[c] = "CONSUMED"}

\* The promise of pep.py's docstring: nothing is done without a capability for
\* exactly that action, and a capability is good for one performance, whoever
\* presents it where and whatever crashes.
Promise == INSTANCE AuthorizedActions WITH granted <- Caps \ revoked, spent <- Spent
Implements == Promise!Spec

Acted(c) == \E a \in Actions : performed[c][a] > 0
Held(c)  == \E t \in Callers : call[t].pc = "authorized" /\ call[t].cap = c

\* A capability that was used up for nothing was lost in a crash, or its action
\* was wired to something that does not work; no refusal, timeout, race or
\* rewiring burns one.  Whether a wiring works is fixed (Working): a command that starts at one
\* time and not at another, as when the system is out of processes, would use up its capability
\* just as well, as subprocess.run is after the consumption, and is not modelled.
BurnedByCrashOrWiring ==
  \A c \in Spent : Acted(c) \/ Held(c) \/ c \in lost \/ spentOn[c] \notin Working

\* An execution receipt stands for an execution on the capability it names, and
\* there is one at most (what an auditor reads from receipts is true).
ReceiptsAreTrue == \A c \in Caps : receipts[c] <= performed[c][ActionOf[c]]
=============================================================================
