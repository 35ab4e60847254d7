------------------------- MODULE EnforcementProofs -------------------------
(***************************************************************************)
(* Proofs about Enforcement, for any callers, capabilities, actions and    *)
(* wirings.                                                                *)
(***************************************************************************)
EXTENDS Enforcement, TLAPS

-----------------------------------------------------------------------------
(* Types *)

\* What a caller has in hand is a call in one of four stages.
OpenCalls ==
  [pc: {"presented", "authorized", "running", "answered"}, cap: Caps, action: Actions,
   wire: Wirings]

LEMMA OpenCall ==
  ASSUME TypeOK, NEW t \in Callers, call[t].pc # "idle"
  PROVE  call[t] \in OpenCalls
BY DEF TypeOK, Calls, OpenCalls, Idle

LEMMA PerformedType ==
  ASSUME TypeOK, NEW t \in Callers, call[t].pc # "idle"
  PROVE  /\ PerformedBy(t) \in [Caps -> [Actions -> Nat]]
         /\ \A c \in Caps, a \in Actions :
              PerformedBy(t)[c][a] =
                IF c = call[t].cap /\ a = call[t].action THEN performed[c][a] + 1
                                                         ELSE performed[c][a]
  <1>1. call[t].cap \in Caps /\ call[t].action \in Actions
    BY OpenCall DEF OpenCalls
  <1>2. performed \in [Caps -> [Actions -> Nat]]
    BY DEF TypeOK
  <1>3. performed[call[t].cap] \in [Actions -> Nat]
    BY <1>1, <1>2
  <1>4. [performed[call[t].cap] EXCEPT ![call[t].action] = @ + 1] \in [Actions -> Nat]
    BY <1>1, <1>3
  <1>. QED
    BY <1>1, <1>2, <1>3, <1>4 DEF PerformedBy

LEMMA TypeStep == TypeOK /\ [Next]_vars => TypeOK'
  <1>. SUFFICES ASSUME TypeOK, [Next]_vars PROVE TypeOK'
    OBVIOUS
  <1>t. call \in [Callers -> {Idle} \cup OpenCalls]
    BY DEF TypeOK, Calls, OpenCalls
  <1>0. CASE UNCHANGED vars
    BY <1>0 DEF TypeOK, vars, Calls
  <1>1. ASSUME NEW a \in Actions, NEW w \in Wirings, Wire(a, w) PROVE TypeOK'
    BY <1>1 DEF TypeOK, Wire, Calls
  <1>2. ASSUME NEW c \in Caps, Revoke(c) PROVE TypeOK'
    BY <1>2 DEF TypeOK, Revoke, Calls
  <1>3. ASSUME NEW t \in Callers, NEW c \in Caps, NEW a \in Actions, Present(t, c, a) PROVE TypeOK'
    <2>1. wiring[a] \in Wirings
      BY <1>3 DEF Present, TypeOK
    <2>2. call' \in [Callers -> {Idle} \cup OpenCalls]
      BY <1>3, <1>t, <2>1 DEF Present, OpenCalls
    <2>. QED
      BY <1>3, <2>2 DEF TypeOK, Present, Calls, OpenCalls
  <1>4. ASSUME NEW t \in Callers, Consume(t) PROVE TypeOK'
    <2>1. call[t] \in OpenCalls
      BY <1>4, OpenCall DEF Consume
    <2>2. call' \in [Callers -> {Idle} \cup OpenCalls]
      BY <1>4, <1>t, <2>1 DEF Consume, OpenCalls
    <2>3. capState' \in [Caps -> {"ISSUED", "CONSUMED"}] /\ spentOn' \in [Caps -> Wirings \cup {None}]
      BY <1>4, <2>1 DEF Consume, OpenCalls, TypeOK
    <2>. QED
      BY <1>4, <2>2, <2>3 DEF TypeOK, Consume, Calls, OpenCalls
  <1>5. ASSUME NEW t \in Callers, ConsumeRefused(t) \/ CannotAct(t) \/ CommandEnds(t) PROVE TypeOK'
    <2>1. call' = [call EXCEPT ![t] = Idle]
          /\ UNCHANGED <<wiring, capState, revoked, performed, receipts, lost, spentOn>>
      BY <1>5 DEF ConsumeRefused, CannotAct, CommandEnds
    <2>. QED
      BY <2>1 DEF TypeOK, Calls
  <1>6. ASSUME NEW t \in Callers, Dispatch(t) PROVE TypeOK'
    <2>1. call[t] \in OpenCalls
      BY <1>6, OpenCall DEF Dispatch
    <2>2. call' \in [Callers -> {Idle} \cup OpenCalls]
      BY <1>6, <1>t, <2>1 DEF Dispatch, OpenCalls
    <2>3. performed' \in [Caps -> [Actions -> Nat]]
      BY <1>6, PerformedType DEF Dispatch
    <2>. QED
      BY <1>6, <2>2, <2>3 DEF TypeOK, Dispatch, Calls, OpenCalls
  <1>7. ASSUME NEW t \in Callers, ReturnHeaders(t) PROVE TypeOK'
    <2>1. performed' \in [Caps -> [Actions -> Nat]]
      BY <1>7, PerformedType DEF ReturnHeaders
    <2>. QED
      BY <1>7, <2>1 DEF TypeOK, ReturnHeaders, Calls
  <1>8. ASSUME NEW t \in Callers, NEW usable \in BOOLEAN, ToolReturns(t, usable) PROVE TypeOK'
    <2>1. call[t] \in OpenCalls
      BY <1>8, OpenCall DEF ToolReturns
    <2>2. call' \in [Callers -> {Idle} \cup OpenCalls]
      BY <1>8, <1>t, <2>1 DEF ToolReturns, OpenCalls
    <2>. QED
      BY <1>8, <2>2 DEF TypeOK, ToolReturns, Calls, OpenCalls
  <1>9. ASSUME NEW t \in Callers, SignReceipt(t) PROVE TypeOK'
    <2>1. call[t].cap \in Caps
      BY <1>9, OpenCall DEF SignReceipt, OpenCalls
    <2>2. receipts' \in [Caps -> Nat]
      BY <1>9, <2>1 DEF TypeOK, SignReceipt
    <2>. QED
      BY <1>9, <2>2 DEF TypeOK, SignReceipt, Calls
  <1>10. ASSUME NEW t \in Callers, Crash(t) PROVE TypeOK'
    BY <1>10 DEF TypeOK, Crash, Calls
  <1>. QED
    BY <1>0, <1>1, <1>2, <1>3, <1>4, <1>5, <1>6, <1>7, <1>8, <1>9, <1>10 DEF Next

\* Every variable of the enforcement points stays in its range.
THEOREM TypeCorrect == Spec => []TypeOK
  <1>1. Init => TypeOK
    BY EnforcementAssumption DEF Init, TypeOK, Calls
  <1>. QED
    BY <1>1, TypeStep, PTL DEF Spec

-----------------------------------------------------------------------------
(* A consumed capability is in one caller's hands, or has been used         *)

InHand(t, c) == call[t].pc \in {"authorized", "running", "answered"} /\ call[t].cap = c

Unused(c) == \A a \in Actions : performed[c][a] = 0

OneUse(c) ==
  /\ capState[c] = "ISSUED" => Unused(c) /\ receipts[c] = 0
  /\ \A t, u \in Callers : InHand(t, c) /\ InHand(u, c) => t = u
  /\ \A t \in Callers : InHand(t, c) =>
       /\ capState[c] = "CONSUMED"
       /\ call[t].action = ActionOf[c]
       /\ receipts[c] = 0
       /\ call[t].pc = "authorized" => Unused(c) /\ spentOn[c] = call[t].wire
       /\ call[t].pc # "authorized" => performed[c][ActionOf[c]] = 1
  /\ receipts[c] <= performed[c][ActionOf[c]]
  /\ c \in Spent => Acted(c) \/ Held(c) \/ c \in lost \/ spentOn[c] \notin Working

IInv == TypeOK /\ \A c \in Caps : OneUse(c)

\* The other callers keep what they have in hand.
LEMMA OthersKept ==
  ASSUME TypeOK, NEW t \in Callers, NEW job, call' = [call EXCEPT ![t] = job]
  PROVE  call'[t] = job /\ \A u \in Callers : u # t => call'[u] = call[u]
BY DEF TypeOK

\* A step of a caller that has nothing in hand before and after it.
LEMMA EmptyHanded ==
  ASSUME IInv, NEW t \in Callers, NEW job, call' = [call EXCEPT ![t] = job],
         call[t].pc \in {"idle", "presented"}, job.pc \in {"idle", "presented"},
         UNCHANGED <<capState, performed, receipts, lost, spentOn>>, NEW c \in Caps
  PROVE  OneUse(c)'
  <1>1. \A u \in Callers : (InHand(u, c)' <=> InHand(u, c)) /\ (InHand(u, c) => call'[u] = call[u])
    BY OthersKept DEF InHand, IInv
  <1>2. Held(c)' <=> Held(c)
    BY OthersKept DEF Held, IInv
  <1>. QED
    BY <1>1, <1>2 DEF IInv, OneUse, Unused, Spent, Acted

LEMMA ConsumeStep ==
  ASSUME IInv, NEW t \in Callers, Consume(t), NEW c \in Caps
  PROVE  OneUse(c)'
  <1>1. /\ call[t] \in OpenCalls /\ call[t].pc = "presented"
        /\ Consumable(call[t].cap, call[t].action)
        /\ capState' = [capState EXCEPT ![call[t].cap] = "CONSUMED"]
        /\ spentOn' = [spentOn EXCEPT ![call[t].cap] = call[t].wire]
        /\ call' = [call EXCEPT ![t] = [call[t] EXCEPT !.pc = "authorized"]]
        /\ UNCHANGED <<performed, receipts, lost>>
    BY OpenCall DEF IInv, Consume
  <1>2. capState \in [Caps -> {"ISSUED", "CONSUMED"}] /\ spentOn \in [Caps -> Wirings \cup {None}]
        /\ TypeOK
    BY DEF IInv, TypeOK
  <1>3. /\ call'[t].pc = "authorized" /\ call'[t].cap = call[t].cap
        /\ call'[t].action = call[t].action /\ call'[t].wire = call[t].wire
        /\ \A u \in Callers : u # t => call'[u] = call[u]
    <2>1. call'[t] = [call[t] EXCEPT !.pc = "authorized"] /\ \A u \in Callers : u # t => call'[u] = call[u]
      BY <1>1, <1>2 DEF TypeOK
    <2>. QED
      BY <1>1, <2>1 DEF OpenCalls
  <1>4. OneUse(c)
    BY DEF IInv
  <1>5. CASE c = call[t].cap
    <2>1. /\ capState[c] = "ISSUED" /\ ActionOf[c] = call[t].action
          /\ capState'[c] = "CONSUMED" /\ spentOn'[c] = call[t].wire
      BY <1>1, <1>2, <1>5 DEF Consumable
    <2>2. Unused(c)' /\ receipts'[c] = 0 /\ receipts'[c] <= performed'[c][ActionOf[c]]
      BY <1>1, <1>4, <2>1 DEF OneUse, Unused
    <2>3. \A u \in Callers : ~InHand(u, c)
      BY <1>4, <2>1 DEF OneUse
    <2>4. \A u \in Callers : InHand(u, c)' <=> u = t
      BY <1>3, <1>5, <2>3 DEF InHand
    <2>5. Held(c)'
      BY <1>3, <1>5 DEF Held
    <2>. QED
      BY <1>3, <2>1, <2>2, <2>4, <2>5 DEF OneUse
  <1>6. CASE c # call[t].cap
    <2>1. capState'[c] = capState[c] /\ spentOn'[c] = spentOn[c]
      BY <1>1, <1>2, <1>6
    <2>2. \A u \in Callers : (InHand(u, c)' <=> InHand(u, c)) /\ (InHand(u, c) => call'[u] = call[u])
      BY <1>1, <1>3, <1>6 DEF InHand
    <2>3. Held(c)' <=> Held(c)
      BY <1>1, <1>3, <1>6 DEF Held
    <2>4. (Unused(c)' <=> Unused(c)) /\ (Acted(c)' <=> Acted(c)) /\ (c \in Spent' <=> c \in Spent)
      BY <1>1, <2>1 DEF Unused, Acted, Spent
    <2>5. \A u \in Callers : InHand(u, c)' =>
            /\ capState'[c] = "CONSUMED"
            /\ call'[u].action = ActionOf[c]
            /\ receipts'[c] = 0
            /\ call'[u].pc = "authorized" => Unused(c)' /\ spentOn'[c] = call'[u].wire
            /\ call'[u].pc # "authorized" => performed'[c][ActionOf[c]] = 1
      <3>. SUFFICES ASSUME NEW u \in Callers, InHand(u, c)'
                    PROVE  /\ capState'[c] = "CONSUMED"
                           /\ call'[u].action = ActionOf[c]
                           /\ receipts'[c] = 0
                           /\ call'[u].pc = "authorized" => Unused(c)' /\ spentOn'[c] = call'[u].wire
                           /\ call'[u].pc # "authorized" => performed'[c][ActionOf[c]] = 1
        OBVIOUS
      <3>1. InHand(u, c) /\ call'[u] = call[u]
        BY <2>2
      <3>2. /\ capState[c] = "CONSUMED" /\ call[u].action = ActionOf[c] /\ receipts[c] = 0
            /\ call[u].pc = "authorized" => Unused(c) /\ spentOn[c] = call[u].wire
            /\ call[u].pc # "authorized" => performed[c][ActionOf[c]] = 1
        BY <1>4, <3>1 DEF OneUse
      <3>. QED
        BY <1>1, <2>1, <2>4, <3>1, <3>2
    <2>6. \A u, w \in Callers : InHand(u, c)' /\ InHand(w, c)' => u = w
      BY <1>4, <2>2 DEF OneUse
    <2>. QED
      BY <1>1, <1>4, <2>1, <2>3, <2>4, <2>5, <2>6 DEF OneUse
  <1>. QED
    BY <1>5, <1>6

\* dispatch, or handing out headers, with an authorized call
LEMMA PerformStep ==
  ASSUME IInv, NEW t \in Callers, Dispatch(t) \/ ReturnHeaders(t), NEW c \in Caps
  PROVE  OneUse(c)'
  <1>1. /\ call[t] \in OpenCalls /\ call[t].pc = "authorized"
        /\ performed' = PerformedBy(t)
        /\ UNCHANGED <<capState, receipts, lost, spentOn>>
    BY OpenCall DEF IInv, Dispatch, ReturnHeaders
  <1>2. TypeOK
    BY DEF IInv
  <1>3. /\ \/ call'[t] = Idle
           \/ /\ call'[t].pc = "running" /\ call'[t].cap = call[t].cap
              /\ call'[t].action = call[t].action
        /\ \A u \in Callers : u # t => call'[u] = call[u]
    BY <1>1, <1>2, OthersKept DEF Dispatch, ReturnHeaders, OpenCalls
  <1>4. /\ OneUse(c) /\ OneUse(call[t].cap) /\ InHand(t, call[t].cap)
        /\ ActionOf[c] \in Actions
    BY <1>1, EnforcementAssumption DEF IInv, InHand, OpenCalls
  <1>5. call[t].action = ActionOf[call[t].cap] /\ Unused(call[t].cap) /\ receipts[call[t].cap] = 0
    BY <1>1, <1>4 DEF OneUse
  <1>6. \A a \in Actions :
          performed'[c][a] = IF c = call[t].cap /\ a = call[t].action THEN performed[c][a] + 1
                                                                    ELSE performed[c][a]
    BY <1>1, <1>2, PerformedType
  <1>7. CASE c = call[t].cap
    <2>1. performed'[c][ActionOf[c]] = 1
      BY <1>4, <1>5, <1>6, <1>7 DEF Unused
    <2>2. Acted(c)'
      BY <1>4, <2>1 DEF Acted
    <2>3. \A u \in Callers : InHand(u, c)' => u = t /\ call'[t].pc = "running"
      <3>1. \A u \in Callers : InHand(u, c) => u = t
        BY <1>4, <1>7 DEF OneUse
      <3>2. \A u \in Callers : InHand(u, c)' => u = t \/ InHand(u, c)
        BY <1>3 DEF InHand
      <3>3. InHand(t, c)' => call'[t].pc = "running"
        BY <1>3 DEF InHand, Idle
      <3>. QED
        BY <3>1, <3>2, <3>3
    <2>4. call'[t].pc = "running" => call'[t].action = ActionOf[c]
      BY <1>3, <1>5, <1>7 DEF Idle
    <2>5. capState[c] = "CONSUMED" /\ receipts[c] = 0
      BY <1>4, <1>5, <1>7 DEF OneUse
    <2>. QED
      BY <1>1, <2>1, <2>2, <2>3, <2>4, <2>5 DEF OneUse
  <1>8. CASE c # call[t].cap
    <2>1. \A a \in Actions : performed'[c][a] = performed[c][a]
      BY <1>6, <1>8
    <2>2. (Unused(c)' <=> Unused(c)) /\ (Acted(c)' <=> Acted(c))
      BY <2>1 DEF Unused, Acted
    <2>3. \A u \in Callers : (InHand(u, c)' <=> InHand(u, c)) /\ (InHand(u, c) => call'[u] = call[u])
      BY <1>1, <1>3, <1>8 DEF InHand, Idle
    <2>4. Held(c)' <=> Held(c)
      BY <1>1, <1>3, <1>8 DEF Held, Idle
    <2>5. performed'[c][ActionOf[c]] = performed[c][ActionOf[c]]
      BY <1>4, <2>1
    <2>. QED
      BY <1>1, <1>4, <2>2, <2>3, <2>4, <2>5 DEF OneUse, Spent
  <1>. QED
    BY <1>7, <1>8

\* A call goes on, or ends, with its capability used; or it ends because the
\* action cannot be started, or in a crash.
LEMMA LetGoStep ==
  ASSUME IInv, NEW t \in Callers, NEW c \in Caps,
         \/ CannotAct(t) \/ CommandEnds(t) \/ Crash(t)
         \/ \E usable \in BOOLEAN : ToolReturns(t, usable)
  PROVE  OneUse(c)'
  <1>1. /\ UNCHANGED <<capState, performed, receipts, spentOn>>
        /\ lost \subseteq lost'
        /\ \A u \in Callers : u # t => call'[u] = call[u]
        /\ \/ call'[t] = Idle
           \/ call[t].pc = "running" /\ call'[t] = [call[t] EXCEPT !.pc = "answered"]
    BY OthersKept DEF IInv, CannotAct, CommandEnds, Crash, ToolReturns
  <1>2. call[t] = Idle \/ call[t] \in OpenCalls
    BY OpenCall DEF IInv, Idle, TypeOK, Calls, OpenCalls
  <1>3. OneUse(c)
    BY DEF IInv
  <1>4. \A u \in Callers :
          InHand(u, c)' => /\ InHand(u, c) /\ call'[u].action = call[u].action
                           /\ \/ call'[u] = call[u]
                              \/ call'[u].pc = "answered" /\ call[u].pc = "running"
    BY <1>1, <1>2 DEF InHand, Idle, OpenCalls
  <1>5. call[t].pc = "authorized" /\ call[t].cap = c =>
          c \in lost' \/ spentOn'[c] \notin Working
    <2>1. CASE CannotAct(t)
      BY <2>1, <1>1, <1>3 DEF CannotAct, OneUse, InHand
    <2>2. CASE Crash(t)
      BY <2>2 DEF Crash
    <2>3. CASE CommandEnds(t) \/ \E usable \in BOOLEAN : ToolReturns(t, usable)
      BY <2>3 DEF CommandEnds, ToolReturns
    <2>. QED
      BY <2>1, <2>2, <2>3
  <1>6. Held(c) => Held(c)' \/ c \in lost' \/ spentOn'[c] \notin Working
    BY <1>1, <1>5 DEF Held
  <1>7. c \in Spent' => Acted(c)' \/ Held(c)' \/ c \in lost' \/ spentOn'[c] \notin Working
    BY <1>1, <1>3, <1>6 DEF OneUse, Spent, Acted
  <1>8. \A u \in Callers : InHand(u, c)' =>
          /\ capState'[c] = "CONSUMED"
          /\ call'[u].action = ActionOf[c]
          /\ receipts'[c] = 0
          /\ call'[u].pc = "authorized" => Unused(c)' /\ spentOn'[c] = call'[u].wire
          /\ call'[u].pc # "authorized" => performed'[c][ActionOf[c]] = 1
    BY <1>1, <1>3, <1>4 DEF OneUse, Unused
  <1>. QED
    BY <1>1, <1>3, <1>4, <1>7, <1>8 DEF OneUse, Unused

LEMMA ReceiptStep ==
  ASSUME IInv, NEW t \in Callers, SignReceipt(t), NEW c \in Caps
  PROVE  OneUse(c)'
  <1>1. /\ call[t] \in OpenCalls /\ call[t].pc = "answered"
        /\ receipts' = [receipts EXCEPT ![call[t].cap] = @ + 1]
        /\ UNCHANGED <<capState, performed, lost, spentOn>>
        /\ call'[t] = Idle
        /\ \A u \in Callers : u # t => call'[u] = call[u]
        /\ receipts \in [Caps -> Nat]
    BY OpenCall, OthersKept DEF IInv, SignReceipt, TypeOK
  <1>2. OneUse(c)
    BY DEF IInv
  <1>3. Held(c)' <=> Held(c)
    BY <1>1 DEF Held, Idle
  <1>4. \A u \in Callers : InHand(u, c)' <=> u # t /\ InHand(u, c)
    BY <1>1 DEF InHand, Idle
  <1>5. CASE c = call[t].cap
    <2>1. InHand(t, c) /\ receipts[c] = 0 /\ performed[c][ActionOf[c]] = 1 /\ capState[c] = "CONSUMED"
      BY <1>1, <1>2, <1>5 DEF InHand, OneUse
    <2>2. receipts'[c] = 1
      BY <1>1, <1>5, <2>1
    <2>3. \A u \in Callers : ~InHand(u, c)'
      BY <1>2, <1>4, <2>1 DEF OneUse
    <2>. QED
      BY <1>1, <1>2, <1>3, <2>1, <2>2, <2>3 DEF OneUse, Spent, Acted
  <1>6. CASE c # call[t].cap
    <2>1. receipts'[c] = receipts[c]
      BY <1>1, <1>6
    <2>. QED
      BY <1>1, <1>2, <1>3, <1>4, <2>1 DEF OneUse, Unused, Spent, Acted
  <1>. QED
    BY <1>5, <1>6

LEMMA UseStep == IInv /\ [Next]_vars => IInv'
  <1>. SUFFICES ASSUME IInv, [Next]_vars, NEW c \in Caps PROVE OneUse(c)'
    BY TypeStep DEF IInv
  <1>0. CASE UNCHANGED vars
    BY <1>0 DEF vars, IInv, OneUse, Unused, InHand, Spent, Acted, Held
  <1>1. ASSUME NEW a \in Actions, NEW w \in Wirings, Wire(a, w) PROVE OneUse(c)'
    BY <1>1 DEF Wire, IInv, OneUse, Unused, InHand, Spent, Acted, Held
  <1>2. ASSUME NEW d \in Caps, Revoke(d) PROVE OneUse(c)'
    BY <1>2 DEF Revoke, IInv, OneUse, Unused, InHand, Spent, Acted, Held
  <1>3. ASSUME NEW t \in Callers, NEW d \in Caps, NEW a \in Actions, Present(t, d, a)
        PROVE  OneUse(c)'
    <2>1. call' = [call EXCEPT ![t] = [pc |-> "presented", cap |-> d, action |-> a, wire |-> wiring[a]]]
      BY <1>3 DEF Present
    <2>2. call[t].pc = "idle" /\ UNCHANGED <<capState, performed, receipts, lost, spentOn>>
      BY <1>3 DEF Present, Idle
    <2>. QED
      BY <2>1, <2>2, EmptyHanded
  <1>4. ASSUME NEW t \in Callers, ConsumeRefused(t) PROVE OneUse(c)'
    BY <1>4, EmptyHanded DEF ConsumeRefused, Idle
  <1>. QED
    BY <1>0, <1>1, <1>2, <1>3, <1>4, ConsumeStep, PerformStep, LetGoStep, ReceiptStep DEF Next

LEMMA UseInvariant == Spec => []IInv
  <1>1. Init => TypeOK
    BY EnforcementAssumption DEF Init, TypeOK, Calls
  <1>2. Init => \A c \in Caps : OneUse(c)
    BY EnforcementAssumption DEF Init, OneUse, Unused, InHand, Spent, Idle
  <1>. QED
    BY <1>1, <1>2, UseStep, PTL DEF Spec, IInv

\* No refusal, race, timeout or rewiring uses up a capability for nothing.
THEOREM BurnHolds == Spec => []BurnedByCrashOrWiring
  <1>1. IInv => BurnedByCrashOrWiring
    BY DEF IInv, OneUse, BurnedByCrashOrWiring, Spent
  <1>. QED
    BY <1>1, UseInvariant, PTL

\* Every receipt stands for an execution of its own.
THEOREM ReceiptsHold == Spec => []ReceiptsAreTrue
  <1>1. IInv => ReceiptsAreTrue
    BY DEF IInv, OneUse, ReceiptsAreTrue
  <1>. QED
    BY <1>1, UseInvariant, PTL

-----------------------------------------------------------------------------
(* The refinement *)

abstractVars == <<Caps \ revoked, Spent, performed>>

LEMMA ConsumeSpends ==
  ASSUME IInv, NEW t \in Callers, Consume(t)
  PROVE  \E c \in Caps : Promise!Spend(c)
  <1>1. call[t].cap \in Caps /\ capState \in [Caps -> {"ISSUED", "CONSUMED"}]
    BY OpenCall DEF IInv, Consume, OpenCalls, TypeOK
  <1>2. Spent' = Spent \cup {call[t].cap}
    BY <1>1 DEF Consume, Spent
  <1>3. call[t].cap \in (Caps \ revoked) \ Spent
    BY <1>1 DEF Consume, Consumable, Spent
  <1>. QED
    BY <1>1, <1>2, <1>3 DEF Consume, Promise!Spend

LEMMA PerformPerforms ==
  ASSUME IInv, NEW t \in Callers, Dispatch(t) \/ ReturnHeaders(t)
  PROVE  \E c \in Caps : Promise!Perform(c)
  <1>1. call[t] \in OpenCalls /\ call[t].pc = "authorized"
        /\ performed' = PerformedBy(t) /\ UNCHANGED <<capState, revoked>>
    BY OpenCall DEF IInv, Dispatch, ReturnHeaders
  <1>2. PICK c \in Caps : c = call[t].cap
    BY <1>1 DEF OpenCalls
  <1>3. /\ c \in Spent /\ call[t].action = ActionOf[c] /\ ActionOf[c] \in Actions
        /\ \A a \in Actions : performed[c][a] = 0
    BY <1>1, <1>2, EnforcementAssumption DEF IInv, OneUse, InHand, Unused, Spent
  <1>4. performed' = [performed EXCEPT ![c][ActionOf[c]] = 1]
    <2>1. performed \in [Caps -> [Actions -> Nat]] /\ performed[c][ActionOf[c]] + 1 = 1
      BY <1>3 DEF IInv, TypeOK
    <2>. QED
      BY <1>1, <1>2, <1>3, <2>1 DEF PerformedBy
  <1>5. UNCHANGED <<Caps \ revoked, Spent>>
    BY <1>1 DEF Spent
  <1>6. Promise!Perform(c)
    BY <1>3, <1>4, <1>5 DEF Promise!Perform
  <1>. QED
    BY <1>6

LEMMA StepRefines == IInv /\ [Next]_vars => [Promise!Next]_abstractVars
  <1>. SUFFICES ASSUME IInv, [Next]_vars PROVE [Promise!Next]_abstractVars
    OBVIOUS
  <1>1. ASSUME NEW c \in Caps, Revoke(c) PROVE Promise!Next
    <2>1. (Caps \ revoked)' = (Caps \ revoked) \ {c} /\ UNCHANGED <<Spent, performed>>
      BY <1>1 DEF Revoke, Spent
    <2>2. Promise!Withdraw(c)
      BY <2>1 DEF Promise!Withdraw
    <2>. QED
      BY <2>2 DEF Promise!Next
  <1>2. ASSUME NEW t \in Callers, Consume(t) PROVE Promise!Next
    BY <1>2, ConsumeSpends DEF Promise!Next
  <1>3. ASSUME NEW t \in Callers, Dispatch(t) \/ ReturnHeaders(t) PROVE Promise!Next
    BY <1>3, PerformPerforms DEF Promise!Next
  <1>4. CASE UNCHANGED <<capState, revoked, performed>>
    BY <1>4 DEF abstractVars, Spent
  <1>5. CASE \/ UNCHANGED vars
             \/ \E a \in Actions, w \in Wirings : Wire(a, w)
             \/ \E t \in Callers, c \in Caps, a \in Actions : Present(t, c, a)
             \/ \E t \in Callers :
                  \/ ConsumeRefused(t) \/ CannotAct(t) \/ CommandEnds(t)
                  \/ SignReceipt(t) \/ Crash(t)
             \/ \E t \in Callers, usable \in BOOLEAN : ToolReturns(t, usable)
    BY <1>4, <1>5
       DEF vars, Wire, Present, ConsumeRefused, CannotAct, CommandEnds, SignReceipt, Crash, ToolReturns
  <1>. QED
    BY <1>1, <1>2, <1>3, <1>5 DEF Next

\* Nothing is performed without a capability granted for exactly that action
\* and consumed for it, and one capability is good for one performance.
THEOREM Refinement == Spec => Implements
  <1>1. Init => Promise!Init
    BY DEF Init, Promise!Init, Spent
  <1>. QED
    BY <1>1, StepRefines, UseInvariant, PTL DEF Spec, Implements, Promise!Spec, abstractVars
=============================================================================
