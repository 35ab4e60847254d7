----------------------- MODULE CapabilityStoreProofs -----------------------
(***************************************************************************)
(* Proofs about CapabilityStore, for every set of mandates, capabilities   *)
(* and threads and every bound, and about StateBinding, the transaction of *)
(* the same store that ties a consumption to the governed state.           *)
(*                                                                         *)
(* The budget argument: a child's spend limit is counted out in units, so  *)
(* that the reservations under a mandate are the cardinality of a set and  *)
(* the spends of its children a subset of that set.                        *)
(***************************************************************************)
EXTENDS CapabilityStore, StateBinding, FiniteSetTheorems, TLAPS

\* Next, with the actions that sign a capability as one, and those that return
\* from the store without an effect as one.
Step ==
  \/ \E m \in Mandates, l \in MandateLimits, a \in ActionsLimits : CreateMandate(m, l, a)
  \/ \E m \in Mandates, l \in Lifecycles : TransitionMandate(m, l)
  \/ \E m \in Mandates, d \in Digests, h \in Holders, l \in MandateLimits,
        ttl \in Lifetimes, s \in StalenessBounds : IssueMandate(m, d, h, l, ttl, s)
  \/ \E t \in Minters, c \in Caps, p \in Payloads : Sign(t, c, p)
  \/ \E t \in Minters : DebitMandateForChild(t)
  \/ \E t \in Minters : DebitRefused(t)
  \/ \E t \in Minters : RegisterCapability(t)
  \/ \E t \in Consumers : ReadClock(t)
  \/ \E t \in Consumers, c \in Caps, k \in Holders, e \in Limits(Digests), a \in Amounts :
       ConsumeCapability(t, c, k, e, a)
  \/ \E t \in Consumers : ReturnUnchanged(t)
  \/ \E x \in Ids : AuthorityRevokes(x)
  \/ \E t \in Syncers : FetchRevocations(t)
  \/ \E t \in Syncers : SyncCall(t)
  \/ \E t \in Syncers, x \in Ids : RevokeCall(t, x)
  \/ \E t \in Syncers : SyncCommit(t)
  \/ Tick
  \/ CrashRestart

\* Every step of Next is one of Step: what issue_* and mint_child sign is a
\* well-formed payload.
LEMMA NextIsStep ==
  ASSUME TypeOK, Next
  PROVE  Step
<1>1. ASSUME NEW t \in Minters, NEW c \in Caps, NEW k \in DirectKinds, NEW d \in Digests,
             NEW h \in Holders, NEW l \in ChildLimits, NEW ttl \in Lifetimes,
             NEW s \in StalenessBounds, IssueDirect(t, c, k, d, h, l, ttl, s)
      PROVE  \E p \in Payloads : Sign(t, c, p)
  <2> DEFINE p == [kind |-> k, digest |-> d, holder |-> h, spendLimit |-> l,
                   expiresAt |-> now + ttl, staleness |-> s, mandate |-> None]
  <2>1. p \in Payloads
    BY <1>1, ConstantsAssumption DEF Payloads, TypeOK, Limits
  <2> QED BY <1>1, <2>1 DEF IssueDirect
<1>2. ASSUME NEW t \in Minters, NEW c \in Caps, NEW m \in Mandates, NEW h \in Holders,
             NEW l \in ChildLimits, NEW ttl \in Lifetimes, NEW s \in StalenessBounds,
             MintChild(t, c, m, h, l, ttl, s)
      PROVE  \E p \in Payloads : Sign(t, c, p)
  <2> DEFINE p == [kind |-> "execution", digest |-> grant[m].digest, holder |-> h,
                   spendLimit |-> ChildLimit(grant[m], l), expiresAt |-> now + ttl,
                   staleness |-> s, mandate |-> m]
  <2>1. grant[m] \in Payloads
    BY <1>2 DEF MintChild, TypeOK
  <2>2. ChildLimit(grant[m], l) \in Limits(Nat)
    BY <2>1, ConstantsAssumption DEF ChildLimit, Payloads, Limits
  <2>3. p \in Payloads
    BY <2>1, <2>2, ConstantsAssumption DEF Payloads, TypeOK, Limits
  <2> QED BY <1>2, <2>3 DEF MintChild
<1> QED
  BY <1>1, <1>2 DEF Next, Step, CheckCapability, ConsumeRefused

\* Where a capability is between signing, debit and registration: a minter at
\* work holds a signed, unregistered capability no other minter holds, and what
\* is debited or registered has been signed for that mandate.
MintOrder ==
  /\ \A t \in Minters : minter[t].pc # "idle" =>
       /\ minter[t].cap \in Caps
       /\ payload[minter[t].cap] # None
       /\ capState[minter[t].cap] = Missing
  /\ \A t, u \in Minters :
       minter[t].pc # "idle" /\ minter[u].pc # "idle" /\ minter[t].cap = minter[u].cap => t = u
  /\ \A t \in Minters : minter[t].pc = "signed" =>
       \A m \in Mandates : minter[t].cap \notin debited[m]
  /\ \A t \in Minters : minter[t].pc = "debited" =>
       /\ payload[minter[t].cap].mandate \in Mandates
       /\ minter[t].cap \in debited[payload[minter[t].cap].mandate]
  /\ \A c \in Caps : capState[c] # Missing => payload[c] # None
  /\ \A m \in Mandates : \A c \in debited[m] : payload[c] # None /\ payload[c].mandate = m
  /\ \A m \in Mandates : Children(m) \subseteq debited[m]

TypeInv == TypeOK /\ MintOrder

\* The mandate a minter is about to debit, and what it reserves.
LEMMA DebitArguments ==
  ASSUME TypeInv, NEW t \in Minters, DebitMandateForChild(t)
  PROVE  /\ minter[t].cap \in Caps
         /\ payload[minter[t].cap].mandate \in Mandates
         /\ Reserve(payload[minter[t].cap]) \in Nat
<1>1. minter[t].cap \in Caps /\ payload[minter[t].cap] # None
  BY DEF DebitMandateForChild, TypeInv, MintOrder
<1>2. payload \in [Caps -> Payloads \cup {None}]
  BY DEF TypeInv, TypeOK
<1>3. payload[minter[t].cap] \in Payloads
  BY <1>1, <1>2
<1> QED BY <1>1, <1>3 DEF DebitMandateForChild, Payloads, Reserve, Limits

\* No step leaves the types.
LEMMA TypeStep ==
  ASSUME TypeInv, [Next]_vars
  PROVE  TypeOK'
<1> USE DEF TypeOK, TypeInv
<1>1. ASSUME NEW m \in Mandates, NEW l \in MandateLimits, NEW a \in ActionsLimits,
             CreateMandate(m, l, a)
      PROVE  TypeOK'
  BY <1>1, ConstantsAssumption DEF CreateMandate, capVars, viewVars, signedVars, Limits,
     Lifecycles, Missing
<1>2. ASSUME NEW m \in Mandates, NEW l \in Lifecycles, TransitionMandate(m, l)
      PROVE  TypeOK'
  BY <1>2 DEF TransitionMandate, capVars, viewVars, signedVars
<1>3. ASSUME NEW m \in Mandates, NEW d \in Digests, NEW h \in Holders, NEW l \in MandateLimits,
             NEW ttl \in Lifetimes, NEW s \in StalenessBounds, IssueMandate(m, d, h, l, ttl, s)
      PROVE  TypeOK'
  <2>1. [kind |-> "mandate", digest |-> d, holder |-> h, spendLimit |-> l,
         expiresAt |-> now + ttl, staleness |-> s, mandate |-> m] \in Payloads
    BY <1>3, ConstantsAssumption DEF Payloads, Limits
  <2> QED BY <1>3, <2>1 DEF IssueMandate, mandateVars, capVars, viewVars
<1>4. ASSUME NEW t \in Minters, NEW c \in Caps, NEW p \in Payloads, Sign(t, c, p)
      PROVE  TypeOK'
  BY <1>4 DEF Sign, mandateVars, capVars, viewVars
<1>5. ASSUME NEW t \in Minters, DebitMandateForChild(t)
      PROVE  TypeOK'
  <2>0. /\ minter[t].cap \in Caps
        /\ payload[minter[t].cap].mandate \in Mandates
        /\ Reserve(payload[minter[t].cap]) \in Nat
    BY <1>5, DebitArguments
  <2>1. spendUsed' \in [Mandates -> Nat] /\ actionsUsed' \in [Mandates -> Nat]
    <3> DEFINE c == minter[t].cap
    <3> DEFINE m == payload[c].mandate
    <3>1. spendUsed \in [Mandates -> Nat] /\ actionsUsed \in [Mandates -> Nat]
      OBVIOUS
    <3>2. /\ spendUsed' = [spendUsed EXCEPT ![m] = spendUsed[m] + Reserve(payload[c])]
          /\ actionsUsed' = [actionsUsed EXCEPT ![m] = actionsUsed[m] + 1]
      BY <1>5 DEF DebitMandateForChild
    <3> HIDE DEF TypeOK, TypeInv
    <3>3. spendUsed[m] + Reserve(payload[c]) \in Nat /\ actionsUsed[m] + 1 \in Nat
      BY <2>0, <3>1
    <3> HIDE DEF c, m
    <3> QED BY <3>1, <3>2, <3>3
  <2>2. debited' \in [Mandates -> SUBSET Caps]
    <3>1. debited \in [Mandates -> SUBSET Caps]
      OBVIOUS
    <3> HIDE DEF TypeOK, TypeInv
    <3> QED BY <1>5, <2>0, <3>1 DEF DebitMandateForChild
  <2>3. minter' \in [Minters -> [pc: {"idle", "signed", "debited"}, cap: Caps \cup {None}]]
    <3>1. minter \in [Minters -> [pc: {"idle", "signed", "debited"}, cap: Caps \cup {None}]]
      OBVIOUS
    <3>2. minter' = [minter EXCEPT ![t].pc = "debited"]
      BY <1>5 DEF DebitMandateForChild
    <3> HIDE DEF TypeOK, TypeInv
    <3> QED BY <3>1, <3>2
  <2>4. /\ UNCHANGED <<capVars, viewVars, signedVars, now, authorityRevokedAt>>
        /\ UNCHANGED <<lifecycle, spendLimit, actionsLimit, consumer, syncer>>
    BY <1>5 DEF DebitMandateForChild
  <2> QED BY <2>1, <2>2, <2>3, <2>4 DEF capVars, viewVars, signedVars
<1>6. ASSUME NEW t \in Minters, DebitRefused(t)
      PROVE  TypeOK'
  BY <1>6 DEF DebitRefused, IdleMinter, mandateVars, capVars, viewVars, signedVars
<1>7. ASSUME NEW t \in Minters, RegisterCapability(t)
      PROVE  TypeOK'
  BY <1>7 DEF RegisterCapability, IdleMinter, mandateVars, viewVars, signedVars
<1>8. ASSUME NEW t \in Consumers, ReadClock(t)
      PROVE  TypeOK'
  BY <1>8 DEF ReadClock, mandateVars, capVars, viewVars, signedVars, Limits
<1>9. ASSUME NEW t \in Consumers, NEW c \in Caps, NEW k \in Holders,
             NEW e \in Limits(Digests), NEW a \in Amounts, ConsumeCapability(t, c, k, e, a)
      PROVE  TypeOK'
  BY <1>9, ConstantsAssumption DEF ConsumeCapability, mandateVars, viewVars, signedVars, Limits
<1>10. ASSUME NEW t \in Consumers, ReturnUnchanged(t)
       PROVE  TypeOK'
  BY <1>10 DEF ReturnUnchanged, mandateVars, capVars, viewVars, signedVars, Limits
<1>11. ASSUME NEW x \in Ids, AuthorityRevokes(x)
       PROVE  TypeOK'
  BY <1>11 DEF AuthorityRevokes, mandateVars, capVars, viewVars, signedVars, Limits
<1>12. ASSUME NEW t \in Syncers, FetchRevocations(t)
       PROVE  TypeOK'
  <2>1. syncer' \in [Syncers -> [pc: {"idle", "fetched", "locking"}, ids: SUBSET Ids, at: Nat,
                                heard: BOOLEAN]]
    <3> DEFINE heardOf == {x \in Ids : authorityRevokedAt[x] # None}
    <3>1. /\ syncer \in [Syncers -> [pc: {"idle", "fetched", "locking"}, ids: SUBSET Ids, at: Nat,
                                    heard: BOOLEAN]]
          /\ now \in Nat /\ heardOf \in SUBSET Ids
      OBVIOUS
    <3>2. syncer' = [syncer EXCEPT ![t] = [pc |-> "fetched", ids |-> heardOf, at |-> now,
                                           heard |-> TRUE]]
      BY <1>12 DEF FetchRevocations
    <3> HIDE DEF TypeOK, TypeInv, heardOf
    <3> QED BY <3>1, <3>2
  <2>2. UNCHANGED <<now, mandateVars, capVars, viewVars, signedVars, authorityRevokedAt,
                    minter, consumer, debited>>
    BY <1>12 DEF FetchRevocations
  <2> QED BY <2>1, <2>2 DEF mandateVars, capVars, viewVars, signedVars
<1>13. ASSUME NEW t \in Syncers, SyncCall(t)
       PROVE  TypeOK'
  <2>1. syncer' \in [Syncers -> [pc: {"idle", "fetched", "locking"}, ids: SUBSET Ids, at: Nat,
                                heard: BOOLEAN]]
    <3>1. /\ syncer \in [Syncers -> [pc: {"idle", "fetched", "locking"}, ids: SUBSET Ids, at: Nat,
                                    heard: BOOLEAN]]
          /\ now \in Nat
      OBVIOUS
    <3>2. syncer' = [syncer EXCEPT ![t].pc = "locking", ![t].at = now]
      BY <1>13 DEF SyncCall
    <3> HIDE DEF TypeOK, TypeInv
    <3> QED BY <3>1, <3>2
  <2>2. UNCHANGED <<now, mandateVars, capVars, viewVars, signedVars, authorityRevokedAt,
                    minter, consumer, debited>>
    BY <1>13 DEF SyncCall
  <2> QED BY <2>1, <2>2 DEF mandateVars, capVars, viewVars, signedVars
<1>14. ASSUME NEW t \in Syncers, NEW x \in Ids, RevokeCall(t, x)
       PROVE  TypeOK'
  <2>1. syncer' \in [Syncers -> [pc: {"idle", "fetched", "locking"}, ids: SUBSET Ids, at: Nat,
                                heard: BOOLEAN]]
    <3>1. /\ syncer \in [Syncers -> [pc: {"idle", "fetched", "locking"}, ids: SUBSET Ids, at: Nat,
                                    heard: BOOLEAN]]
          /\ now \in Nat
      OBVIOUS
    <3>2. syncer' = [syncer EXCEPT ![t] =
                                [pc |-> "locking", ids |-> {x}, at |-> now, heard |-> FALSE]]
      BY <1>14 DEF RevokeCall
    <3> HIDE DEF TypeOK, TypeInv
    <3> QED BY <3>1, <3>2
  <2>2. UNCHANGED <<now, mandateVars, capVars, viewVars, signedVars, authorityRevokedAt,
                    minter, consumer, debited>>
    BY <1>14 DEF RevokeCall
  <2> QED BY <2>1, <2>2 DEF mandateVars, capVars, viewVars, signedVars
<1>15. ASSUME NEW t \in Syncers, SyncCommit(t)
       PROVE  TypeOK'
  <2>1. /\ syncer[t].ids \subseteq Ids /\ syncer[t].at \in Nat
        /\ IdleSyncer \in [pc: {"idle", "fetched", "locking"}, ids: SUBSET Ids, at: Nat,
                           heard: BOOLEAN]
    BY DEF IdleSyncer
  <2> QED BY <1>15, <2>1 DEF SyncCommit, mandateVars, capVars, signedVars
<1>16. ASSUME Tick
       PROVE  TypeOK'
  BY <1>16 DEF Tick, mandateVars, capVars, viewVars, signedVars
<1>17. ASSUME CrashRestart
       PROVE  TypeOK'
  BY <1>17 DEF CrashRestart, IdleMinter, IdleSyncer, mandateVars, capVars, viewVars, signedVars,
     Limits
<1>18. ASSUME UNCHANGED vars
       PROVE  TypeOK'
  BY <1>18 DEF vars, mandateVars, capVars, viewVars, signedVars
<1> QED
  BY <1>1, <1>2, <1>3, <1>4, <1>5, <1>6, <1>7, <1>8, <1>9, <1>10, <1>11, <1>12, <1>13, <1>14,
     <1>15, <1>16, <1>17, <1>18, NextIsStep DEF Step

\* No step disturbs the order sign, debit, register.
LEMMA MintOrderStep ==
  ASSUME TypeInv, [Next]_vars
  PROVE  MintOrder'
<1> USE DEF TypeOK, TypeInv, MintOrder, Children
<1>1. CASE UNCHANGED <<capState, payload, minter, debited>>
  BY <1>1
<1>2. ASSUME NEW t \in Minters, NEW c \in Caps, NEW p \in Payloads, Sign(t, c, p)
      PROVE  MintOrder'
  <2>1. payload[c] = None /\ capState[c] = Missing /\ \A m \in Mandates : c \notin debited[m]
    BY <1>2 DEF Sign
  <2>2. p # None
    BY NoneAssumption
  <2> QED BY <1>2, <2>1, <2>2 DEF Sign, capVars
<1>3. ASSUME NEW t \in Minters, DebitMandateForChild(t)
      PROVE  MintOrder'
  <2>0. /\ minter[t].cap \in Caps
        /\ payload[minter[t].cap].mandate \in Mandates
        /\ Reserve(payload[minter[t].cap]) \in Nat
    BY <1>3, DebitArguments
  <2>1. PICK c \in Caps, m \in Mandates :
          /\ minter[t].pc = "signed" /\ minter[t].cap = c /\ payload[c].mandate = m
          /\ debited' = [debited EXCEPT ![m] = @ \cup {c}]
          /\ minter' = [minter EXCEPT ![t].pc = "debited"]
          /\ UNCHANGED <<capState, payload>>
    BY <1>3, <2>0 DEF DebitMandateForChild, capVars, signedVars
  <2>2. \A n \in Mandates : debited'[n] = IF n = m THEN debited[n] \cup {c} ELSE debited[n]
    <3>1. debited \in [Mandates -> SUBSET Caps]
      OBVIOUS
    <3> HIDE DEF TypeInv
    <3> QED BY <2>1, <3>1
  <2>3. \A u \in Minters :
          /\ minter'[u].cap = minter[u].cap
          /\ u # t => minter'[u].pc = minter[u].pc
          /\ u = t => minter'[u].pc = "debited"
    <3>1. \A u \in Minters : u # t => minter'[u] = minter[u]
      BY <2>1
    <3>2. minter'[t] = [minter[t] EXCEPT !.pc = "debited"]
      BY <2>1
    <3>3. minter[t] \in [pc: {"idle", "signed", "debited"}, cap: Caps \cup {None}]
      OBVIOUS
    <3>4. minter'[t].cap = minter[t].cap /\ minter'[t].pc = "debited"
      BY <3>2, <3>3
    <3> QED BY <3>1, <3>4
  <2>4. payload[c] # None /\ capState[c] = Missing
    BY <2>1
  <2>5. \A u \in Minters : minter'[u].pc # "idle" => minter[u].pc # "idle"
    BY <2>1, <2>3
  <2>6. /\ \A u \in Minters : minter'[u].pc # "idle" =>
              /\ minter'[u].cap \in Caps
              /\ payload'[minter'[u].cap] # None
              /\ capState'[minter'[u].cap] = Missing
        /\ \A u, v \in Minters : minter'[u].pc # "idle" /\ minter'[v].pc # "idle"
                                  /\ minter'[u].cap = minter'[v].cap => u = v
    BY <2>1, <2>3, <2>5
  <2>7. \A u \in Minters : minter'[u].pc = "signed" =>
          \A n \in Mandates : minter'[u].cap \notin debited'[n]
    BY <2>1, <2>2, <2>3
  <2>8. \A u \in Minters : minter'[u].pc = "debited" =>
          /\ payload'[minter'[u].cap].mandate \in Mandates
          /\ minter'[u].cap \in debited'[payload'[minter'[u].cap].mandate]
    BY <2>1, <2>2, <2>3
  <2>9. \A n \in Mandates : \A x \in debited'[n] : payload'[x] # None /\ payload'[x].mandate = n
    BY <2>1, <2>2, <2>4
  <2>10. \A n \in Mandates : Children(n)' \subseteq debited'[n]
    BY <2>1, <2>2
  <2> QED BY <2>1, <2>6, <2>7, <2>8, <2>9, <2>10
<1>4. ASSUME NEW t \in Minters, DebitRefused(t)
      PROVE  MintOrder'
  BY <1>4 DEF DebitRefused, IdleMinter, capVars, signedVars
<1>5. ASSUME NEW t \in Minters, RegisterCapability(t)
      PROVE  MintOrder'
  BY <1>5, ConstantsAssumption DEF RegisterCapability, MayRegister, IdleMinter, signedVars
<1>6. ASSUME NEW t \in Consumers, NEW c \in Caps, NEW k \in Holders,
             NEW e \in Limits(Digests), NEW a \in Amounts, ConsumeCapability(t, c, k, e, a)
      PROVE  MintOrder'
  BY <1>6 DEF ConsumeCapability, Permitted, Unused, Verifies, signedVars, Missing
<1>7. ASSUME CrashRestart
      PROVE  MintOrder'
  BY <1>7 DEF CrashRestart, IdleMinter, capVars, signedVars
<1> QED
  BY <1>1, <1>2, <1>3, <1>4, <1>5, <1>6, <1>7, NextIsStep DEF Step, vars, capVars, signedVars,
     CreateMandate, TransitionMandate, IssueMandate, ReadClock, ReturnUnchanged,
     AuthorityRevokes, FetchRevocations, SyncCall, RevokeCall, SyncCommit, Tick

\* Every reachable state is well typed, and minted in order.
THEOREM TypeCorrect == Spec => []TypeInv
<1>1. Init => TypeInv
  BY ConstantsAssumption DEF Init, InitWith, TypeInv, TypeOK, MintOrder, Children, IdleMinter,
     IdleSyncer, Limits, Lifecycles, Missing, Ids
<1>2. TypeInv /\ [Next]_vars => TypeInv'
  BY TypeStep, MintOrderStep DEF TypeInv
<1> QED BY <1>1, <1>2, PTL DEF Spec

\* Every column of the store and every thread stays in its range.
THEOREM TypesHold == Spec => []TypeOK
<1>1. TypeInv => TypeOK
  BY DEF TypeInv
<1> QED BY <1>1, TypeCorrect, PTL

-----------------------------------------------------------------------------
(* The budget *)

\* A spend of n is n units.
LEMMA UnitsCount ==
  ASSUME NEW c, NEW n \in Nat
  PROVE  IsFiniteSet(Units(c, n)) /\ Cardinality(Units(c, n)) = n
<1>1. IsFiniteSet({c}) /\ Cardinality({c}) = 1
  BY FS_Singleton
<1>2. IsFiniteSet(1 .. n) /\ Cardinality(1 .. n) = n
  BY FS_Interval
<1>3. /\ IsFiniteSet({c} \X (1 .. n))
      /\ Cardinality({c} \X (1 .. n)) = Cardinality({c}) * Cardinality(1 .. n)
  BY <1>1, <1>2, FS_Product
<1> QED BY <1>1, <1>2, <1>3 DEF Units

\* Debiting one more child adds its reservation to the total.
LEMMA ReservedGrows ==
  ASSUME NEW S, NEW c, c \notin S, IsFiniteSet(ReservedUnits(S)), Reserve(payload[c]) \in Nat
  PROVE  /\ IsFiniteSet(ReservedUnits(S \cup {c}))
         /\ Cardinality(ReservedUnits(S \cup {c}))
              = Cardinality(ReservedUnits(S)) + Reserve(payload[c])
<1> DEFINE U == Units(c, Reserve(payload[c]))
<1>1. IsFiniteSet(U) /\ Cardinality(U) = Reserve(payload[c])
  BY UnitsCount
<1>2. ReservedUnits(S \cup {c}) = ReservedUnits(S) \cup U
  BY DEF ReservedUnits
<1>3. ReservedUnits(S) \cap U = {}
  BY DEF ReservedUnits, Units
<1>4. Cardinality(ReservedUnits(S) \cap U) = 0
  BY <1>3, FS_EmptySet
<1>5. /\ IsFiniteSet(ReservedUnits(S) \cup U)
      /\ Cardinality(ReservedUnits(S) \cup U)
           = Cardinality(ReservedUnits(S)) + Cardinality(U) - Cardinality(ReservedUnits(S) \cap U)
  BY <1>1, FS_Union
<1>6. Cardinality(ReservedUnits(S)) \in Nat
  BY FS_CardinalityType
<1> HIDE DEF U
<1>7. IsFiniteSet(ReservedUnits(S \cup {c}))
  BY <1>2, <1>5
<1>8. Cardinality(ReservedUnits(S \cup {c})) = Cardinality(ReservedUnits(S)) + Cardinality(U) - 0
  BY <1>2, <1>4, <1>5
<1> QED BY <1>1, <1>6, <1>7, <1>8

\* What is recorded of a mandate: an exact ledger that is within its limits.
MandateLedger(m) ==
  /\ IsFiniteSet(ReservedUnits(debited[m]))
  /\ spendUsed[m] = Cardinality(ReservedUnits(debited[m]))
  /\ actionsUsed[m] = Cardinality(debited[m])
  /\ WithinLimit(spendUsed[m], spendLimit[m])
  /\ WithinLimit(actionsUsed[m], actionsLimit[m])
  /\ lifecycle[m] = Missing => debited[m] = {}

\* What is recorded of a capability: a spend within its own limit.
SpendWithinLimit(c) ==
  /\ payload[c] = None => spendConsumed[c] = 0
  /\ payload[c] # None => WithinLimit(spendConsumed[c], payload[c].spendLimit)

LedgerInv ==
  /\ \A m \in Mandates : MandateLedger(m)
  /\ \A c \in Caps : SpendWithinLimit(c)

\* The ledger of a mandate whose row and children a step leaves alone.
LEMMA LedgerUnchanged ==
  ASSUME NEW m \in Mandates, MandateLedger(m),
         UNCHANGED <<lifecycle[m], spendLimit[m], spendUsed[m], actionsLimit[m], actionsUsed[m],
                     debited[m]>>,
         \A c \in debited[m] : payload'[c] = payload[c]
  PROVE  MandateLedger(m)'
<1>1. ReservedUnits(debited[m])' = ReservedUnits(debited[m])
  BY DEF ReservedUnits, Reserve
<1> QED BY <1>1 DEF MandateLedger, WithinLimit

LEMMA LedgerStep ==
  ASSUME TypeInv, TypeInv', LedgerInv, [Next]_vars
  PROVE  LedgerInv'
<1>1. CASE UNCHANGED <<mandateVars, spendConsumed, payload, debited>>
  <2>1. ASSUME NEW m \in Mandates
        PROVE  MandateLedger(m)'
    BY <1>1, LedgerUnchanged DEF LedgerInv, mandateVars
  <2>2. ASSUME NEW c \in Caps
        PROVE  SpendWithinLimit(c)'
    BY <1>1 DEF LedgerInv, SpendWithinLimit, WithinLimit
  <2> QED BY <2>1, <2>2 DEF LedgerInv
<1>2. ASSUME NEW m \in Mandates, NEW l \in MandateLimits, NEW a \in ActionsLimits,
             CreateMandate(m, l, a)
      PROVE  LedgerInv'
  <2>1. UNCHANGED <<spendUsed, actionsUsed, spendConsumed, payload, debited>>
    BY <1>2 DEF CreateMandate, capVars, signedVars
  <2>2. MandateLedger(m)'
    <3>1. debited[m] = {} /\ debited'[m] = {}
      BY <1>2, <2>1 DEF CreateMandate, LedgerInv, MandateLedger
    <3>2. ReservedUnits(debited[m])' = {}
      BY <3>1 DEF ReservedUnits
    <3>3. MandateLedger(m)
      BY DEF LedgerInv
    <3>4. ReservedUnits(debited[m]) = {}
      BY <3>1 DEF ReservedUnits
    <3>5. spendUsed[m] = 0 /\ actionsUsed[m] = 0
      BY <3>1, <3>3, <3>4, FS_EmptySet DEF MandateLedger
    <3>6. WithinLimit(0, l) /\ WithinLimit(0, a)
      BY ConstantsAssumption DEF WithinLimit
    <3>7. spendLimit'[m] = l /\ actionsLimit'[m] = a
      BY <1>2 DEF CreateMandate, TypeInv, TypeOK
    <3> QED BY <2>1, <3>1, <3>2, <3>5, <3>6, <3>7, FS_EmptySet DEF MandateLedger, WithinLimit
  <2>3. ASSUME NEW n \in Mandates, n # m
        PROVE  MandateLedger(n)'
    <3>1. UNCHANGED <<lifecycle[n], spendLimit[n], actionsLimit[n]>>
      BY <1>2, <2>3 DEF CreateMandate, TypeInv, TypeOK
    <3> QED BY <2>1, <3>1, LedgerUnchanged DEF LedgerInv
  <2>4. ASSUME NEW c \in Caps
        PROVE  SpendWithinLimit(c)'
    BY <2>1 DEF LedgerInv, SpendWithinLimit, WithinLimit
  <2> QED BY <2>2, <2>3, <2>4 DEF LedgerInv
<1>3. ASSUME NEW m \in Mandates, NEW l \in Lifecycles, TransitionMandate(m, l)
      PROVE  LedgerInv'
  <2>1. UNCHANGED <<spendLimit, spendUsed, actionsLimit, actionsUsed, spendConsumed, payload,
                    debited>>
    BY <1>3 DEF TransitionMandate, capVars, signedVars
  <2>2. ASSUME NEW n \in Mandates
        PROVE  MandateLedger(n)'
    <3>1. lifecycle'[n] = Missing => lifecycle[n] = Missing
      BY <1>3 DEF TransitionMandate, TypeInv, TypeOK, Lifecycles, Missing
    <3>2. ReservedUnits(debited[n])' = ReservedUnits(debited[n])
      BY <2>1 DEF ReservedUnits, Reserve
    <3> QED BY <2>1, <3>1, <3>2 DEF LedgerInv, MandateLedger, WithinLimit
  <2>3. ASSUME NEW c \in Caps
        PROVE  SpendWithinLimit(c)'
    BY <2>1 DEF LedgerInv, SpendWithinLimit, WithinLimit
  <2> QED BY <2>2, <2>3 DEF LedgerInv
<1>4. ASSUME NEW t \in Minters, NEW c \in Caps, NEW p \in Payloads, Sign(t, c, p)
      PROVE  LedgerInv'
  <2>1. UNCHANGED <<lifecycle, spendLimit, spendUsed, actionsLimit, actionsUsed, spendConsumed,
                    debited>>
    BY <1>4 DEF Sign, mandateVars, capVars
  <2>2. payload[c] = None /\ \A x \in Caps : payload'[x] = IF x = c THEN p ELSE payload[x]
    BY <1>4 DEF Sign, TypeInv, TypeOK
  <2>3. ASSUME NEW m \in Mandates
        PROVE  MandateLedger(m)'
    <3>1. \A x \in debited[m] : payload'[x] = payload[x]
      BY <2>2 DEF TypeInv, TypeOK, MintOrder
    <3> QED BY <2>1, <3>1, LedgerUnchanged DEF LedgerInv
  <2>4. ASSUME NEW x \in Caps
        PROVE  SpendWithinLimit(x)'
    <3>1. CASE x = c
      <4>1. spendConsumed[c] = 0 /\ payload'[c] = p /\ p # None
        BY <2>2, NoneAssumption DEF LedgerInv, SpendWithinLimit
      <4>2. WithinLimit(0, p.spendLimit)
        BY DEF WithinLimit, Payloads, Limits
      <4> QED BY <2>1, <3>1, <4>1, <4>2 DEF SpendWithinLimit, WithinLimit
    <3>2. CASE x # c
      BY <2>1, <2>2, <3>2 DEF LedgerInv, SpendWithinLimit, WithinLimit
    <3> QED BY <3>1, <3>2
  <2> QED BY <2>3, <2>4 DEF LedgerInv
<1>5. ASSUME NEW t \in Minters, DebitMandateForChild(t)
      PROVE  LedgerInv'
  <2>0. /\ minter[t].cap \in Caps
        /\ payload[minter[t].cap].mandate \in Mandates
        /\ Reserve(payload[minter[t].cap]) \in Nat
    BY <1>5, DebitArguments
  <2>1. PICK c \in Caps, m \in Mandates :
          /\ minter[t].pc = "signed" /\ minter[t].cap = c /\ payload[c].mandate = m
          /\ CanDebit(m, payload[c])
          /\ spendUsed' = [spendUsed EXCEPT ![m] = @ + Reserve(payload[c])]
          /\ actionsUsed' = [actionsUsed EXCEPT ![m] = @ + 1]
          /\ debited' = [debited EXCEPT ![m] = @ \cup {c}]
          /\ UNCHANGED <<lifecycle, spendLimit, actionsLimit, spendConsumed, payload>>
    BY <1>5, <2>0 DEF DebitMandateForChild, capVars, signedVars
  <2>2. /\ spendUsed'[m] = spendUsed[m] + Reserve(payload[c])
        /\ actionsUsed'[m] = actionsUsed[m] + 1
        /\ debited'[m] = debited[m] \cup {c}
        /\ c \notin debited[m]
    BY <2>1 DEF TypeInv, TypeOK, MintOrder
  <2>3. MandateLedger(m)'
    <3>1. /\ IsFiniteSet(ReservedUnits(debited[m]))
          /\ spendUsed[m] = Cardinality(ReservedUnits(debited[m]))
          /\ actionsUsed[m] = Cardinality(debited[m])
          /\ IsFiniteSet(debited[m])
      BY ConstantsAssumption, FS_Subset DEF LedgerInv, MandateLedger, TypeInv, TypeOK
    <3>2. /\ IsFiniteSet(ReservedUnits(debited[m] \cup {c}))
          /\ Cardinality(ReservedUnits(debited[m] \cup {c}))
               = Cardinality(ReservedUnits(debited[m])) + Reserve(payload[c])
      BY <2>0, <2>1, <2>2, <3>1, ReservedGrows
    <3>3. Cardinality(debited[m] \cup {c}) = Cardinality(debited[m]) + 1
      BY <2>2, <3>1, FS_AddElement
    <3>4. ReservedUnits(debited[m])' = ReservedUnits(debited[m] \cup {c})
      BY <2>1, <2>2 DEF ReservedUnits, Reserve
    <3>5. /\ WithinLimit(spendUsed[m] + Reserve(payload[c]), spendLimit[m])
          /\ WithinLimit(actionsUsed[m] + 1, actionsLimit[m])
          /\ lifecycle[m] # Missing
      BY <2>1 DEF CanDebit, Missing
    <3>6. WithinLimit(spendUsed[m], spendLimit[m])' /\ WithinLimit(actionsUsed[m], actionsLimit[m])'
      BY <2>1, <2>2, <3>5 DEF WithinLimit
    <3>7. /\ IsFiniteSet(ReservedUnits(debited[m])')
          /\ spendUsed'[m] = Cardinality(ReservedUnits(debited[m])')
          /\ actionsUsed'[m] = Cardinality(debited'[m])
      BY <2>2, <3>1, <3>2, <3>3, <3>4
    <3> QED BY <2>1, <3>5, <3>6, <3>7 DEF MandateLedger
  <2>4. ASSUME NEW n \in Mandates, n # m
        PROVE  MandateLedger(n)'
    <3>1. UNCHANGED <<spendUsed[n], actionsUsed[n], debited[n]>>
      BY <2>1, <2>4 DEF TypeInv, TypeOK
    <3> QED BY <2>1, <3>1, LedgerUnchanged DEF LedgerInv
  <2>5. ASSUME NEW x \in Caps
        PROVE  SpendWithinLimit(x)'
    BY <2>1 DEF LedgerInv, SpendWithinLimit, WithinLimit
  <2> QED BY <2>3, <2>4, <2>5 DEF LedgerInv
<1>6. ASSUME NEW t \in Consumers, NEW c \in Caps, NEW k \in Holders,
             NEW e \in Limits(Digests), NEW a \in Amounts, ConsumeCapability(t, c, k, e, a)
      PROVE  LedgerInv'
  <2>1. UNCHANGED <<lifecycle, spendLimit, spendUsed, actionsLimit, actionsUsed, payload, debited>>
    BY <1>6 DEF ConsumeCapability, mandateVars, signedVars
  <2>2. /\ payload[c] # None /\ WithinLimit(a, payload[c].spendLimit)
        /\ \A x \in Caps : spendConsumed'[x] = IF x = c THEN a ELSE spendConsumed[x]
    BY <1>6 DEF ConsumeCapability, Permitted, Verifies, SpendFits, TypeInv, TypeOK
  <2>3. ASSUME NEW m \in Mandates
        PROVE  MandateLedger(m)'
    BY <2>1, LedgerUnchanged DEF LedgerInv
  <2>4. ASSUME NEW x \in Caps
        PROVE  SpendWithinLimit(x)'
    BY <2>1, <2>2 DEF LedgerInv, SpendWithinLimit, WithinLimit
  <2> QED BY <2>3, <2>4 DEF LedgerInv
<1> QED
  BY <1>1, <1>2, <1>3, <1>4, <1>5, <1>6, NextIsStep DEF TypeInv, Step, vars, capVars, signedVars,
     IssueMandate, DebitRefused, RegisterCapability, ReadClock, ReturnUnchanged,
     AuthorityRevokes, FetchRevocations, SyncCall, RevokeCall, SyncCommit, Tick, CrashRestart

\* The ledger argument, over behaviours.
THEOREM LedgerInvariant == Spec => []LedgerInv
<1>1. Init => LedgerInv
  <2> SUFFICES ASSUME Init PROVE LedgerInv
    OBVIOUS
  <2>1. ASSUME NEW m \in Mandates
        PROVE  MandateLedger(m)
    <3>1. debited[m] = {} /\ spendUsed[m] = 0 /\ actionsUsed[m] = 0
          /\ spendLimit[m] = None /\ actionsLimit[m] = None
      BY DEF Init, InitWith
    <3>2. ReservedUnits(debited[m]) = {}
      BY <3>1 DEF ReservedUnits
    <3> QED BY <3>1, <3>2, FS_EmptySet DEF MandateLedger, WithinLimit
  <2>2. ASSUME NEW c \in Caps
        PROVE  SpendWithinLimit(c)
    BY DEF Init, InitWith, SpendWithinLimit
  <2> QED BY <2>1, <2>2 DEF LedgerInv
<1>2. TypeInv /\ TypeInv' /\ LedgerInv /\ [Next]_vars => LedgerInv'
  BY LedgerStep
<1> QED BY <1>1, <1>2, TypeCorrect, PTL DEF Spec

\* debit_mandate_for_child keeps the mandate's row exact: reservations of every
\* child ever debited, and no registered child without one.
THEOREM LedgerCorrect == Spec => []LedgerIsExact
<1>1. TypeInv /\ LedgerInv => LedgerIsExact
  BY DEF TypeInv, MintOrder, LedgerInv, MandateLedger, LedgerIsExact
<1> QED BY <1>1, TypeCorrect, LedgerInvariant, PTL

\* No set of children ever spends more than its mandate's limit, as long as each
\* child carries a limit of its own.
THEOREM BudgetHolds == Spec => []BoundedChildrenWithinMandate
<1>1. TypeInv /\ LedgerInv => BoundedChildrenWithinMandate
  <2> SUFFICES ASSUME TypeInv, LedgerInv, NEW m \in Mandates, spendLimit[m] # None
               PROVE  Cardinality(SpentUnits({c \in Children(m) : payload[c].spendLimit # None}))
                        <= spendLimit[m]
    BY DEF BoundedChildrenWithinMandate
  <2> DEFINE B == {c \in Children(m) : payload[c].spendLimit # None}
  <2>1. ASSUME NEW c \in B
        PROVE  c \in debited[m] /\ Units(c, spendConsumed[c]) \subseteq Units(c, Reserve(payload[c]))
    <3>1. c \in Caps /\ payload[c] \in Payloads /\ payload[c] # None
      BY DEF TypeInv, TypeOK, MintOrder, Children
    <3>2. payload[c].spendLimit \in Nat /\ Reserve(payload[c]) = payload[c].spendLimit
      BY <3>1 DEF Payloads, Limits, Reserve
    <3>3. spendConsumed[c] \in Nat /\ spendConsumed[c] <= payload[c].spendLimit
      BY <3>1 DEF LedgerInv, SpendWithinLimit, WithinLimit, TypeInv, TypeOK
    <3>4. c \in debited[m]
      BY DEF TypeInv, MintOrder
    <3> QED BY <3>2, <3>3, <3>4 DEF Units
  <2>2. SpentUnits(B) \subseteq ReservedUnits(debited[m])
    BY <2>1 DEF SpentUnits, ReservedUnits
  <2>3. /\ IsFiniteSet(ReservedUnits(debited[m]))
        /\ Cardinality(ReservedUnits(debited[m])) = spendUsed[m]
        /\ spendUsed[m] <= spendLimit[m]
    BY DEF LedgerInv, MandateLedger, WithinLimit
  <2>4. /\ IsFiniteSet(SpentUnits(B))
        /\ Cardinality(SpentUnits(B)) <= Cardinality(ReservedUnits(debited[m]))
    BY <2>2, <2>3, FS_Subset
  <2>5. Cardinality(SpentUnits(B)) \in Nat /\ spendUsed[m] \in Nat /\ spendLimit[m] \in Nat
    BY <2>4, FS_CardinalityType DEF TypeInv, TypeOK, Limits
  <2> QED BY <2>3, <2>4, <2>5
<1> QED BY <1>1, TypeCorrect, LedgerInvariant, PTL

\* No mandate has more registered children than its actions_limit.
THEOREM ActionsLimitHolds == Spec => []ChildrenWithinActionsLimit
<1>1. TypeInv /\ LedgerInv => ChildrenWithinActionsLimit
  <2> SUFFICES ASSUME TypeInv, LedgerInv, NEW m \in Mandates, actionsLimit[m] # None
               PROVE  Cardinality(Children(m)) <= actionsLimit[m]
    BY DEF ChildrenWithinActionsLimit
  <2>1. debited[m] \in SUBSET Caps /\ IsFiniteSet(debited[m])
    BY ConstantsAssumption, FS_Subset DEF TypeInv, TypeOK
  <2>2. Children(m) \in SUBSET debited[m]
    BY DEF TypeInv, MintOrder
  <2>3. IsFiniteSet(Children(m)) /\ Cardinality(Children(m)) <= Cardinality(debited[m])
    BY <2>1, <2>2, FS_Subset
  <2>4. Cardinality(debited[m]) = actionsUsed[m] /\ actionsUsed[m] <= actionsLimit[m]
    BY DEF LedgerInv, MandateLedger, WithinLimit
  <2>5. Cardinality(Children(m)) \in Nat /\ actionsUsed[m] \in Nat /\ actionsLimit[m] \in Nat
    BY <2>3, FS_CardinalityType DEF TypeInv, TypeOK, Limits
  <2> QED BY <2>3, <2>4, <2>5
<1> QED BY <1>1, TypeCorrect, LedgerInvariant, PTL

\* The mandate's limits hold, of spending and of children (debit_mandate_for_child).
THEOREM LimitsHold == Spec => []ChildrenWithinLimits
<1>1. BoundedChildrenWithinMandate /\ ChildrenWithinActionsLimit => ChildrenWithinLimits
  BY DEF ChildrenWithinLimits
<1> QED BY <1>1, BudgetHolds, ActionsLimitHolds, PTL

-----------------------------------------------------------------------------
(* The revocation window *)

RevokedBefore(x, time) == authorityRevokedAt[x] # None /\ authorityRevokedAt[x] < time

\* A fetched list misses no revocation older than the fetch, and a sync time is
\* at most MaxFetchLag younger than the list it vouches for.
SyncJobOK(t) ==
  /\ syncer[t].pc = "fetched" =>
       /\ syncer[t].heard
       /\ syncer[t].at <= now /\ now <= syncer[t].at + MaxFetchLag
       /\ \A x \in Ids : RevokedBefore(x, syncer[t].at) => x \in syncer[t].ids
  /\ syncer[t].pc = "locking" /\ syncer[t].heard =>
       /\ syncer[t].at <= now
       /\ \A x \in Ids : authorityRevokedAt[x] # None
            /\ authorityRevokedAt[x] + MaxFetchLag < syncer[t].at => x \in syncer[t].ids

ViewInv ==
  /\ lastHeard <= now
  /\ \A x \in Ids : authorityRevokedAt[x] # None => authorityRevokedAt[x] <= now
  /\ \A x \in Ids : authorityRevokedAt[x] # None
       /\ authorityRevokedAt[x] + MaxFetchLag < lastHeard => x \in revoked
  /\ \A t \in Syncers : SyncJobOK(t)
  /\ \A t \in Consumers : consumer[t] # None => now <= consumer[t] + MaxLockWait

LEMMA ViewStep ==
  ASSUME TypeInv, ViewInv, [Next]_vars
  PROVE  ViewInv'
<1> USE DEF TypeInv, TypeOK, ViewInv, SyncJobOK, RevokedBefore
<1>1. CASE UNCHANGED <<now, revoked, lastHeard, authorityRevokedAt, syncer, consumer>>
  BY <1>1
<1>2. ASSUME NEW t \in Consumers, ReadClock(t)
      PROVE  ViewInv'
  BY <1>2, ConstantsAssumption DEF ReadClock, viewVars
<1>3. ASSUME NEW t \in Consumers, NEW c \in Caps, NEW k \in Holders,
             NEW e \in Limits(Digests), NEW a \in Amounts, ConsumeCapability(t, c, k, e, a)
      PROVE  ViewInv'
  BY <1>3, ConstantsAssumption DEF ConsumeCapability, viewVars
<1>4. ASSUME NEW t \in Consumers, ReturnUnchanged(t)
      PROVE  ViewInv'
  BY <1>4, ConstantsAssumption DEF ReturnUnchanged, viewVars
<1>5. ASSUME NEW x \in Ids, AuthorityRevokes(x)
      PROVE  ViewInv'
  BY <1>5, ConstantsAssumption DEF AuthorityRevokes, viewVars
<1>6. ASSUME NEW t \in Syncers, FetchRevocations(t)
      PROVE  ViewInv'
  BY <1>6, ConstantsAssumption DEF FetchRevocations, viewVars
<1>7. ASSUME NEW t \in Syncers, SyncCall(t)
      PROVE  ViewInv'
  BY <1>7, ConstantsAssumption DEF SyncCall, viewVars, Limits
<1>8. ASSUME NEW t \in Syncers, NEW x \in Ids, RevokeCall(t, x)
      PROVE  ViewInv'
  BY <1>8, ConstantsAssumption DEF RevokeCall, viewVars
<1>9. ASSUME NEW t \in Syncers, SyncCommit(t)
      PROVE  ViewInv'
  BY <1>9, ConstantsAssumption DEF SyncCommit, IdleSyncer
<1>10. ASSUME Tick
       PROVE  ViewInv'
  BY <1>10, ConstantsAssumption DEF Tick, viewVars, Limits
<1>11. ASSUME CrashRestart
       PROVE  ViewInv'
  BY <1>11 DEF CrashRestart, IdleSyncer, viewVars
<1> QED
  BY <1>1, <1>2, <1>3, <1>4, <1>5, <1>6, <1>7, <1>8, <1>9, <1>10, <1>11, NextIsStep
  DEF Step, vars, viewVars, CreateMandate, TransitionMandate, IssueMandate, Sign,
      DebitMandateForChild, DebitRefused, RegisterCapability

\* Only consume_capability flips a capability, at a moment at which it was permitted.
LEMMA FlipIsConsume ==
  ASSUME TypeInv, [Next]_vars, NEW c \in Caps, Flips(c)
  PROVE  \E t \in Consumers, k \in Holders, e \in Limits(Digests), a \in Amounts :
           consumer[t] # None /\ Permitted(c, consumer[t], k, e, a)
<1>1. ASSUME NEW t \in Consumers, NEW d \in Caps, NEW k \in Holders,
             NEW e \in Limits(Digests), NEW a \in Amounts, ConsumeCapability(t, d, k, e, a)
      PROVE  d = c
  BY <1>1 DEF ConsumeCapability, Flips, TypeInv, TypeOK
<1>2. ASSUME NEW t \in Minters, RegisterCapability(t)
      PROVE  FALSE
  BY <1>2 DEF RegisterCapability, Flips, Missing, TypeInv, TypeOK
<1>3. capState' # capState
  BY DEF Flips
<1>4. \E t \in Consumers, d \in Caps, k \in Holders, e \in Limits(Digests), a \in Amounts :
        ConsumeCapability(t, d, k, e, a)
  BY <1>2, <1>3, NextIsStep DEF TypeInv, Step, vars, capVars, CreateMandate, TransitionMandate,
     IssueMandate, Sign, DebitMandateForChild, DebitRefused, ReadClock, ReturnUnchanged,
     AuthorityRevokes, FetchRevocations, SyncCall, RevokeCall, SyncCommit, Tick, CrashRestart
<1>5. PICK t \in Consumers, d \in Caps, k \in Holders, e \in Limits(Digests), a \in Amounts :
        ConsumeCapability(t, d, k, e, a)
  BY <1>4
<1>6. d = c /\ consumer[t] # None /\ Permitted(d, consumer[t], k, e, a)
  BY <1>1, <1>5 DEF ConsumeCapability
<1> QED BY <1>6

\* The bookkeeping of what the view has heard, over behaviours.
THEOREM ViewInvariant == Spec => []ViewInv
<1>1. Init => ViewInv
  BY ConstantsAssumption DEF Init, InitWith, ViewInv, SyncJobOK, IdleSyncer, Ids
<1>2. TypeInv /\ ViewInv /\ [Next]_vars => ViewInv'
  BY ViewStep
<1> QED BY <1>1, <1>2, TypeCorrect, PTL DEF Spec

\* _consume_inner's staleness check bounds the time a capability stays usable
\* after the authority revoked it or its mandate.
THEOREM WindowHolds == Spec => RevocationWindow
<1>1. ASSUME TypeInv, ViewInv, [Next]_vars, NEW c \in Caps, Flips(c), lastSync = lastHeard,
             NEW x \in RevokeTargets(c), authorityRevokedAt[x] # None
      PROVE  now <= authorityRevokedAt[x] + payload[c].staleness + MaxFetchLag + MaxLockWait
  <2>1. PICK t \in Consumers, k \in Holders, e \in Limits(Digests), a \in Amounts :
          consumer[t] # None /\ Permitted(c, consumer[t], k, e, a)
    BY <1>1, FlipIsConsume
  <2>2. payload[c] \in Payloads
    BY <1>1, <2>1 DEF Permitted, Verifies, TypeInv, TypeOK
  <2>3. x \in Ids /\ x \notin revoked
    BY <1>1, <2>1, <2>2 DEF Permitted, NotRevoked, RevokeTargets, Ids, Payloads
  <2>4. lastHeard <= authorityRevokedAt[x] + MaxFetchLag
    BY <1>1, <2>3, ConstantsAssumption DEF ViewInv, TypeInv, TypeOK, Limits
  <2>5. consumer[t] <= lastSync + payload[c].staleness
    BY <2>1 DEF Permitted, ViewIsFresh
  <2>6. now <= consumer[t] + MaxLockWait
    BY <1>1, <2>1 DEF ViewInv
  <2>7. /\ now \in Nat /\ lastSync \in Nat /\ consumer[t] \in Nat
        /\ authorityRevokedAt[x] \in Nat /\ payload[c].staleness \in Nat
    BY <1>1, <2>1, <2>2, <2>3 DEF TypeInv, TypeOK, Limits, Payloads
  <2> QED BY <1>1, <2>4, <2>5, <2>6, <2>7, ConstantsAssumption
<1>2. TypeInv /\ ViewInv /\ [Next]_vars =>
        [\A c \in Caps : Flips(c) /\ lastSync = lastHeard =>
           \A x \in RevokeTargets(c) : authorityRevokedAt[x] # None =>
             now <= authorityRevokedAt[x] + payload[c].staleness + MaxFetchLag + MaxLockWait]_vars
  BY <1>1
<1> QED BY <1>2, TypeCorrect, ViewInvariant, PTL DEF Spec, RevocationWindow

\* verify_capability's expiry check, made with the clock read before the lock.
THEOREM ExpiryHolds == Spec => ExpiryWindow
<1>1. ASSUME TypeInv, ViewInv, [Next]_vars, NEW c \in Caps, Flips(c)
      PROVE  now <= payload[c].expiresAt + MaxLockWait
  <2>1. PICK t \in Consumers, k \in Holders, e \in Limits(Digests), a \in Amounts :
          consumer[t] # None /\ Permitted(c, consumer[t], k, e, a)
    BY <1>1, FlipIsConsume
  <2>2. payload[c] \in Payloads /\ consumer[t] <= payload[c].expiresAt
    BY <1>1, <2>1 DEF Permitted, Verifies, TypeInv, TypeOK
  <2>3. now \in Nat /\ consumer[t] \in Nat /\ payload[c].expiresAt \in Nat
    BY <1>1, <2>1, <2>2 DEF TypeInv, TypeOK, Limits, Payloads
  <2>4. now <= consumer[t] + MaxLockWait
    BY <1>1, <2>1 DEF ViewInv
  <2> QED BY <2>2, <2>3, <2>4, ConstantsAssumption
<1>2. TypeInv /\ ViewInv /\ [Next]_vars =>
        [\A c \in Caps : Flips(c) => now <= payload[c].expiresAt + MaxLockWait]_vars
  BY <1>1
<1> QED BY <1>2, TypeCorrect, ViewInvariant, PTL DEF Spec, ExpiryWindow

\* consume_capability is in time, for revocations as for expiry.
THEOREM InTimeHolds == Spec => ConsumedInTime
  BY WindowHolds, ExpiryHolds DEF ConsumedInTime

-----------------------------------------------------------------------------
(* What is over stays over *)

\* CapabilityStore._consume_inner writes the one flip of a capability and nothing undoes it.
THEOREM SingleUseHolds == Spec => SingleUse
<1>1. ASSUME TypeInv, [Next]_vars, NEW c \in Caps, capState[c] = "CONSUMED"
      PROVE  capState'[c] = "CONSUMED" /\ spendConsumed'[c] = spendConsumed[c]
  <2>1. ASSUME NEW t \in Minters, RegisterCapability(t)
        PROVE  capState'[c] = capState[c] /\ spendConsumed'[c] = spendConsumed[c]
    <3>1. minter[t].cap # c
      BY <1>1, <2>1 DEF RegisterCapability, Missing
    <3> QED BY <1>1, <2>1, <3>1 DEF RegisterCapability, TypeInv, TypeOK
  <2>2. ASSUME NEW t \in Consumers, NEW d \in Caps, NEW k \in Holders,
               NEW e \in Limits(Digests), NEW a \in Amounts, ConsumeCapability(t, d, k, e, a)
        PROVE  capState'[c] = capState[c] /\ spendConsumed'[c] = spendConsumed[c]
    <3>1. d # c
      BY <1>1, <2>2 DEF ConsumeCapability, Permitted, Unused
    <3> QED BY <1>1, <2>2, <3>1 DEF ConsumeCapability, TypeInv, TypeOK
  <2> QED
    BY <1>1, <2>1, <2>2, NextIsStep DEF TypeInv, Step, vars, capVars, CreateMandate,
       TransitionMandate, IssueMandate, Sign, DebitMandateForChild, DebitRefused, ReadClock,
       ReturnUnchanged, AuthorityRevokes, FetchRevocations, SyncCall, RevokeCall, SyncCommit,
       Tick, CrashRestart
<1>2. TypeInv /\ [Next]_vars =>
        [\A c \in Caps : capState[c] = "CONSUMED" =>
           capState'[c] = "CONSUMED" /\ spendConsumed'[c] = spendConsumed[c]]_vars
  BY <1>1
<1> QED BY <1>2, TypeCorrect, PTL DEF Spec, SingleUse

\* A mandate that has ended stays ended, is debited no more (debit_mandate_for_child) and
\* its children are not consumed any more (_consume_inner).
THEOREM FrozenHolds == Spec => EndedMandateIsFrozen
<1> DEFINE Ended == {"EXHAUSTED", "REVOKED", "EXPIRED"}
<1>1. ASSUME TypeInv, [Next]_vars, NEW m \in Mandates, lifecycle[m] \in Ended
      PROVE  /\ lifecycle'[m] \in Ended
             /\ spendUsed'[m] = spendUsed[m] /\ actionsUsed'[m] = actionsUsed[m]
  <2>1. ASSUME NEW n \in Mandates, NEW l \in MandateLimits, NEW a \in ActionsLimits,
               CreateMandate(n, l, a)
        PROVE  lifecycle'[m] = lifecycle[m] /\ spendUsed' = spendUsed /\ actionsUsed' = actionsUsed
    <3>1. n # m
      BY <1>1, <2>1 DEF CreateMandate, Missing
    <3> QED BY <2>1, <3>1, <1>1 DEF CreateMandate, TypeInv, TypeOK
  <2>2. ASSUME NEW n \in Mandates, NEW l \in Lifecycles, TransitionMandate(n, l)
        PROVE  lifecycle'[m] \in Ended /\ spendUsed' = spendUsed /\ actionsUsed' = actionsUsed
    <3>1. n = m => l \in Ended
      BY <1>1, <2>2 DEF TransitionMandate, LEGAL_TRANSITIONS, Lifecycles
    <3>2. lifecycle'[m] = IF n = m THEN l ELSE lifecycle[m]
      BY <1>1, <2>2 DEF TransitionMandate, TypeInv, TypeOK
    <3> QED BY <1>1, <2>2, <3>1, <3>2 DEF TransitionMandate
  <2>3. ASSUME NEW t \in Minters, DebitMandateForChild(t)
        PROVE  /\ lifecycle' = lifecycle
               /\ spendUsed'[m] = spendUsed[m] /\ actionsUsed'[m] = actionsUsed[m]
    <3>1. payload[minter[t].cap].mandate # m
      BY <1>1, <2>3 DEF DebitMandateForChild, CanDebit
    <3> QED BY <1>1, <2>3, <3>1 DEF DebitMandateForChild, TypeInv, TypeOK
  <2>4. CASE UNCHANGED mandateVars
    BY <1>1, <2>4 DEF mandateVars
  <2> QED
    BY <1>1, <2>1, <2>2, <2>3, <2>4, NextIsStep DEF TypeInv, Step, vars, IssueMandate, Sign,
       DebitRefused, RegisterCapability, ReadClock, ConsumeCapability, ReturnUnchanged,
       AuthorityRevokes, FetchRevocations, SyncCall, RevokeCall, SyncCommit, Tick, CrashRestart
<1>2. ASSUME TypeInv, [Next]_vars, NEW m \in Mandates, lifecycle[m] \in Ended,
             NEW c \in Children(m), Flips(c)
      PROVE  FALSE
  <2>1. c \in Caps /\ payload[c].mandate = m
    BY <1>2 DEF Children
  <2>2. MandateIsActive(c)
    BY <1>2, <2>1, FlipIsConsume DEF Permitted
  <2>3. m # None
    BY ConstantsAssumption
  <2> QED BY <1>2, <2>1, <2>2, <2>3 DEF MandateIsActive
<1>3. TypeInv /\ [Next]_vars =>
        [\A m \in Mandates : lifecycle[m] \in {"EXHAUSTED", "REVOKED", "EXPIRED"} =>
           /\ lifecycle'[m] \in {"EXHAUSTED", "REVOKED", "EXPIRED"}
           /\ spendUsed'[m] = spendUsed[m] /\ actionsUsed'[m] = actionsUsed[m]
           /\ \A c \in Children(m) : ~Flips(c)]_vars
  BY <1>1, <1>2
<1> QED BY <1>3, TypeCorrect, PTL DEF Spec, EndedMandateIsFrozen

-----------------------------------------------------------------------------
(* StateBinding: the inductive invariant *)

\* A preview carries what the policy decided on the snapshot it carries.
PreviewsAreDecisions ==
  \A p \in PreviewIds :
    preview[p] # Absent => preview[p].plan \in Plans(preview[p].view, preview[p].action)

\* What has been committed was signed, paid for, and bound to a version that
\* has passed.
CommitsAreOver ==
  \A x \in commits :
    /\ preview[x[1]] # Absent /\ preview[x[1]].version < version
    /\ capRow[x[2]] = "CONSUMED"

BindingInv ==
  /\ BindingTypeOK
  /\ PreviewsAreDecisions
  /\ CommitsAreOver
  /\ CommitsAreExclusive

-----------------------------------------------------------------------------
(* StateBinding: types *)

Deciding == [pc: {"deciding"}, action: Actions, version: Nat, view: Snapshots]

\* An agent that is deciding holds an action, a version and a snapshot.
LEMMA DecidingShape ==
  ASSUME BindingTypeOK, NEW t \in Agents, agent[t].pc = "deciding"
  PROVE  agent[t] \in Deciding
BY DEF BindingTypeOK, Deciding, IdleAgent

\* A snapshot of a read set is one of Snapshots, and an update is a state.
LEMMA ReadsAndUpdates ==
  ASSUME BindingTypeOK
  PROVE  /\ \A keys \in ReadSets : Read(keys) \in Snapshots
         /\ \A plan \in Writes : Updated(plan) \in [Keys -> Values]
  <1>1. ASSUME NEW keys \in ReadSets PROVE Read(keys) \in Snapshots
    <2>1. Read(keys) \in [keys -> Values]
      BY BindingAssumption DEF BindingTypeOK, Read
    <2>. QED
      BY <2>1 DEF Snapshots
  <1>2. ASSUME NEW plan \in Writes PROVE Updated(plan) \in [Keys -> Values]
    <2>1. PICK keys \in SUBSET Keys : plan \in [keys -> Values]
      BY DEF Writes
    <2>. QED
      BY <2>1 DEF BindingTypeOK, Updated
  <1>. QED
    BY <1>1, <1>2

LEMMA BindingTypeStep ==
  ASSUME BindingTypeOK, [BindingNext]_bindingVars
  PROVE  BindingTypeOK'
  <1>t. agent \in [Agents -> {IdleAgent} \cup Deciding]
    BY DEF BindingTypeOK, Deciding
  <1>1. ASSUME NEW t \in Agents, NEW a \in Actions, NEW keys \in ReadSets, PrepareRead(t, a, keys)
        PROVE BindingTypeOK'
    <2>1. [pc |-> "deciding", action |-> a, version |-> version, view |-> Read(keys)] \in Deciding
      BY ReadsAndUpdates DEF BindingTypeOK, Deciding
    <2>2. agent' \in [Agents -> {IdleAgent} \cup Deciding]
      BY <1>1, <1>t, <2>1 DEF PrepareRead
    <2>. QED
      BY <1>1, <2>2 DEF BindingTypeOK, PrepareRead, Deciding
  <1>2. ASSUME NEW t \in Agents, NEW p \in PreviewIds, NEW plan \in Writes, PrepareSign(t, p, plan)
        PROVE BindingTypeOK'
    <2>1. [action |-> agent[t].action, version |-> agent[t].version, view |-> agent[t].view,
           plan |-> plan] \in Previews
      BY <1>2, DecidingShape DEF PrepareSign, Deciding, Previews
    <2>2. agent' \in [Agents -> {IdleAgent} \cup Deciding]
      BY <1>2, <1>t DEF PrepareSign
    <2>3. preview' \in [PreviewIds -> Previews \cup {Absent}]
      BY <1>2, <2>1 DEF BindingTypeOK, PrepareSign
    <2>. QED
      BY <1>2, <2>2, <2>3 DEF BindingTypeOK, PrepareSign, Deciding
  <1>3. ASSUME NEW t \in Agents, PrepareDenied(t) \/ Crash(t) PROVE BindingTypeOK'
    <2>1. agent' \in [Agents -> {IdleAgent} \cup Deciding]
      BY <1>3, <1>t DEF PrepareDenied, Crash
    <2>. QED
      BY <1>3, <2>1 DEF BindingTypeOK, PrepareDenied, Crash, Deciding
  <1>4. ASSUME NEW p \in PreviewIds, NEW c \in CapabilityIds, CommitStateBound(p, c) PROVE BindingTypeOK'
    <2>1. preview[p].plan \in Writes
      BY <1>4 DEF BindingTypeOK, CommitStateBound, Previews
    <2>2. state' \in [Keys -> Values]
      BY <1>4, <2>1, ReadsAndUpdates DEF CommitStateBound
    <2>. QED
      BY <1>4, <2>2 DEF BindingTypeOK, CommitStateBound
  <1>5. ASSUME NEW writes \in Deployments, WriteState(writes) PROVE BindingTypeOK'
    <2>1. state' \in [Keys -> Values]
      BY <1>5, ReadsAndUpdates, BindingAssumption DEF WriteState
    <2>. QED
      BY <1>5, <2>1 DEF BindingTypeOK, WriteState
  <1>6. ASSUME NEW c \in CapabilityIds, ConsumeElsewhere(c) PROVE BindingTypeOK'
    BY <1>6 DEF BindingTypeOK, ConsumeElsewhere
  <1>7. CASE UNCHANGED bindingVars
    BY <1>7 DEF BindingTypeOK, bindingVars
  <1>. QED
    BY <1>1, <1>2, <1>3, <1>4, <1>5, <1>6, <1>7 DEF BindingNext, CommitRefused

-----------------------------------------------------------------------------
(* StateBinding: previews and commits *)

\* A signed preview never changes.
LEMMA PreviewsAreImmutable ==
  ASSUME BindingTypeOK, [BindingNext]_bindingVars, NEW p \in PreviewIds, preview[p] # Absent
  PROVE  preview'[p] = preview[p]
BY DEF BindingNext, bindingVars, BindingTypeOK, PrepareRead, PrepareSign, PrepareDenied, CommitStateBound, CommitRefused,
       WriteState, ConsumeElsewhere, Crash

LEMMA PreviewsStep ==
  ASSUME BindingTypeOK, PreviewsAreDecisions, [BindingNext]_bindingVars
  PROVE  PreviewsAreDecisions'
  <1>1. SUFFICES ASSUME NEW p \in PreviewIds, preview'[p] # Absent
                 PROVE  preview'[p].plan \in Plans(preview'[p].view, preview'[p].action)
    BY DEF PreviewsAreDecisions
  <1>2. CASE preview[p] # Absent
    BY <1>2, PreviewsAreImmutable DEF PreviewsAreDecisions
  <1>3. CASE preview[p] = Absent
    <2>1. PICK t \in Agents, plan \in Writes : PrepareSign(t, p, plan)
      BY <1>1, <1>3 DEF BindingNext, bindingVars, BindingTypeOK, PrepareRead, PrepareSign, PrepareDenied,
         CommitStateBound, CommitRefused, WriteState, ConsumeElsewhere, Crash
    <2>. QED
      BY <2>1 DEF PrepareSign, BindingTypeOK
  <1>. QED
    BY <1>2, <1>3

\* The version never goes back and a consumed capability stays consumed.
LEMMA OnlyForward ==
  ASSUME BindingTypeOK, [BindingNext]_bindingVars
  PROVE  /\ version' \in Nat /\ version' >= version
         /\ \A c \in CapabilityIds : capRow[c] = "CONSUMED" => capRow'[c] = "CONSUMED"
BY DEF BindingNext, bindingVars, BindingTypeOK, PrepareRead, PrepareSign, PrepareDenied, CommitStateBound, CommitRefused,
       WriteState, ConsumeElsewhere, Crash

\* A step that commits: the effect and its payment, at the preview's version.
LEMMA CommitsGrow ==
  ASSUME BindingTypeOK, [BindingNext]_bindingVars
  PROVE  \/ commits' = commits
         \/ \E p \in PreviewIds, c \in CapabilityIds : CommitStateBound(p, c)
BY DEF BindingNext, bindingVars, PrepareRead, PrepareSign, PrepareDenied, CommitRefused,
       WriteState, ConsumeElsewhere, Crash

LEMMA CommitStep ==
  ASSUME BindingInv, [BindingNext]_bindingVars
  PROVE  CommitsAreOver' /\ CommitsAreExclusive'
  <1>1. \A x \in commits : x[1] \in PreviewIds /\ x[2] \in CapabilityIds
    BY DEF BindingInv, BindingTypeOK
  <1>2. \A x \in commits : preview[x[1]] # Absent /\ preview'[x[1]] = preview[x[1]]
    BY <1>1, PreviewsAreImmutable DEF BindingInv, CommitsAreOver
  <1>3. \A x \in commits : preview[x[1]].version \in Nat
    BY <1>1, <1>2 DEF BindingInv, BindingTypeOK, Previews
  <1>4. CASE commits' = commits
    <2>1. CommitsAreOver'
      BY <1>1, <1>2, <1>3, <1>4, OnlyForward DEF BindingInv, CommitsAreOver, BindingTypeOK
    <2>2. CommitsAreExclusive'
      BY <1>2, <1>4 DEF BindingInv, CommitsAreExclusive
    <2>. QED
      BY <2>1, <2>2
  <1>5. ASSUME NEW p \in PreviewIds, NEW c \in CapabilityIds, CommitStateBound(p, c)
        PROVE  CommitsAreOver' /\ CommitsAreExclusive'
    <2>1. /\ preview[p] # Absent /\ preview[p].version = version /\ capRow[c] = "ISSUED"
          /\ commits' = commits \cup {<<p, c>>} /\ version' = version + 1 /\ preview' = preview
          /\ capRow' = [capRow EXCEPT ![c] = "CONSUMED"]
      BY <1>5 DEF CommitStateBound, CanCommit, Consumable, StateMatches
    <2>2. version \in Nat
      BY DEF BindingInv, BindingTypeOK
    <2>3. \A x \in commits : x[1] # p /\ x[2] # c /\ preview[x[1]].version # version
      BY <1>3, <2>1, <2>2 DEF BindingInv, CommitsAreOver
    <2>4. CommitsAreOver'
      <3>1. \A x \in commits : preview[x[1]].version < version'
        BY <1>3, <2>1, <2>2 DEF BindingInv, CommitsAreOver
      <3>2. \A x \in commits : capRow'[x[2]] = "CONSUMED"
        BY <1>1, OnlyForward DEF BindingInv, CommitsAreOver
      <3>3. preview[p].version < version' /\ capRow'[c] = "CONSUMED"
        BY <2>1, <2>2 DEF BindingInv, BindingTypeOK
      <3>. QED
        BY <1>2, <2>1, <3>1, <3>2, <3>3 DEF CommitsAreOver
    <2>5. CommitsAreExclusive'
      BY <2>1, <2>3 DEF BindingInv, CommitsAreExclusive
    <2>. QED
      BY <2>4, <2>5
  <1>. QED
    BY <1>4, <1>5, CommitsGrow DEF BindingInv

\* The inductive invariant of prepare and commit.
LEMMA BindingInvariant == BindingSpec => []BindingInv
  <1>1. BindingInit => BindingInv
    BY DEF BindingInit, BindingInv, BindingTypeOK, PreviewsAreDecisions, CommitsAreOver, CommitsAreExclusive, IdleAgent
  <1>2. BindingInv /\ [BindingNext]_bindingVars => BindingInv'
    BY BindingTypeStep, PreviewsStep, CommitStep DEF BindingInv
  <1>. QED
    BY <1>1, <1>2, PTL DEF BindingSpec

-----------------------------------------------------------------------------
(* BindingRefines *)

\* Every step of the code is an effect, a deployment or a use of the promise,
\* or changes neither the state nor what is spent.
LEMMA StepRefines ==
  ASSUME BindingInv, [BindingNext]_bindingVars
  PROVE  [Promise!Next]_<<state, {c \in CapabilityIds : capRow[c] = "CONSUMED"}>>
  <1>1. ASSUME NEW p \in PreviewIds, NEW c \in CapabilityIds, CommitStateBound(p, c)
        PROVE  Promise!Next
    <2>1. /\ preview[p] # Absent /\ preview[p] \in Previews
          /\ Read(DOMAIN preview[p].view) = preview[p].view
          /\ DOMAIN preview[p].plan \subseteq DOMAIN preview[p].view
          /\ capRow[c] = "ISSUED" /\ ActionOf[c] = preview[p].action
      <3>1. preview[p] # Absent /\ CanCommit(p, c)
        BY <1>1 DEF CommitStateBound
      <3>2. preview[p] \in Previews
        BY <3>1 DEF BindingInv, BindingTypeOK
      <3>. QED
        BY <3>1, <3>2 DEF CanCommit, Consumable, StateMatches, WritesWithinReads
    <2>2. PICK keys \in ReadSets : preview[p].view \in [keys -> Values]
      BY <2>1 DEF Previews, Snapshots
    <2>3. DOMAIN preview[p].view = keys
      BY <2>2
    <2>4. Promise!Restricted(keys) = preview[p].view
      BY <2>1, <2>3 DEF Read, Promise!Restricted
    <2>5. PICK plan \in Plans(Promise!Restricted(keys), ActionOf[c]) : plan = preview[p].plan
      BY <2>1, <2>4 DEF BindingInv, PreviewsAreDecisions
    <2>6. state' = Promise!Updated(plan)
      BY <1>1, <2>5 DEF CommitStateBound, Updated, Promise!Updated
    <2>7. {x \in CapabilityIds : capRow'[x] = "CONSUMED"} =
          {x \in CapabilityIds : capRow[x] = "CONSUMED"} \cup {c}
      BY <1>1 DEF CommitStateBound, BindingInv, BindingTypeOK
    <2>8. Promise!Effect(c, keys, plan)
      BY <2>1, <2>3, <2>5, <2>6, <2>7 DEF Promise!Effect
    <2>. QED
      BY <2>5, <2>8, Zenon DEF Promise!Next
  <1>2. ASSUME NEW writes \in Deployments, WriteState(writes) PROVE Promise!Next
    <2>1. state' \in [Keys -> Values]
      BY <1>2, ReadsAndUpdates, BindingAssumption DEF WriteState, BindingInv
    <2>. QED
      BY <1>2, <2>1 DEF WriteState, Promise!Next, Promise!Deploy
  <1>3. ASSUME NEW c \in CapabilityIds, ConsumeElsewhere(c) PROVE Promise!Next
    <2>1. {x \in CapabilityIds : capRow'[x] = "CONSUMED"} =
          {x \in CapabilityIds : capRow[x] = "CONSUMED"} \cup {c}
      BY <1>3 DEF ConsumeElsewhere, BindingInv, BindingTypeOK
    <2>. QED
      BY <1>3, <2>1 DEF ConsumeElsewhere, Promise!Next, Promise!UseElsewhere
  <1>4. CASE UNCHANGED <<state, capRow>>
    BY <1>4
  <1>. QED
    BY <1>1, <1>2, <1>3, <1>4
    DEF BindingNext, bindingVars, PrepareRead, PrepareSign, PrepareDenied, CommitRefused, Crash

-----------------------------------------------------------------------------
(* StateBinding: the theorems *)

\* Every variable stays in its range, prepare between its two critical sections
\* and commit in its one included.
THEOREM BindingTypesHold == BindingSpec => []BindingTypeOK
  BY BindingInvariant, PTL DEF BindingInv

\* Of the previews prepared at one version at most one is committed, and a capability
\* pays for one commit, whoever presents them to commit and however often.
THEOREM ExclusiveHolds == BindingSpec => []CommitsAreExclusive
  BY BindingInvariant, PTL DEF BindingInv

\* prepare and commit implement atomic effects: each is the policy's decision
\* on the state it lands in, and uses up a capability of its own.
THEOREM BindingRefines == BindingSpec => Implements
  <1>1. BindingInit => Promise!Init
    BY DEF BindingInit, Promise!Init
  <1>. QED
    BY <1>1, StepRefines, BindingInvariant, PTL DEF BindingSpec, Implements, Promise!Spec
=============================================================================
