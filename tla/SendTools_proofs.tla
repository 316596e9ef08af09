-------------------------- MODULE SendTools_proofs --------------------------
(***************************************************************************)
(* Theorems about Gate and about SendTools, which builds on it: for any    *)
(* number of messages, handlers, dispatches, nonces, terminals and agents, *)
(* and any assignment of antennas that changes while dispatches are in     *)
(* flight.                                                                 *)
(***************************************************************************)
EXTENDS SendTools, FiniteSetTheorems, WellFoundedInduction, TLAPS

-----------------------------------------------------------------------------
(***************************************************************************)
(* The dispatch gate                                                       *)
(***************************************************************************)

-----------------------------------------------------------------------------
(* Type correctness                                                        *)

(* Removing dispatches from the indices yields indices again.              *)
LEMMA WithoutType ==
    ASSUME TypeOK, NEW gone \in SUBSET Dispatches, NEW reason \in Reasons
    PROVE  /\ ByNonceWithout(gone) \in [Nonces -> Dispatches \cup {NoDispatch}]
           /\ ByTerminalWithout(gone) \in [Terminals -> Dispatches \cup {NoDispatch}]
           /\ RetiredAs(gone, reason) \in [Nonces -> Reasons]
BY DEF TypeOK, ByNonceWithout, ByTerminalWithout, RetiredAs

(* Storing a dispatch at an address keeps disp a map to dispatches.        *)
LEMMA StoreType ==
    ASSUME disp \in [Dispatches -> Dispatch], NEW d \in Dispatches, NEW r \in Dispatch
    PROVE  [disp EXCEPT ![d] = r] \in [Dispatches -> Dispatch]
OBVIOUS

(* So does writing its fields.                                             *)
LEMMA FieldType ==
    ASSUME NEW r \in Dispatch
    PROVE  /\ [r EXCEPT !.idle = TRUE] \in Dispatch
           /\ [r EXCEPT !.state = "done"] \in Dispatch
           /\ [r EXCEPT !.state = "noting", !.idle = FALSE] \in Dispatch
           /\ [r EXCEPT !.state = "ready", !.idle = FALSE] \in Dispatch
           /\ \A tok \in Dispatches : [r EXCEPT !.token = tok, !.idle = FALSE] \in Dispatch
           /\ \A k \in 0..SendBound : [r EXCEPT !.idle = FALSE, !.sends = k] \in Dispatch
BY DEF Dispatch, States

(* Every step keeps every variable in its type.                            *)
LEMMA TypeStep == ASSUME GateAssumption, TypeOK, [Next]_vars PROVE TypeOK'
<1> USE GateAssumption DEF TypeOK
<1>1. ASSUME NEW d \in Dispatches, NEW n \in Nonces, NEW t \in Terminals,
             NEW level \in Levels, NEW job \in Jobs, Register(d, n, t, level, job)
      PROVE  TypeOK'
  <2> DEFINE new == [nonce |-> n, job |-> job, level |-> level,
                     terminalID |-> t, alias |-> AliasFor(t),
                     state |-> IF level = "boss" THEN "ready" ELSE "locked",
                     token |-> NoDispatch, idle |-> FALSE, sends |-> 0]
  <2>1. Stale \in SUBSET Dispatches
    BY DEF Stale, Open
  <2>2. /\ ByNonceWithout(Stale) \in [Nonces -> Dispatches \cup {NoDispatch}]
        /\ ByTerminalWithout(Stale) \in [Terminals -> Dispatches \cup {NoDispatch}]
        /\ RetiredAs(Stale, "expired") \in [Nonces -> Reasons]
    BY <2>1, WithoutType DEF Reasons
  <2>3. AliasFor(t) \in Terminals \cup {NoTerminal}
    BY DEF AliasFor
  <2>4. new \in Dispatch
    BY <2>3 DEF Dispatch, States, LevelNames, GateAssumption
  <2>5. disp' = [disp EXCEPT ![d] = new]
    BY <1>1 DEF Register, RegisterDispatch
  <2>6. disp' \in [Dispatches -> Dispatch]
    BY <2>4, <2>5
  <2>7. /\ byNonce' \in [Nonces -> Dispatches \cup {NoDispatch}]
        /\ byTerminal' \in [Terminals -> Dispatches \cup {NoDispatch}]
    BY <1>1, <2>2 DEF Register, RegisterDispatch
  <2>8. retired' \in [Nonces -> Reasons]
    BY <1>1, <2>2 DEF Register, RegisterDispatch, ForgetReason, Reasons
  <2>9. QED BY <1>1, <2>6, <2>7, <2>8 DEF Register
<1>2. ASSUME InjectOk PROVE TypeOK'
  BY <1>2 DEF InjectOk, NotInjecting, gateVars
<1>3. ASSUME InjectFail PROVE TypeOK'
  <2> DEFINE d == byNonce[injecting.nonce]
  <2>1. CASE d = NoDispatch \/ disp[d].terminalID # injecting.terminalID
    BY <1>3, <2>1 DEF InjectFail, CancelDispatch, NotInjecting, gateVars
  <2>2. CASE ~(d = NoDispatch \/ disp[d].terminalID # injecting.terminalID)
    <3>1. /\ retired' = RetiredAs({d}, "cancelled")
          /\ byNonce' = ByNonceWithout({d})
          /\ byTerminal' = ByTerminalWithout({d})
          /\ UNCHANGED <<disp, antenna>>
          /\ injecting' = NotInjecting
      BY <1>3, <2>2 DEF InjectFail, CancelDispatch
    <3> HIDE DEF d
    <3>2. QED BY <3>1 DEF RetiredAs, ByNonceWithout, ByTerminalWithout,
                          NotInjecting, Reasons
  <2>3. QED BY <2>1, <2>2
<1>4. ASSUME NEW d \in Dispatches, Age(d) PROVE TypeOK'
  <2>1. disp' = [disp EXCEPT ![d] = [disp[d] EXCEPT !.idle = TRUE]]
    BY <1>4 DEF Age
  <2>2. [disp[d] EXCEPT !.idle = TRUE] \in Dispatch
    BY FieldType
  <2>3. disp' \in [Dispatches -> Dispatch]
    BY <2>1, <2>2, StoreType
  <2>4. QED BY <1>4, <2>3 DEF Age
<1>5. ASSUME Sweep PROVE TypeOK'
  <2>1. Stale \in SUBSET Dispatches
    BY DEF Stale, Open
  <2>2. QED BY <1>5, <2>1, WithoutType DEF Sweep, Reasons
<1>6. ASSUME NEW t \in Terminals, NEW n \in Nonces, GetInstructions(t, n)
      PROVE  TypeOK'
  <2> DEFINE d == byNonce[n]
  <2>1. d \in Dispatches
    BY <1>6 DEF GetInstructions
  <2>2. disp' = [disp EXCEPT ![d] = [disp[d] EXCEPT !.token = d, !.idle = FALSE]]
    BY <1>6 DEF GetInstructions
  <2>3. [disp[d] EXCEPT !.token = d, !.idle = FALSE] \in Dispatch
    BY <2>1, FieldType
  <2>4. disp' \in [Dispatches -> Dispatch]
    BY <2>1, <2>2, <2>3, StoreType
  <2>5. QED BY <1>6, <2>4 DEF GetInstructions
<1>7. ASSUME NEW t \in Terminals, NEW tok \in Dispatches \cup {NoDispatch},
             Unlock(t, tok)
      PROVE  TypeOK'
  <2> DEFINE d == byTerminal[t]
  <2>1. d \in Dispatches
    BY <1>7 DEF Unlock
  <2>2. disp' = [disp EXCEPT ![d] = [disp[d] EXCEPT !.state = "noting", !.idle = FALSE]]
    BY <1>7 DEF Unlock
  <2>3. [disp[d] EXCEPT !.state = "noting", !.idle = FALSE] \in Dispatch
    BY <2>1, FieldType
  <2>4. disp' \in [Dispatches -> Dispatch]
    BY <2>1, <2>2, <2>3, StoreType
  <2>5. QED BY <1>7, <2>4 DEF Unlock
<1>8. ASSUME NEW t \in Terminals, AdvanceToReady(t) PROVE TypeOK'
  <2> DEFINE d == byTerminal[t]
  <2>1. d \in Dispatches
    BY <1>8 DEF AdvanceToReady
  <2>2. disp' = [disp EXCEPT ![d] = [disp[d] EXCEPT !.state = "ready", !.idle = FALSE]]
    BY <1>8 DEF AdvanceToReady
  <2>3. [disp[d] EXCEPT !.state = "ready", !.idle = FALSE] \in Dispatch
    BY <2>1, FieldType
  <2>4. disp' \in [Dispatches -> Dispatch]
    BY <2>1, <2>2, <2>3, StoreType
  <2>5. QED BY <1>8, <2>4 DEF AdvanceToReady
<1>9. ASSUME NEW t \in Terminals, NEW n \in Nonces, Consume(t, n) PROVE TypeOK'
  <2> DEFINE d == byTerminal[t]
  <2>1. CASE d = NoDispatch \/ disp[d].nonce # n
    BY <1>9, <2>1 DEF Consume, ConsumeEffect, gateVars
  <2>2. CASE ~(d = NoDispatch \/ disp[d].nonce # n)
    <3>1. d \in Dispatches
      BY <2>2
    <3>2. /\ disp' = [disp EXCEPT ![d] = [disp[d] EXCEPT !.state = "done"]]
          /\ byNonce' = [byNonce EXCEPT ![n] = NoDispatch]
          /\ retired' = [retired EXCEPT ![n] = "consumed"]
          /\ UNCHANGED <<byTerminal, antenna, injecting>>
      BY <1>9, <2>2 DEF Consume, ConsumeEffect
    <3>3. disp' \in [Dispatches -> Dispatch]
      BY <3>1, <3>2, FieldType, StoreType
    <3>4. QED BY <3>2, <3>3 DEF Reasons
  <2>3. QED BY <2>1, <2>2
<1>10. ASSUME NEW t \in Terminals, NEW n \in Nonces, RecordSend(t, n) PROVE TypeOK'
  <2> DEFINE d == byTerminal[t]
  <2>1. CASE UNCHANGED gateVars
    BY <1>10, <2>1 DEF RecordSend, gateVars
  <2>2. CASE ~UNCHANGED gateVars
    <3>1. /\ d \in Dispatches
          /\ disp' = [disp EXCEPT ![d].idle = FALSE,
                        ![d].sends = IF @ < SendBound THEN @ + 1 ELSE @]
          /\ UNCHANGED <<byNonce, byTerminal, retired, antenna, injecting>>
      BY <1>10, <2>2 DEF RecordSend, RecordSendEffect
    <3> DEFINE k == IF disp[d].sends < SendBound THEN disp[d].sends + 1
                                                 ELSE disp[d].sends
    <3>2. k \in 0..SendBound
      BY <3>1 DEF Dispatch
    <3>3. disp' = [disp EXCEPT ![d] = [disp[d] EXCEPT !.idle = FALSE, !.sends = k]]
      BY <3>1
    <3>4. disp' \in [Dispatches -> Dispatch]
      <4>1. d \in Dispatches
        BY <3>1
      <4> HIDE DEF k, d
      <4>2. [disp[d] EXCEPT !.idle = FALSE, !.sends = k] \in Dispatch
        BY <4>1, <3>2, FieldType
      <4>3. QED BY <4>1, <4>2, <3>3, StoreType
    <3>5. UNCHANGED <<byNonce, byTerminal, retired, antenna, injecting>>
      BY <3>1
    <3> HIDE DEF k, d
    <3>6. QED BY <3>4, <3>5
  <2>3. QED BY <2>1, <2>2
<1>11. ASSUME NEW a \in Agents, NEW x \in Terminals \cup {NoTerminal},
              SetAntenna(a, x)
       PROVE  TypeOK'
  BY <1>11 DEF SetAntenna, gateVars
<1>12. ASSUME Restart PROVE TypeOK'
  BY <1>12 DEF Restart, Blank, Dispatch, States, Reasons, NotInjecting,
               GateAssumption, LevelNames
<1>13. CASE UNCHANGED vars
  BY <1>13 DEF vars
<1>14. QED
  BY <1>1, <1>2, <1>3, <1>4, <1>5, <1>6, <1>7, <1>8, <1>9, <1>10, <1>11,
     <1>12, <1>13 DEF Next

LEMMA InitType == ASSUME GateAssumption, Init PROVE TypeOK
BY GateAssumption DEF Init, TypeOK, Blank, Dispatch, States, Reasons,
   NotInjecting, GateAssumption, LevelNames

(* The variables of the gate keep their types: nonces, terminals, states   *)
(* and reasons are what the code's maps and structs hold.                  *)
THEOREM TypeCorrect == Spec => []TypeOK
<1>1. Init => TypeOK
  BY GateAssumption, InitType
<1>2. TypeOK /\ [Next]_vars => TypeOK'
  BY GateAssumption, TypeStep
<1>3. QED BY <1>1, <1>2, PTL DEF Spec

-----------------------------------------------------------------------------
(* The ritual                                                              *)

\* A token is issued to the dispatch it belongs to and to no other.
TokenOwn == \A d \in Dispatches : disp[d].token \in {d, NoDispatch}

LEMMA RitualStep ==
    ASSUME GateAssumption, TypeOK, TokenOwn, RitualOrder, [Next]_vars
    PROVE  TokenOwn' /\ RitualOrder'
<1> USE GateAssumption DEF TypeOK, TokenOwn, RitualOrder
<1>1. ASSUME NEW d \in Dispatches, NEW n \in Nonces, NEW t \in Terminals,
             NEW level \in Levels, NEW job \in Jobs, Register(d, n, t, level, job)
      PROVE  TokenOwn' /\ RitualOrder'
  <2>1. /\ \A e \in Dispatches \ {d} : disp'[e] = disp[e]
        /\ disp'[d].token = NoDispatch
        /\ disp'[d].level = level
        /\ disp'[d].state = IF level = "boss" THEN "ready" ELSE "locked"
    BY <1>1 DEF Register, RegisterDispatch
  <2>2. QED BY <2>1
<1>2. CASE UNCHANGED disp
  BY <1>2
<1>3. ASSUME NEW d \in Dispatches, Age(d) PROVE TokenOwn' /\ RitualOrder'
  BY <1>3 DEF Age, Dispatch
<1>4. ASSUME NEW t \in Terminals, NEW n \in Nonces, GetInstructions(t, n)
      PROVE  TokenOwn' /\ RitualOrder'
  BY <1>4 DEF GetInstructions, Dispatch
<1>5. ASSUME NEW t \in Terminals, NEW tok \in Dispatches \cup {NoDispatch},
             Unlock(t, tok)
      PROVE  TokenOwn' /\ RitualOrder'
  <2>1. disp[byTerminal[t]].token = byTerminal[t]
    BY <1>5 DEF Unlock, TokenAccepted
  <2>2. QED BY <1>5, <2>1 DEF Unlock, Dispatch
<1>6. ASSUME NEW t \in Terminals, AdvanceToReady(t)
      PROVE  TokenOwn' /\ RitualOrder'
  BY <1>6 DEF AdvanceToReady, Dispatch
<1>7. ASSUME NEW t \in Terminals, NEW n \in Nonces, Consume(t, n)
      PROVE  TokenOwn' /\ RitualOrder'
  BY <1>7 DEF Consume, ConsumeEffect, gateVars, Dispatch
<1>8. ASSUME NEW t \in Terminals, NEW n \in Nonces, RecordSend(t, n)
      PROVE  TokenOwn' /\ RitualOrder'
  <2>1. \A d \in Dispatches : /\ disp'[d].token = disp[d].token
                              /\ disp'[d].state = disp[d].state
                              /\ disp'[d].level = disp[d].level
    BY <1>8 DEF RecordSend, RecordSendEffect, gateVars, Dispatch
  <2>2. QED BY <2>1
<1>9. ASSUME Restart PROVE TokenOwn' /\ RitualOrder'
  BY <1>9 DEF Restart, Blank
<1>10. QED
  BY <1>1, <1>2, <1>3, <1>4, <1>5, <1>6, <1>7, <1>8, <1>9
  DEF Next, vars, gateVars, InjectOk, InjectFail, CancelDispatch, Sweep, SetAntenna

(* Whatever tokens and terminals the clients mix, a dispatch that is not   *)
(* the boss's is past the lock only if get_instructions issued its own     *)
(* token: unlock compares tokens, and a superseded or foreign token never  *)
(* matches.                                                                *)
THEOREM RitualOrderHolds == Spec => []RitualOrder
<1>1. Init => TypeOK /\ TokenOwn /\ RitualOrder
  <2>1. Init => TypeOK
    BY GateAssumption, InitType
  <2>2. QED BY <2>1 DEF Init, Blank, TokenOwn, RitualOrder
<1>2. TypeOK /\ TokenOwn /\ RitualOrder /\ [Next]_vars
        => (TypeOK /\ TokenOwn /\ RitualOrder)'
  BY GateAssumption, TypeStep, RitualStep
<1>3. QED BY <1>1, <1>2, PTL DEF Spec

LEMMA NoRegressionStep ==
    ASSUME GateAssumption, TypeOK, [Next]_vars
    PROVE  \A d \in Open \cup Bound : Rank[disp'[d].state] >= Rank[disp[d].state]
<1> DEFINE Kept == \A d \in Open \cup Bound : Rank[disp'[d].state] >= Rank[disp[d].state]
<1> USE GateAssumption DEF TypeOK
<1>a. \A st \in States : Rank[st] >= Rank[st] /\ Rank["done"] >= Rank[st]
  BY DEF Rank, States
<1>b. Rank["noting"] >= Rank["locked"] /\ Rank["ready"] >= Rank["noting"]
  BY DEF Rank, States
<1>c. Open \cup Bound \subseteq Dispatches
  BY DEF Open, Bound
<1>d. \A d \in Dispatches : disp[d].state \in States
  BY DEF Dispatch
<1>0. /\ \A st \in States : Rank[st] >= Rank[st] /\ Rank["done"] >= Rank[st]
      /\ Rank["noting"] >= Rank["locked"] /\ Rank["ready"] >= Rank["noting"]
      /\ Open \cup Bound \subseteq Dispatches
      /\ \A d \in Dispatches : disp[d].state \in States
  BY <1>a, <1>b, <1>c, <1>d
<1>1. ASSUME NEW d \in Dispatches, NEW n \in Nonces, NEW t \in Terminals,
             NEW level \in Levels, NEW job \in Jobs, Register(d, n, t, level, job)
      PROVE  Kept
  <2>1. \A e \in Open \cup Bound : disp'[e] = disp[e]
    BY <1>1, <1>0 DEF Register, RegisterDispatch
  <2>2. QED BY <2>1, <1>0
<1>2. CASE UNCHANGED disp
  BY <1>2, <1>0
<1>3. ASSUME \A d \in Dispatches : disp'[d].state = disp[d].state
      PROVE  Kept
  BY <1>3, <1>0
<1>4. ASSUME NEW t \in Terminals, NEW tok \in Dispatches \cup {NoDispatch},
             Unlock(t, tok)
      PROVE  Kept
  <2>1. /\ disp[byTerminal[t]].state = "locked"
        /\ disp'[byTerminal[t]].state = "noting"
        /\ \A d \in Dispatches \ {byTerminal[t]} : disp'[d] = disp[d]
    BY <1>4 DEF Unlock, Dispatch
  <2>2. QED BY <2>1, <1>0
<1>5. ASSUME NEW t \in Terminals, AdvanceToReady(t) PROVE Kept
  <2>1. /\ disp[byTerminal[t]].state = "noting"
        /\ disp'[byTerminal[t]].state = "ready"
        /\ \A d \in Dispatches \ {byTerminal[t]} : disp'[d] = disp[d]
    BY <1>5 DEF AdvanceToReady, Dispatch
  <2>2. QED BY <2>1, <1>0
<1>6. ASSUME NEW t \in Terminals, NEW n \in Nonces, Consume(t, n) PROVE Kept
  <2>1. \A d \in Dispatches : \/ disp'[d] = disp[d]
                             \/ disp'[d].state = "done"
    BY <1>6 DEF Consume, ConsumeEffect, gateVars, Dispatch
  <2>2. QED BY <2>1, <1>0
<1>7. ASSUME Restart PROVE Kept
  <2>1. \A d \in Dispatches : disp'[d].state = "done"
    BY <1>7 DEF Restart, Blank
  <2>2. QED BY <2>1, <1>0
<1>8. ASSUME NEW d \in Dispatches, Age(d)
      PROVE  \A e \in Dispatches : disp'[e].state = disp[e].state
  BY <1>8 DEF Age, Dispatch
<1>9. ASSUME NEW t \in Terminals, NEW n \in Nonces, GetInstructions(t, n)
      PROVE  \A e \in Dispatches : disp'[e].state = disp[e].state
  BY <1>9 DEF GetInstructions, Dispatch
<1>10. ASSUME NEW t \in Terminals, NEW n \in Nonces, RecordSend(t, n)
       PROVE  \A e \in Dispatches : disp'[e].state = disp[e].state
  BY <1>10 DEF RecordSend, RecordSendEffect, gateVars, Dispatch
<1>11. QED
  BY <1>1, <1>2, <1>3, <1>4, <1>5, <1>6, <1>7, <1>8, <1>9, <1>10
  DEF Next, vars, gateVars, InjectOk, InjectFail, CancelDispatch, Sweep, SetAntenna

(* No call revives a consumed dispatch or takes one back a step: every     *)
(* transition of the state is guarded by the state before it.              *)
THEOREM NoRegression == Spec => StateNeverRegresses
<1>1. TypeOK /\ [Next]_vars
        => [\A d \in Open \cup Bound : Rank[disp'[d].state] >= Rank[disp[d].state]]_vars
  BY GateAssumption, NoRegressionStep
<1>2. QED BY TypeCorrect, <1>1, PTL DEF Spec, StateNeverRegresses

-----------------------------------------------------------------------------
(* Retirement reasons                                                      *)

LEMMA RetiredStep ==
    ASSUME GateAssumption, TypeOK, RetiredIsGone, [Next]_vars
    PROVE  RetiredIsGone'
<1> USE GateAssumption DEF TypeOK, RetiredIsGone
<1>1. \A gone \in SUBSET Dispatches, reason \in Reasons, n \in Nonces :
         RetiredAs(gone, reason)[n] # "none" => ByNonceWithout(gone)[n] = NoDispatch
  BY DEF RetiredAs, ByNonceWithout
<1>2. Stale \in SUBSET Dispatches
  BY DEF Stale, Open
<1>3. ASSUME NEW d \in Dispatches, NEW n \in Nonces, NEW t \in Terminals,
             NEW level \in Levels, NEW job \in Jobs, Register(d, n, t, level, job)
      PROVE  RetiredIsGone'
  <2> DEFINE rt == RetiredAs(Stale, "expired")
             bn == ByNonceWithout(Stale)
             prev == ByTerminalWithout(Stale)[t]
             prevN == IF prev = NoDispatch THEN NoNonce ELSE disp[prev].nonce
  <2>1. \A m \in Nonces : rt[m] # "none" => bn[m] = NoDispatch
    BY <1>1, <1>2 DEF Reasons
  <2>2. /\ retired' = [[m \in Nonces |-> IF m = prevN THEN "replaced" ELSE rt[m]]
                          EXCEPT ![n] = "none"]
        /\ byNonce' = [m \in Nonces |-> IF m = n THEN d
                                         ELSE IF m = prevN THEN NoDispatch ELSE bn[m]]
    BY <1>3 DEF Register, RegisterDispatch, ForgetReason
  <2> HIDE DEF rt, bn, prevN
  <2>3. QED BY <2>1, <2>2
<1>4. ASSUME InjectFail PROVE RetiredIsGone'
  <2> DEFINE d == byNonce[injecting.nonce]
  <2>1. CASE UNCHANGED gateVars
    BY <2>1 DEF gateVars
  <2>2. CASE ~UNCHANGED gateVars
    <3>1. retired' = RetiredAs({d}, "cancelled") /\ byNonce' = ByNonceWithout({d})
      BY <1>4, <2>2 DEF InjectFail, CancelDispatch
    <3>2. QED BY <3>1 DEF RetiredAs, ByNonceWithout
  <2>3. QED BY <2>1, <2>2
<1>5. ASSUME Sweep PROVE RetiredIsGone'
  BY <1>5, <1>1, <1>2 DEF Sweep, Reasons
<1>6. ASSUME NEW t \in Terminals, NEW n \in Nonces, Consume(t, n)
      PROVE  RetiredIsGone'
  BY <1>6 DEF Consume, ConsumeEffect, gateVars
<1>7. ASSUME Restart PROVE RetiredIsGone'
  BY <1>7 DEF Restart
<1>8. CASE UNCHANGED <<byNonce, retired>>
  BY <1>8
<1>9. QED
  BY <1>3, <1>4, <1>5, <1>6, <1>7, <1>8
  DEF Next, vars, gateVars, InjectOk, Age, GetInstructions, Unlock,
      AdvanceToReady, RecordSend, RecordSendEffect, SetAntenna

(* A client is told why a nonce was retired only while the nonce is gone:  *)
(* a nonce registered again sheds the reason of its first life.            *)
THEOREM RetiredIsGoneHolds == Spec => []RetiredIsGone
<1>1. Init => TypeOK /\ RetiredIsGone
  <2>1. Init => TypeOK
    BY GateAssumption, InitType
  <2>2. QED BY <2>1 DEF Init, RetiredIsGone
<1>2. TypeOK /\ RetiredIsGone /\ [Next]_vars => (TypeOK /\ RetiredIsGone)'
  BY GateAssumption, TypeStep, RetiredStep
<1>3. QED BY <1>1, <1>2, PTL DEF Spec

-----------------------------------------------------------------------------
(* The two indices                                                         *)

(* Evicting dispatches found by nonce removes their own entries and no     *)
(* others, from both indices.                                              *)
LEMMA Eviction ==
    ASSUME GateAssumption, TypeOK, IndexInv, NEW gone \in SUBSET Open
    PROVE  /\ \A n \in Nonces : ByNonceWithout(gone)[n] # NoDispatch =>
                 /\ ByNonceWithout(gone)[n] = byNonce[n]
                 /\ byNonce[n] \in Dispatches \ gone
           /\ \A t \in Terminals : ByTerminalWithout(gone)[t] # NoDispatch =>
                 /\ ByTerminalWithout(gone)[t] = byTerminal[t]
                 /\ byTerminal[t] \in Dispatches \ gone
                 /\ ByNonceWithout(gone)[disp[byTerminal[t]].nonce] =
                       byNonce[disp[byTerminal[t]].nonce]
<1> USE GateAssumption DEF TypeOK
<1>1. \A d \in gone : /\ d \in Dispatches
                     /\ disp[d].nonce \in Nonces
                     /\ byNonce[disp[d].nonce] = d
  BY DEF Open, IndexInv, OpenIndexed
<1>2. ASSUME NEW n \in Nonces, ByNonceWithout(gone)[n] # NoDispatch
      PROVE  /\ ByNonceWithout(gone)[n] = byNonce[n]
             /\ byNonce[n] \in Dispatches \ gone
  <2>1. /\ ByNonceWithout(gone)[n] = byNonce[n]
        /\ \A d \in gone : disp[d].nonce # n
    BY <1>2 DEF ByNonceWithout
  <2>2. disp[byNonce[n]].nonce = n
    BY <1>2, <2>1 DEF IndexInv, OpenIndexed
  <2>3. QED BY <1>2, <2>1, <2>2
<1>3. ASSUME NEW t \in Terminals, ByTerminalWithout(gone)[t] # NoDispatch
      PROVE  /\ ByTerminalWithout(gone)[t] = byTerminal[t]
             /\ byTerminal[t] \in Dispatches \ gone
             /\ ByNonceWithout(gone)[disp[byTerminal[t]].nonce] =
                   byNonce[disp[byTerminal[t]].nonce]
  <2> DEFINE e == byTerminal[t]
  <2>1. ByTerminalWithout(gone)[t] = e /\ ~(e \in gone /\ t \in Keys(e))
    BY <1>3 DEF ByTerminalWithout
  <2>2. /\ t \in Keys(e)
        /\ disp[e].nonce \in Nonces
        /\ byNonce[disp[e].nonce] \in {e, NoDispatch}
    BY <1>3, <2>1 DEF IndexInv, BoundIndexed
  <2>3. e \in Dispatches \ gone
    BY <1>3, <2>1, <2>2
  <2>4. \A d \in gone : disp[d].nonce # disp[e].nonce
    BY <1>1, <2>2, <2>3
  <2>5. QED BY <2>1, <2>2, <2>3, <2>4 DEF ByNonceWithout
<1>4. QED BY <1>2, <1>3

(* A set of dispatches leaves both indices: the rest stays coherent.       *)
LEMMA EvictionStep ==
    ASSUME GateAssumption, TypeOK, IndexInv, NEW gone \in SUBSET Open,
           byNonce' = ByNonceWithout(gone), byTerminal' = ByTerminalWithout(gone),
           UNCHANGED disp
    PROVE  OpenIndexed' /\ BoundIndexed'
<1>1. OpenIndexed'
  BY Eviction DEF IndexInv, OpenIndexed
<1>2. ASSUME NEW t \in Terminals, byTerminal'[t] # NoDispatch
      PROVE  /\ t \in Keys(byTerminal[t])'
             /\ disp'[byTerminal'[t]].nonce \in Nonces
             /\ byNonce'[disp'[byTerminal'[t]].nonce] =
                   IF disp'[byTerminal'[t]].state = "done" THEN NoDispatch
                                                           ELSE byTerminal'[t]
  <2>1. /\ byTerminal'[t] = byTerminal[t]
        /\ byNonce'[disp[byTerminal[t]].nonce] = byNonce[disp[byTerminal[t]].nonce]
    BY <1>2, Eviction
  <2>2. QED BY <1>2, <2>1 DEF IndexInv, BoundIndexed, Keys
<1>3. QED BY <1>1, <1>2 DEF BoundIndexed

LEMMA IndexStep ==
    ASSUME GateAssumption, ~NonceReuse, CheckInFlight, TypeOK, IndexInv, [Next]_vars
    PROVE  IndexInv'
<1> USE GateAssumption DEF TypeOK
<1>0. Stale \in SUBSET Open
  BY DEF Stale
<1>1. ASSUME NEW d \in Dispatches, NEW n \in Nonces, NEW t \in Terminals,
             NEW level \in Levels, NEW job \in Jobs, Register(d, n, t, level, job)
      PROVE  IndexInv'
  <2> DEFINE bn    == ByNonceWithout(Stale)
             bt    == ByTerminalWithout(Stale)
             prev  == bt[t]
             prevN == IF prev = NoDispatch THEN NoNonce ELSE disp[prev].nonce
             prevA == IF prevN \in {NoNonce, n} THEN NoTerminal ELSE disp[prev].alias
             x     == AliasFor(t)
  <2>1. /\ d \notin Open \cup Bound
        /\ byNonce[n] = NoDispatch
        /\ \A e \in Bound : disp[e].nonce # n
        /\ ~InFlight(t)
    BY <1>1 DEF Register, FreshNonce, NonceActive
  <2>2. /\ \A e \in Dispatches \ {d} : disp'[e] = disp[e]
        /\ disp'[d].nonce = n
        /\ disp'[d].terminalID = t
        /\ disp'[d].alias = x
        /\ disp'[d].state # "done"
    BY <1>1 DEF Register, RegisterDispatch
  <2>3. byNonce' = [m \in Nonces |-> IF m = n THEN d
                                     ELSE IF m = prevN THEN NoDispatch ELSE bn[m]]
    BY <1>1 DEF Register, RegisterDispatch
  <2>4. byTerminal' = [k \in Terminals |->
                         IF k \in {t, x} THEN d
                         ELSE IF k = prevA /\ bt[k] = prev THEN NoDispatch ELSE bt[k]]
    BY <1>1 DEF Register, RegisterDispatch
  <2>5. injecting' = [nonce |-> n, terminalID |-> t]
    BY <1>1 DEF Register
  <2>6. /\ \A m \in Nonces : bn[m] # NoDispatch =>
              bn[m] = byNonce[m] /\ byNonce[m] \in Dispatches
        /\ \A k \in Terminals : bt[k] # NoDispatch =>
              /\ bt[k] = byTerminal[k]
              /\ byTerminal[k] \in Dispatches
              /\ bn[disp[byTerminal[k]].nonce] = byNonce[disp[byTerminal[k]].nonce]
    BY <1>0, Eviction
  <2>7. prevN # NoNonce => bn[prevN] = NoDispatch
    <3>1. CASE prev # NoDispatch
      <4>1. prev = byTerminal[t] /\ disp[prev].state = "done"
        BY <2>1, <2>6, <3>1 DEF InFlight
      <4>2. byNonce[disp[prev].nonce] = NoDispatch
        BY <3>1, <4>1 DEF IndexInv, BoundIndexed
      <4>3. QED BY <2>6, <3>1, <4>1, <4>2
    <3>2. QED BY <3>1
  <2> HIDE DEF bn, bt, prevN, prevA, x
  <2>8. OpenIndexed'
    <3> SUFFICES ASSUME NEW m \in Nonces, byNonce'[m] # NoDispatch
                 PROVE  /\ disp'[byNonce'[m]].nonce = m
                        /\ disp'[byNonce'[m]].state # "done"
      BY DEF OpenIndexed
    <3>1. CASE m = n
      BY <2>2, <2>3, <3>1
    <3>2. CASE m # n
      <4>1. byNonce'[m] = byNonce[m] /\ byNonce[m] \in Dispatches
        BY <2>3, <2>6, <3>2
      <4>2. byNonce[m] # d
        BY <2>1, <4>1 DEF Open
      <4>3. QED BY <2>2, <4>1, <4>2 DEF IndexInv, OpenIndexed
    <3>3. QED BY <3>1, <3>2
  <2>9. BoundIndexed'
    <3> SUFFICES ASSUME NEW k \in Terminals, byTerminal'[k] # NoDispatch
                 PROVE  /\ k \in Keys(byTerminal[k])'
                        /\ disp'[byTerminal'[k]].nonce \in Nonces
                        /\ byNonce'[disp'[byTerminal'[k]].nonce] =
                              IF disp'[byTerminal'[k]].state = "done"
                              THEN NoDispatch ELSE byTerminal'[k]
      BY DEF BoundIndexed
    <3>1. CASE k \in {t, x}
      <4>1. byTerminal'[k] = d /\ byNonce'[n] = d
        BY <2>3, <2>4, <3>1
      <4>2. QED BY <2>2, <3>1, <4>1 DEF Keys
    <3>2. CASE k \notin {t, x}
      <4>1. /\ byTerminal'[k] = byTerminal[k]
            /\ byTerminal[k] \in Bound
            /\ byTerminal[k] # d
            /\ bn[disp[byTerminal[k]].nonce] = byNonce[disp[byTerminal[k]].nonce]
        BY <2>1, <2>4, <2>6, <3>2 DEF Bound
      <4>2. /\ k \in Keys(byTerminal[k])
            /\ disp[byTerminal[k]].nonce \in Nonces \ {n}
            /\ byNonce[disp[byTerminal[k]].nonce] =
                  IF disp[byTerminal[k]].state = "done" THEN NoDispatch ELSE byTerminal[k]
        BY <2>1, <4>1 DEF IndexInv, BoundIndexed
      <4>3. disp'[byTerminal[k]] = disp[byTerminal[k]]
        BY <2>2, <4>1 DEF Bound
      <4>4. byNonce'[disp[byTerminal[k]].nonce] = byNonce[disp[byTerminal[k]].nonce]
        BY <2>3, <2>7, <4>1, <4>2
      <4>5. QED BY <4>1, <4>2, <4>3, <4>4 DEF Keys
    <3>3. QED BY <3>1, <3>2
  <2>10. InjectingBound'
    BY <2>2, <2>4, <2>5 DEF InjectingBound
  <2>11. QED BY <2>8, <2>9, <2>10 DEF IndexInv
<1>2. ASSUME InjectOk PROVE IndexInv'
  BY <1>2 DEF InjectOk, IndexInv, OpenIndexed, BoundIndexed, InjectingBound, Keys, gateVars
<1>3. ASSUME InjectFail PROVE IndexInv'
  <2>1. InjectingBound'
    BY <1>3 DEF InjectFail, InjectingBound
  <2>2. CASE UNCHANGED gateVars
    BY <2>1, <2>2 DEF gateVars, IndexInv, OpenIndexed, BoundIndexed, Keys
  <2>3. CASE ~UNCHANGED gateVars
    <3> DEFINE d == byNonce[injecting.nonce]
    <3>1. injecting.nonce \in Nonces
      BY <1>3 DEF InjectFail, IndexInv, InjectingBound
    <3>2. /\ d # NoDispatch
          /\ byNonce' = ByNonceWithout({d})
          /\ byTerminal' = ByTerminalWithout({d})
          /\ UNCHANGED disp
      BY <1>3, <2>3 DEF InjectFail, CancelDispatch
    <3>3. {d} \in SUBSET Open
      BY <3>1, <3>2 DEF Open
    <3> HIDE DEF d
    <3>4. QED BY <2>1, <3>2, <3>3, EvictionStep DEF IndexInv
  <2>4. QED BY <2>2, <2>3
<1>4. ASSUME Sweep PROVE IndexInv'
  <2>1. OpenIndexed' /\ BoundIndexed'
    BY <1>0, <1>4, EvictionStep DEF Sweep
  <2>2. InjectingBound'
    BY <1>0, <1>4, Eviction DEF Sweep, IndexInv, InjectingBound
  <2>3. QED BY <2>1, <2>2 DEF IndexInv
<1>5. ASSUME UNCHANGED <<byNonce, byTerminal, injecting>>,
             \A e \in Dispatches :
                /\ disp'[e].nonce = disp[e].nonce
                /\ disp'[e].terminalID = disp[e].terminalID
                /\ disp'[e].alias = disp[e].alias
                /\ (disp'[e].state = "done") = (disp[e].state = "done")
      PROVE  IndexInv'
  BY <1>5 DEF IndexInv, OpenIndexed, BoundIndexed, InjectingBound, Keys
<1>6. ASSUME NEW d \in Dispatches, Age(d) PROVE IndexInv'
  BY <1>5, <1>6 DEF Age, Dispatch
<1>7. ASSUME NEW t \in Terminals, NEW n \in Nonces, GetInstructions(t, n)
      PROVE  IndexInv'
  BY <1>5, <1>7 DEF GetInstructions, Dispatch
<1>8. ASSUME NEW t \in Terminals, NEW tok \in Dispatches \cup {NoDispatch},
             Unlock(t, tok)
      PROVE  IndexInv'
  BY <1>5, <1>8 DEF Unlock, Dispatch
<1>9. ASSUME NEW t \in Terminals, AdvanceToReady(t) PROVE IndexInv'
  BY <1>5, <1>9 DEF AdvanceToReady, Dispatch
<1>10. ASSUME NEW t \in Terminals, NEW n \in Nonces, RecordSend(t, n)
       PROVE  IndexInv'
  BY <1>5, <1>10 DEF RecordSend, RecordSendEffect, gateVars, Dispatch
<1>11. ASSUME NEW t \in Terminals, NEW n \in Nonces, Consume(t, n) PROVE IndexInv'
  <2>1. CASE UNCHANGED gateVars
    BY <1>5, <1>11, <2>1 DEF Consume, gateVars
  <2>2. CASE ~UNCHANGED gateVars
    <3> DEFINE d == byTerminal[t]
    <3>1. /\ d \in Dispatches
          /\ disp[d].nonce = n
          /\ disp' = [disp EXCEPT ![d] = [disp[d] EXCEPT !.state = "done"]]
          /\ byNonce' = [byNonce EXCEPT ![n] = NoDispatch]
          /\ UNCHANGED <<byTerminal, injecting>>
      BY <1>11, <2>2 DEF Consume, ConsumeEffect
    <3>2. /\ \A e \in Dispatches :
               /\ disp'[e].nonce = disp[e].nonce
               /\ disp'[e].terminalID = disp[e].terminalID
               /\ disp'[e].alias = disp[e].alias
          /\ \A e \in Dispatches \ {d} : disp'[e].state = disp[e].state
          /\ disp'[d].state = "done"
      <4> HIDE DEF d
      <4> QED BY <3>1 DEF Dispatch
    <3>3. byNonce[n] \in {d, NoDispatch}
      BY <3>1 DEF IndexInv, BoundIndexed
    <3>4. OpenIndexed'
      BY <3>1, <3>2, <3>3 DEF IndexInv, OpenIndexed
    <3>5. ASSUME NEW k \in Terminals, byTerminal[k] # NoDispatch
          PROVE  /\ k \in Keys(byTerminal[k])'
                 /\ disp'[byTerminal[k]].nonce \in Nonces
                 /\ byNonce'[disp'[byTerminal[k]].nonce] =
                       IF disp'[byTerminal[k]].state = "done" THEN NoDispatch
                                                              ELSE byTerminal[k]
      <4>1. /\ k \in Keys(byTerminal[k])
            /\ byTerminal[k] \in Dispatches
            /\ disp[byTerminal[k]].nonce \in Nonces
            /\ byNonce[disp[byTerminal[k]].nonce] =
                  IF disp[byTerminal[k]].state = "done" THEN NoDispatch ELSE byTerminal[k]
        BY <3>5 DEF IndexInv, BoundIndexed
      <4>2. CASE byTerminal[k] = d
        BY <3>1, <3>2, <4>1, <4>2 DEF Keys
      <4>3. CASE byTerminal[k] # d
        <5>1. disp'[byTerminal[k]].state = disp[byTerminal[k]].state
          BY <3>2, <4>1, <4>3
        <5>2. disp[byTerminal[k]].nonce = n => disp[byTerminal[k]].state = "done"
          BY <3>3, <4>1, <4>3
        <5>3. QED BY <3>1, <3>2, <4>1, <5>1, <5>2 DEF Keys
      <4>4. QED BY <4>2, <4>3
    <3>6. BoundIndexed'
      BY <3>1, <3>5 DEF BoundIndexed
    <3>7. InjectingBound'
      BY <3>1, <3>2 DEF IndexInv, InjectingBound
    <3>8. QED BY <3>4, <3>6, <3>7 DEF IndexInv
  <2>3. QED BY <2>1, <2>2
<1>12. ASSUME NEW a \in Agents, NEW x \in Terminals \cup {NoTerminal},
              SetAntenna(a, x)
       PROVE  IndexInv'
  BY <1>5, <1>12 DEF SetAntenna, gateVars
<1>13. ASSUME Restart PROVE IndexInv'
  BY <1>13 DEF Restart, IndexInv, OpenIndexed, BoundIndexed, InjectingBound
<1>14. CASE UNCHANGED vars
  BY <1>5, <1>14 DEF vars
<1>15. QED
  BY <1>1, <1>2, <1>3, <1>4, <1>6, <1>7, <1>8, <1>9, <1>10, <1>11, <1>12,
     <1>13, <1>14 DEF Next

(* While capipush skips terminals in flight and newNonce never draws a     *)
(* nonce that a bound dispatch carries, the two indices agree whatever the *)
(* antennas are and however they change: a bound dispatch is in byNonce    *)
(* exactly until it is done.                                               *)
THEOREM IndexInvHolds ==
    ASSUME ~NonceReuse, CheckInFlight
    PROVE  Spec => []IndexInv
<1>1. Init => TypeOK /\ IndexInv
  <2>1. Init => TypeOK
    BY GateAssumption, InitType
  <2>2. Init => IndexInv
    BY DEF Init, IndexInv, OpenIndexed, BoundIndexed, InjectingBound
  <2>3. QED BY <2>1, <2>2
<1>2. TypeOK /\ IndexInv /\ [Next]_vars => (TypeOK /\ IndexInv)'
  BY GateAssumption, TypeStep, IndexStep
<1>3. QED BY <1>1, <1>2, PTL DEF Spec

(* Both indices lead to the right object: by nonce to a dispatch that      *)
(* carries the nonce and is not consumed, by terminal to one of that       *)
(* terminal or antenna.                                                    *)
THEOREM IndexCoherentHolds ==
    ASSUME ~NonceReuse, CheckInFlight
    PROVE  Spec => []IndexCoherent
<1>1. IndexInv => IndexCoherent
  BY DEF IndexInv, BoundIndexed, IndexCoherent
<1>2. QED BY <1>1, IndexInvHolds, PTL

(* Whatever holds a terminal in flight is found by the sweep through       *)
(* byNonce, so that a silent agent cannot block the chats routed to it.    *)
THEOREM InFlightIsSweepableHolds ==
    ASSUME ~NonceReuse, CheckInFlight
    PROVE  Spec => []InFlightIsSweepable
<1>1. IndexInv => InFlightIsSweepable
  BY DEF IndexInv, BoundIndexed, InFlightIsSweepable, InFlight
<1>2. QED BY <1>1, IndexInvHolds, PTL

LEMMA FreedStep ==
    ASSUME GateAssumption, TypeOK, IndexInv, InjectFail,
           NEW t \in Terminals, injecting.terminalID = t
    PROVE  ~InFlight(t)'
<1> USE GateAssumption DEF TypeOK
<1> DEFINE d == byNonce[injecting.nonce]
           e == byTerminal[t]
<1>1. /\ injecting.nonce \in Nonces
      /\ e # NoDispatch => /\ disp[e].terminalID = t
                           /\ disp[e].nonce = injecting.nonce
                           /\ t \in Keys(e)
                           /\ d = IF disp[e].state = "done" THEN NoDispatch ELSE e
  BY DEF InjectFail, IndexInv, InjectingBound, BoundIndexed
<1>2. CASE UNCHANGED gateVars
  <2>1. d = NoDispatch \/ disp[d].terminalID # t \/ byTerminal = ByTerminalWithout({d})
    BY <1>2 DEF InjectFail, CancelDispatch, gateVars
  <2>2. e = NoDispatch \/ disp[e].state = "done"
    BY <1>1, <2>1 DEF ByTerminalWithout
  <2>3. QED BY <1>2, <2>2 DEF gateVars, InFlight
<1>3. CASE ~UNCHANGED gateVars
  <2>1. byTerminal' = ByTerminalWithout({d}) /\ disp' = disp
    BY <1>3 DEF InjectFail, CancelDispatch
  <2>2. byTerminal'[t] = NoDispatch \/ (byTerminal'[t] = e /\ disp[e].state = "done")
    BY <1>1, <2>1 DEF ByTerminalWithout
  <2>3. QED BY <2>1, <2>2 DEF InFlight
<1>4. QED BY <1>2, <1>3

(* A failed injection frees its terminal at once, although agents, the     *)
(* sweep and antenna changes ran while the payload was under way.          *)
THEOREM FreedOnFailureHolds ==
    ASSUME ~NonceReuse, CheckInFlight
    PROVE  Spec => FreedOnFailure
<1>1. TypeOK /\ IndexInv /\ [Next]_vars
        => [\A t \in Terminals :
              InjectFail /\ injecting.terminalID = t => ~InFlight(t)']_vars
  BY GateAssumption, FreedStep
<1>2. QED BY TypeCorrect, IndexInvHolds, <1>1, PTL DEF Spec, FreedOnFailure

-----------------------------------------------------------------------------
(***************************************************************************)
(* The tools that end a turn                                               *)
(***************************************************************************)

-----------------------------------------------------------------------------
(* The maximum of a set of timestamps                                      *)

LEMMA BoundedHasMax ==
    ASSUME NEW N \in Nat, NEW S \in SUBSET (0..N), S # {}
    PROVE  \E x \in S : \A y \in S : x >= y
<1> DEFINE Gaps == {k \in Nat : \E x \in S : k = N - x}
<1>1. Gaps # {}
  <2>1. PICK x \in S : TRUE
    OBVIOUS
  <2>2. N - x \in Gaps
    BY <2>1
  <2>3. QED BY <2>2
<1>2. \E k \in Gaps : \A j \in Gaps : ~(<<j, k>> \in OpToRel(<, Nat))
  <2>1. Gaps \subseteq Nat
    OBVIOUS
  <2> HIDE DEF Gaps
  <2>2. QED BY <1>1, <2>1, WFMin, NatLessThanWellFounded
<1>3. PICK k \in Gaps : \A j \in Gaps : ~(j < k)
  BY <1>2 DEF OpToRel
<1>4. PICK x \in S : k = N - x
  OBVIOUS
<1>5. \A y \in S : x >= y
  <2> SUFFICES ASSUME NEW y \in S PROVE x >= y
    OBVIOUS
  <2>1. N - y \in Gaps
    OBVIOUS
  <2>2. QED BY <2>1, <1>3, <1>4
<1>6. QED BY <1>5


LEMMA MaxOfTimes ==
    ASSUME NEW N \in Nat, NEW S \in SUBSET (0..N), S # {}
    PROVE  /\ Max(S) \in S
           /\ \A y \in S : y <= Max(S)
<1>1. \E x \in S : \A y \in S : x >= y
  BY BoundedHasMax
<1>2. Max(S) \in S /\ \A y \in S : Max(S) >= y
  BY <1>1 DEF Max
<1>3. QED BY <1>2

LEMMA CountIsNat == Cardinality(Msgs) \in Nat
BY SendAssumption, FS_CardinalityType DEF SendAssumption

-----------------------------------------------------------------------------
(* What a handler still has to do                                          *)

SendTodos ==
    {<<"enqueue", "consume", "record", "markTo", "markOwn">>,
     <<"consume", "record", "markTo", "markOwn">>,
     <<"record", "markTo", "markOwn">>, <<"markTo", "markOwn">>, <<"markOwn">>}
DraftTodos ==
    {<<"draft", "markTo", "markOwn", "consume", "record">>,
     <<"markTo", "markOwn", "consume", "record">>,
     <<"markOwn", "consume", "record">>, <<"consume", "record">>, <<"record">>}
SilentTodos == {<<"markTo", "consume">>, <<"consume">>}
LoneTodos == {<<"enqueue">>, <<"draft">>}
TurnTodos == SendTodos \cup DraftTodos \cup SilentTodos
Todos == TurnTodos \cup LoneTodos \cup {<<>>}

Calls ==
    [todo : Todos, tool : {"none", "send", "draft", "silent"},
     term : Terminals \cup {NoTerminal}, to : Chats \cup {NoChat}, snap : Snapshot]

(* A call is idle, or it only queues, or it works for the dispatch it read *)
(* and has the rest of its tool's script to do.                            *)
Proper(r) ==
    /\ r \in Calls
    /\ r.todo = <<>> => r = Idle
    /\ r.todo \in LoneTodos => r.snap = NoSnapshot
    /\ r.todo \in TurnTodos =>
          /\ r.snap.bound = TRUE
          /\ r.snap.d \in Dispatches /\ r.snap.nonce \in Nonces /\ r.snap.job \in Jobs
          /\ r.term \in Terminals /\ r.to \in Chats
    /\ r.todo \in SendTodos => r.tool = "send"
    /\ r.todo \in DraftTodos => r.tool = "draft"
    /\ r.todo \in SilentTodos => r.tool = "silent" /\ r.to = r.snap.job.chat

LEMMA TodoTable ==
    ASSUME NEW t \in Todos
    PROVE  \/ t = <<>>
           \/ /\ t = <<"enqueue", "consume", "record", "markTo", "markOwn">>
              /\ Head(t) = "enqueue" /\ Len(t) # 1
              /\ Tail(t) = <<"consume", "record", "markTo", "markOwn">>
           \/ /\ t = <<"consume", "record", "markTo", "markOwn">>
              /\ Head(t) = "consume" /\ Len(t) # 1
              /\ Tail(t) = <<"record", "markTo", "markOwn">>
           \/ /\ t = <<"record", "markTo", "markOwn">>
              /\ Head(t) = "record" /\ Len(t) # 1
              /\ Tail(t) = <<"markTo", "markOwn">>
           \/ /\ t = <<"markTo", "markOwn">>
              /\ Head(t) = "markTo" /\ Len(t) # 1 /\ Tail(t) = <<"markOwn">>
           \/ t = <<"markOwn">> /\ Head(t) = "markOwn" /\ Len(t) = 1
           \/ /\ t = <<"draft", "markTo", "markOwn", "consume", "record">>
              /\ Head(t) = "draft" /\ Len(t) # 1
              /\ Tail(t) = <<"markTo", "markOwn", "consume", "record">>
           \/ /\ t = <<"markTo", "markOwn", "consume", "record">>
              /\ Head(t) = "markTo" /\ Len(t) # 1
              /\ Tail(t) = <<"markOwn", "consume", "record">>
           \/ /\ t = <<"markOwn", "consume", "record">>
              /\ Head(t) = "markOwn" /\ Len(t) # 1 /\ Tail(t) = <<"consume", "record">>
           \/ /\ t = <<"consume", "record">>
              /\ Head(t) = "consume" /\ Len(t) # 1 /\ Tail(t) = <<"record">>
           \/ t = <<"record">> /\ Head(t) = "record" /\ Len(t) = 1
           \/ /\ t = <<"markTo", "consume">>
              /\ Head(t) = "markTo" /\ Len(t) # 1 /\ Tail(t) = <<"consume">>
           \/ t = <<"consume">> /\ Head(t) = "consume" /\ Len(t) = 1
           \/ t = <<"enqueue">> /\ Head(t) = "enqueue" /\ Len(t) = 1
           \/ t = <<"draft">> /\ Head(t) = "draft" /\ Len(t) = 1
<1>1. CASE t = <<"enqueue", "consume", "record", "markTo", "markOwn">>
  BY <1>1
<1>2. CASE t = <<"consume", "record", "markTo", "markOwn">>
  BY <1>2
<1>3. CASE t = <<"record", "markTo", "markOwn">>
  BY <1>3
<1>4. CASE t = <<"markTo", "markOwn">>
  BY <1>4
<1>5. CASE t = <<"markOwn">>
  BY <1>5
<1>6. CASE t = <<"draft", "markTo", "markOwn", "consume", "record">>
  BY <1>6
<1>7. CASE t = <<"markTo", "markOwn", "consume", "record">>
  BY <1>7
<1>8. CASE t = <<"markOwn", "consume", "record">>
  BY <1>8
<1>9. CASE t = <<"consume", "record">>
  BY <1>9
<1>10. CASE t = <<"record">>
  BY <1>10
<1>11. CASE t = <<"markTo", "consume">>
  BY <1>11
<1>12. CASE t = <<"consume">>
  BY <1>12
<1>13. CASE t = <<"enqueue">> \/ t = <<"draft">> \/ t = <<>>
  BY <1>13
<1>14. QED
  BY <1>1, <1>2, <1>3, <1>4, <1>5, <1>6, <1>7, <1>8, <1>9, <1>10, <1>11, <1>12, <1>13
  DEF Todos, TurnTodos, SendTodos, DraftTodos, SilentTodos, LoneTodos

LEMMA IdleIsProper == Proper(Idle) /\ Idle.todo = <<>> /\ Idle.snap = NoSnapshot
<1>1. Idle \in Calls
  BY DEF Idle, Calls, Todos, Snapshot, NoSnapshot
<1>2. Idle.todo = <<>> /\ Idle.snap = NoSnapshot
  BY DEF Idle
<1>3. <<>> \notin LoneTodos /\ <<>> \notin TurnTodos
  BY DEF LoneTodos, TurnTodos, SendTodos, DraftTodos, SilentTodos
<1>4. QED BY <1>1, <1>2, <1>3 DEF Proper, TurnTodos

LEMMA TodosAreSteps == ASSUME NEW t \in Todos PROVE t \in Seq(Steps)
<1>1. CASE t = <<"enqueue", "consume", "record", "markTo", "markOwn">>
  BY <1>1 DEF Steps
<1>2. CASE t = <<"consume", "record", "markTo", "markOwn">>
  BY <1>2 DEF Steps
<1>3. CASE t = <<"record", "markTo", "markOwn">>
  BY <1>3 DEF Steps
<1>4. CASE t = <<"markTo", "markOwn">>
  BY <1>4 DEF Steps
<1>5. CASE t = <<"markOwn">>
  BY <1>5 DEF Steps
<1>6. CASE t = <<"draft", "markTo", "markOwn", "consume", "record">>
  BY <1>6 DEF Steps
<1>7. CASE t = <<"markTo", "markOwn", "consume", "record">>
  BY <1>7 DEF Steps
<1>8. CASE t = <<"markOwn", "consume", "record">>
  BY <1>8 DEF Steps
<1>9. CASE t = <<"consume", "record">>
  BY <1>9 DEF Steps
<1>10. CASE t = <<"record">>
  BY <1>10 DEF Steps
<1>11. CASE t = <<"markTo", "consume">>
  BY <1>11 DEF Steps
<1>12. CASE t = <<"consume">>
  BY <1>12 DEF Steps
<1>13. CASE t = <<"enqueue">>
  BY <1>13 DEF Steps
<1>14. CASE t = <<"draft">>
  BY <1>14 DEF Steps
<1>15. CASE t = <<>>
  BY <1>15 DEF Steps
<1>16. QED
  BY <1>1, <1>2, <1>3, <1>4, <1>5, <1>6, <1>7, <1>8, <1>9, <1>10, <1>11, <1>12,
     <1>13, <1>14, <1>15
  DEF Todos, TurnTodos, SendTodos, DraftTodos, SilentTodos, LoneTodos

LEMMA TailStays ==
    ASSUME NEW t \in Todos, t # <<>>, Len(t) # 1
    PROVE  /\ Tail(t) \in TurnTodos /\ t \in TurnTodos
           /\ Tail(t) \notin LoneTodos /\ Tail(t) # <<>>
           /\ Tail(t) \in SendTodos => t \in SendTodos
           /\ Tail(t) \in DraftTodos => t \in DraftTodos
           /\ Tail(t) \in SilentTodos => t \in SilentTodos
<1>1. CASE t = <<"enqueue", "consume", "record", "markTo", "markOwn">>
  BY <1>1 DEF TurnTodos, SendTodos, DraftTodos, SilentTodos, LoneTodos
<1>2. CASE t = <<"consume", "record", "markTo", "markOwn">>
  BY <1>2 DEF TurnTodos, SendTodos, DraftTodos, SilentTodos, LoneTodos
<1>3. CASE t = <<"record", "markTo", "markOwn">>
  BY <1>3 DEF TurnTodos, SendTodos, DraftTodos, SilentTodos, LoneTodos
<1>4. CASE t = <<"markTo", "markOwn">>
  BY <1>4 DEF TurnTodos, SendTodos, DraftTodos, SilentTodos, LoneTodos
<1>5. CASE t = <<"draft", "markTo", "markOwn", "consume", "record">>
  BY <1>5 DEF TurnTodos, SendTodos, DraftTodos, SilentTodos, LoneTodos
<1>6. CASE t = <<"markTo", "markOwn", "consume", "record">>
  BY <1>6 DEF TurnTodos, SendTodos, DraftTodos, SilentTodos, LoneTodos
<1>7. CASE t = <<"markOwn", "consume", "record">>
  BY <1>7 DEF TurnTodos, SendTodos, DraftTodos, SilentTodos, LoneTodos
<1>8. CASE t = <<"consume", "record">>
  BY <1>8 DEF TurnTodos, SendTodos, DraftTodos, SilentTodos, LoneTodos
<1>9. CASE t = <<"markTo", "consume">>
  BY <1>9 DEF TurnTodos, SendTodos, DraftTodos, SilentTodos, LoneTodos
<1>10. QED
  BY <1>1, <1>2, <1>3, <1>4, <1>5, <1>6, <1>7, <1>8, <1>9, TodoTable

LEMMA TailOf ==
    ASSUME NEW t \in Todos, t # <<>>, Len(t) # 1
    PROVE  /\ Tail(t) = <<"consume", "record">> =>
                 t = <<"markOwn", "consume", "record">> /\ Head(t) = "markOwn"
           /\ Tail(t) = <<"consume">> =>
                 t = <<"markTo", "consume">> /\ Head(t) = "markTo"
           /\ Tail(t) = <<"markOwn", "consume", "record">> =>
                 t = <<"markTo", "markOwn", "consume", "record">> /\ Head(t) = "markTo"
<1>1. CASE t = <<"enqueue", "consume", "record", "markTo", "markOwn">>
  BY <1>1
<1>2. CASE t = <<"consume", "record", "markTo", "markOwn">>
  BY <1>2
<1>3. CASE t = <<"record", "markTo", "markOwn">>
  BY <1>3
<1>4. CASE t = <<"markTo", "markOwn">>
  BY <1>4
<1>5. CASE t = <<"draft", "markTo", "markOwn", "consume", "record">>
  BY <1>5
<1>6. CASE t = <<"markTo", "markOwn", "consume", "record">>
  BY <1>6
<1>7. CASE t = <<"markOwn", "consume", "record">>
  BY <1>7
<1>8. CASE t = <<"consume", "record">>
  BY <1>8
<1>9. CASE t = <<"markTo", "consume">>
  BY <1>9
<1>10. QED
  BY <1>1, <1>2, <1>3, <1>4, <1>5, <1>6, <1>7, <1>8, <1>9, TodoTable

(* A call that has taken a step is over, or has the rest to do.            *)
AfterStep(r) == IF Len(r.todo) = 1 THEN Idle ELSE [r EXCEPT !.todo = Tail(r.todo)]

LEMMA ProperAfter ==
    ASSUME NEW r, Proper(r), r.todo # <<>>
    PROVE  /\ Proper(AfterStep(r))
           /\ \/ AfterStep(r) = Idle
              \/ /\ AfterStep(r).todo = Tail(r.todo)
                 /\ AfterStep(r).tool = r.tool /\ AfterStep(r).term = r.term
                 /\ AfterStep(r).to = r.to /\ AfterStep(r).snap = r.snap
<1>0. r \in Calls /\ r.todo \in Todos
  BY DEF Proper, Calls
<1>1. CASE Len(r.todo) = 1
  BY <1>1, IdleIsProper DEF AfterStep
<1>2. CASE Len(r.todo) # 1
  <2> DEFINE q == AfterStep(r)
  <2>1. q = [r EXCEPT !.todo = Tail(r.todo)]
    BY <1>2 DEF AfterStep
  <2>2. /\ Tail(r.todo) \in TurnTodos /\ r.todo \in TurnTodos
        /\ Tail(r.todo) \notin LoneTodos /\ Tail(r.todo) # <<>>
        /\ Tail(r.todo) \in SendTodos => r.todo \in SendTodos
        /\ Tail(r.todo) \in DraftTodos => r.todo \in DraftTodos
        /\ Tail(r.todo) \in SilentTodos => r.todo \in SilentTodos
    BY <1>0, <1>2, TailStays
  <2>3. /\ q.todo = Tail(r.todo) /\ q.tool = r.tool /\ q.term = r.term
        /\ q.to = r.to /\ q.snap = r.snap
    BY <2>1, <1>0 DEF Calls
  <2>4. q \in Calls
    <3>1. Tail(r.todo) \in Todos
      BY <2>2 DEF Todos
    <3>2. QED BY <3>1, <2>1, <1>0 DEF Calls
  <2> HIDE DEF q
  <2>5. Proper(q)
    BY <2>2, <2>3, <2>4 DEF Proper
  <2>6. QED BY <2>3, <2>5 DEF q
<1>3. QED BY <1>1, <1>2


-----------------------------------------------------------------------------
(* What the steps of the gate leave alone                                  *)

QuietGate ==
    \/ UNCHANGED vars
    \/ InjectOk
    \/ InjectFail
    \/ \E d \in Dispatches : Age(d)
    \/ Sweep
    \/ \E t \in Terminals, n \in Nonces : GetInstructions(t, n)
    \/ \E t \in Terminals, tok \in Dispatches \cup {NoDispatch} : Unlock(t, tok)
    \/ \E t \in Terminals : AdvanceToReady(t)
    \/ \E t \in Terminals, n \in Nonces : Consume(t, n)
    \/ \E t \in Terminals, n \in Nonces : RecordSend(t, n)

(* Only a registration and a restart say what a dispatch is about, and     *)
(* only a registration binds one.                                          *)
LEMMA QuietKeeps ==
    ASSUME GateAssumption, TypeOK, QuietGate
    PROVE  /\ \A d \in Dispatches : /\ disp'[d].nonce = disp[d].nonce
                                    /\ disp'[d].job = disp[d].job
                                    /\ disp'[d].level = disp[d].level
           /\ Bound' \subseteq Bound
<1> DEFINE Kept == /\ \A d \in Dispatches : /\ disp'[d].nonce = disp[d].nonce
                                            /\ disp'[d].job = disp[d].job
                                            /\ disp'[d].level = disp[d].level
                   /\ Bound' \subseteq Bound
<1>0. NoDispatch \notin Dispatches
  BY DEF GateAssumption
<1>1. ASSUME UNCHANGED <<disp, byTerminal>> PROVE Kept
  BY <1>1 DEF Bound
<1>2. ASSUME NEW d \in Dispatches, Age(d) PROVE Kept
  BY <1>2 DEF Age, Bound, TypeOK, Dispatch
<1>3. ASSUME NEW gone, UNCHANGED disp, byTerminal' = ByTerminalWithout(gone) PROVE Kept
  BY <1>0, <1>3 DEF ByTerminalWithout, Bound, TypeOK
<1>4. ASSUME NEW t \in Terminals, NEW n \in Nonces, GetInstructions(t, n) PROVE Kept
  BY <1>4 DEF GetInstructions, Bound, TypeOK, Dispatch
<1>5. ASSUME NEW t \in Terminals, NEW tok \in Dispatches \cup {NoDispatch},
             Unlock(t, tok)
      PROVE  Kept
  BY <1>5 DEF Unlock, Bound, TypeOK, Dispatch
<1>6. ASSUME NEW t \in Terminals, AdvanceToReady(t) PROVE Kept
  BY <1>6 DEF AdvanceToReady, Bound, TypeOK, Dispatch
<1>7. ASSUME NEW t \in Terminals, NEW n \in Nonces, Consume(t, n) PROVE Kept
  BY <1>7 DEF Consume, ConsumeEffect, gateVars, Bound, TypeOK, Dispatch
<1>8. ASSUME NEW t \in Terminals, NEW n \in Nonces, RecordSend(t, n) PROVE Kept
  <2>1. /\ \A d \in Dispatches : /\ disp'[d].nonce = disp[d].nonce
                                 /\ disp'[d].job = disp[d].job
                                 /\ disp'[d].level = disp[d].level
        /\ byTerminal' = byTerminal
    BY <1>8 DEF RecordSend, RecordSendEffect, gateVars, TypeOK, Dispatch
  <2>2. QED BY <2>1 DEF Bound
<1>9. ASSUME InjectFail PROVE Kept
  <2>1. \/ UNCHANGED <<disp, byTerminal>>
        \/ UNCHANGED disp /\ \E gone : byTerminal' = ByTerminalWithout(gone)
    BY <1>9 DEF InjectFail, CancelDispatch, gateVars
  <2>2. QED BY <2>1, <1>1, <1>3
<1>10. QED
  BY <1>1, <1>2, <1>3, <1>4, <1>5, <1>6, <1>7, <1>8, <1>9
  DEF QuietGate, vars, gateVars, InjectOk, Sweep

LEMMA RegisterKeeps ==
    ASSUME GateAssumption, TypeOK,
           NEW d \in Dispatches, NEW n \in Nonces, NEW t \in Terminals,
           NEW level \in Levels, NEW job \in Jobs, Register(d, n, t, level, job)
    PROVE  /\ disp'[d].nonce = n /\ disp'[d].job = job /\ disp'[d].level = level
           /\ disp'[d].state = IF level = "boss" THEN "ready" ELSE "locked"
           /\ disp'[d].sends = 0
           /\ \A e \in Dispatches \ {d} : disp'[e] = disp[e]
           /\ d \notin Bound
           /\ Bound' \subseteq Bound \cup {d}
           /\ ~NonceReuse => \A e \in Bound : disp[e].nonce # n
<1>0. NoDispatch \notin Dispatches
  BY DEF GateAssumption
<1>1. /\ disp'[d].nonce = n /\ disp'[d].job = job /\ disp'[d].level = level
      /\ disp'[d].state = IF level = "boss" THEN "ready" ELSE "locked"
      /\ disp'[d].sends = 0
      /\ \A e \in Dispatches \ {d} : disp'[e] = disp[e]
  BY DEF Register, RegisterDispatch, TypeOK
<1>2. d \notin Bound /\ (~NonceReuse => \A e \in Bound : disp[e].nonce # n)
  BY DEF Register, FreshNonce
<1>3. \A k \in Terminals : byTerminal'[k] \in {d, NoDispatch, byTerminal[k]}
  BY DEF Register, RegisterDispatch, ByTerminalWithout
<1>4. Bound' \subseteq Bound \cup {d}
  BY <1>0, <1>3 DEF Bound
<1>5. QED BY <1>1, <1>2, <1>4

LEMMA RestartKeeps ==
    ASSUME GateAssumption, Restart
    PROVE  disp' = [d \in Dispatches |-> Blank] /\ Bound' = {}
BY DEF GateAssumption, Restart, Bound


-----------------------------------------------------------------------------
(* Types, what a call holds, and that every step of the composition is a   *)
(* step of the gate                                                        *)

\* A bound dispatch has been registered.
BoundIsReal ==
    \A d \in Bound : disp[d].nonce \in Nonces /\ disp[d].job \in Jobs

InjectingIsReal == injecting # NotInjecting => injecting.nonce \in Nonces

Rows == [chat : Chats \cup {NoChat}, sender : Speakers \cup {NoSpeaker}, ts : Times,
         st : {"absent", "pending", "handled"}]

RowsAreReal ==
    \A m \in Msgs : msg[m].st # "absent" => msg[m].chat \in Chats

SweepIsReal ==
    \A b \in sweep : b.msgs # {} /\ \A m \in b.msgs : msg[m].st # "absent"

TurnTypes ==
    /\ TypeOK /\ BoundIsReal /\ InjectingIsReal
    /\ msg \in [Msgs -> Rows] /\ RowsAreReal
    /\ handler \in [Handlers -> Calls] /\ \A h \in Handlers : Proper(handler[h])
    /\ sweep \subseteq Bursts /\ SweepIsReal
    /\ burst \in [Dispatches -> SUBSET Msgs]
    /\ opened \subseteq Msgs
    /\ replies \in [Dispatches -> Nat]

LEMMA TypesImply == ASSUME TurnTypes PROVE SendTypeOK
<1>1. ASSUME NEW h \in Handlers
      PROVE  /\ handler[h].todo \in Seq(Steps)
             /\ handler[h].tool \in {"none", "send", "draft", "silent"}
             /\ handler[h].snap \in Snapshot
  <2>1. handler[h] \in Calls
    BY DEF TurnTypes
  <2>2. QED BY <2>1, TodosAreSteps DEF Calls
<1>2. QED BY <1>1 DEF TurnTypes, SendTypeOK, Rows

LEMMA TurnTypesInit == ASSUME SendInit PROVE TurnTypes
<1>1. TypeOK
  BY GateAssumption, InitType DEF SendInit
<1>2. BoundIsReal
  BY GateAssumption DEF SendInit, Init, BoundIsReal, Bound, GateAssumption
<1>7. InjectingIsReal
  BY DEF SendInit, Init, InjectingIsReal
<1>3. 0 \in Times
  BY CountIsNat DEF Times
<1>4. \A h \in Handlers : handler[h] = Idle
  BY DEF SendInit
<1>5. handler \in [Handlers -> Calls] /\ \A h \in Handlers : Proper(handler[h])
  BY <1>4, IdleIsProper DEF SendInit, Proper
<1>6. QED
  BY <1>1, <1>2, <1>3, <1>5, <1>7
  DEF SendInit, TurnTypes, Rows, RowsAreReal, SweepIsReal

(* The steps a call takes towards its end.                                 *)
LEMMA AdvanceStep ==
    ASSUME handler \in [Handlers -> Calls], \A h \in Handlers : Proper(handler[h]),
           NEW h \in Handlers, Busy(h), Advance(h)
    PROVE  /\ handler' = [handler EXCEPT ![h] = AfterStep(handler[h])]
           /\ handler' \in [Handlers -> Calls]
           /\ \A k \in Handlers : Proper(handler'[k])
           /\ handler[h].todo \in Todos /\ handler[h].todo # <<>>
<1>1. handler' = [handler EXCEPT ![h] = AfterStep(handler[h])]
  BY DEF Advance, AfterStep
<1>2. Proper(handler[h]) /\ handler[h].todo # <<>>
  BY DEF Busy
<1>3. Proper(AfterStep(handler[h])) /\ handler[h].todo \in Todos
  BY <1>2, ProperAfter DEF Calls
<1>4. AfterStep(handler[h]) \in Calls
  BY <1>3 DEF Proper
<1>5. QED BY <1>1, <1>2, <1>3, <1>4

(* A call that consumes, records or marks works for a dispatch.            *)
LEMMA WorksForATurn ==
    ASSUME NEW r, Proper(r), r.todo # <<>>,
           Head(r.todo) \in {"consume", "record", "markTo", "markOwn"}
    PROVE  /\ r.todo \in TurnTodos
           /\ r.snap.bound = TRUE /\ r.snap.d \in Dispatches /\ r.snap.nonce \in Nonces
           /\ r.snap.job \in Jobs /\ r.term \in Terminals /\ r.to \in Chats
<1>1. r.todo \in Todos
  BY DEF Proper, Calls
<1>2. r.todo \in TurnTodos
  <2>1. CASE r.todo = <<"enqueue">>
    BY <2>1
  <2>2. CASE r.todo = <<"draft">>
    BY <2>2
  <2>3. QED BY <1>1, <2>1, <2>2 DEF Todos, LoneTodos
<1>3. QED BY <1>2 DEF Proper

(* What Active reads of a bound dispatch is a call's to work with.         *)
LEMMA CallIsProper ==
    ASSUME TurnTypes, NEW h \in Handlers, NEW t \in Terminals, NEW tool \in Tools,
           NEW to \in Chats, Call(h, t, tool, to)
    PROVE  Proper(handler'[h]) /\ handler' \in [Handlers -> Calls]
<1> DEFINE a == Active(t)
           r == [todo |-> Script(tool, a), tool |-> tool, term |-> t, to |-> to, snap |-> a]
<1>1. handler' = [handler EXCEPT ![h] = r]
  BY DEF Call
<1>2. tool \in {"send", "draft", "silent"}
  BY SendAssumption DEF SendAssumption
<1>3. CASE byTerminal[t] = NoDispatch
  <2>1. a = NoSnapshot
    BY <1>3 DEF Active
  <2>2. tool # "silent"
    BY <1>3 DEF Call
  <2>3. NoSnapshot \in Snapshot /\ NoSnapshot.bound = FALSE
    BY DEF NoSnapshot, Snapshot
  <2>4. Script(tool, a) \in LoneTodos
    BY <2>1, <2>2, <2>3, <1>2 DEF Script, LoneTodos
  <2> HIDE DEF a
  <2>5. r.todo \in LoneTodos /\ r.snap = NoSnapshot
    BY <2>1, <2>4
  <2>6. \A x \in LoneTodos : x # <<>> /\ x \notin TurnTodos
    BY DEF LoneTodos, TurnTodos, SendTodos, DraftTodos, SilentTodos
  <2>7. r \in Calls
    BY <2>1, <2>3, <2>4, <1>2 DEF Calls, Todos
  <2>8. Proper(r)
    <3> HIDE DEF r
    <3>1. QED BY <2>5, <2>6, <2>7 DEF Proper, TurnTodos
  <2>9. QED BY <1>1, <2>7, <2>8 DEF TurnTypes
<1>4. CASE byTerminal[t] # NoDispatch
  <2> DEFINE d == byTerminal[t]
  <2>1. d \in Bound /\ d \in Dispatches
    BY <1>4 DEF Bound, TurnTypes, TypeOK
  <2>2. disp[d].nonce \in Nonces /\ disp[d].job \in Jobs
    BY <2>1 DEF TurnTypes, BoundIsReal
  <2>3. a = [bound |-> TRUE, d |-> d, nonce |-> disp[d].nonce, job |-> disp[d].job]
    BY <1>4 DEF Active
  <2>4. tool = "silent" => to = disp[d].job.chat
    BY DEF Call
  <2>5. /\ a \in Snapshot /\ a.bound = TRUE /\ a.d \in Dispatches
        /\ a.nonce \in Nonces /\ a.job \in Jobs /\ a.job = disp[d].job
    BY <2>1, <2>2, <2>3 DEF Snapshot
  <2> HIDE DEF a, d
  <2>6. /\ tool = "send" => Script(tool, a) \in SendTodos
        /\ tool = "draft" => Script(tool, a) \in DraftTodos
        /\ tool = "silent" => Script(tool, a) \in SilentTodos
    BY <2>5
    DEF Script, SendScript, DraftScript, SilentScript, SendTodos, DraftTodos, SilentTodos
  <2>7. /\ \A x \in SendTodos : x # <<>> /\ x \notin LoneTodos /\ x \notin DraftTodos /\ x \notin SilentTodos
        /\ \A x \in DraftTodos : x # <<>> /\ x \notin LoneTodos /\ x \notin SendTodos /\ x \notin SilentTodos
        /\ \A x \in SilentTodos : x # <<>> /\ x \notin LoneTodos /\ x \notin SendTodos /\ x \notin DraftTodos
    <3>1. \A x \in SendTodos : x # <<>> /\ x \notin LoneTodos /\ x \notin DraftTodos /\ x \notin SilentTodos
      BY DEF LoneTodos, SendTodos, DraftTodos, SilentTodos
    <3>2. \A x \in DraftTodos : x # <<>> /\ x \notin LoneTodos /\ x \notin SendTodos /\ x \notin SilentTodos
      BY DEF LoneTodos, SendTodos, DraftTodos, SilentTodos
    <3>3. \A x \in SilentTodos : x # <<>> /\ x \notin LoneTodos /\ x \notin SendTodos /\ x \notin DraftTodos
      BY DEF LoneTodos, SendTodos, DraftTodos, SilentTodos
    <3>4. QED BY <3>1, <3>2, <3>3
  <2>8. r \in Calls
    BY <2>5, <2>6, <1>2 DEF Calls, Todos, TurnTodos
  <2>9. /\ r.tool = tool /\ r.term = t /\ r.to = to /\ r.snap = a
        /\ r.todo = Script(tool, a)
    OBVIOUS
  <2>10. Proper(r)
    <3> HIDE DEF r
    <3>1. QED BY <1>2, <2>4, <2>5, <2>6, <2>7, <2>8, <2>9 DEF Proper
  <2> HIDE DEF r
  <2>11. QED BY <1>1, <2>8, <2>10 DEF TurnTypes
<1>5. QED BY <1>3, <1>4


\* What a dispatch for burst b is registered to be about.
JobOf(b) == [chat |-> b.chat, sender |-> b.sender, ts |-> Max({msg[m].ts : m \in b.msgs})]

LEMMA BurstJob ==
    ASSUME TurnTypes, NEW b \in sweep
    PROVE  /\ JobOf(b) \in Jobs
           /\ JobOf(b).chat = b.chat /\ JobOf(b).sender = b.sender
           /\ \E m \in b.msgs : JobOf(b).ts = msg[m].ts
           /\ \A m \in b.msgs : msg[m].ts <= JobOf(b).ts
<1> DEFINE S == {msg[m].ts : m \in b.msgs}
<1>1. b \in Bursts /\ b.msgs # {}
  BY DEF TurnTypes, SweepIsReal
<1>2. b.chat \in Chats /\ b.sender \in Speakers \cup {NoSpeaker} /\ b.msgs \subseteq Msgs
  BY <1>1 DEF Bursts
<1>3. S \in SUBSET (0..Cardinality(Msgs)) /\ S # {}
  BY <1>1, <1>2 DEF TurnTypes, Rows, Times
<1>4. Max(S) \in S /\ \A y \in S : y <= Max(S)
  BY <1>3, CountIsNat, MaxOfTimes
<1>5. Max(S) \in Times
  BY <1>3, <1>4 DEF Times
<1>6. JobOf(b) = [chat |-> b.chat, sender |-> b.sender, ts |-> Max(S)]
  BY DEF JobOf
<1>7. JobOf(b) \in TurnJobs
  BY <1>2, <1>5, <1>6 DEF TurnJobs
<1>8. /\ JobOf(b).chat = b.chat /\ JobOf(b).sender = b.sender
      /\ JobOf(b).ts = Max(S)
  BY <1>6
<1>9. QED
  BY <1>4, <1>7, <1>8, JobsAreTurns

(* Every step of the composition is a quiet step of the gate, the          *)
(* registration of a burst of the pass under way, or a restart.            *)
LEMMA StepKinds ==
    ASSUME TurnTypes, [SendNext]_allVars
    PROVE  \/ QuietGate
           \/ \E d \in Dispatches, n \in Nonces, t \in Terminals, level \in Levels,
                 b \in sweep :
                 DispatchBurst(d, n, t, level, b) /\ Register(d, n, t, level, JobOf(b))
           \/ Crash
<1>1. CASE \E d \in Dispatches, n \in Nonces, t \in Terminals, level \in Levels,
              b \in sweep : DispatchBurst(d, n, t, level, b)
  BY <1>1 DEF DispatchBurst, JobOf
<1>2. CASE GateStep
  BY <1>2 DEF GateStep, QuietGate
<1>3. ASSUME NEW t \in Terminals, OpenTurn(t) PROVE QuietGate
  BY <1>3 DEF OpenTurn, QuietGate
<1>4. ASSUME NEW h \in Handlers, ConsumeTurn(h) \/ RecordTurn(h) PROVE QuietGate
  <2>1. Proper(handler[h]) /\ handler[h].todo # <<>>
    BY <1>4 DEF ConsumeTurn, RecordTurn, At, Busy, TurnTypes
  <2>2. Head(handler[h].todo) \in {"consume", "record"}
    BY <1>4 DEF ConsumeTurn, RecordTurn, At
  <2>3. handler[h].term \in Terminals /\ handler[h].snap.nonce \in Nonces
    BY <2>1, <2>2, WorksForATurn
  <2>4. QED BY <1>4, <2>3 DEF ConsumeTurn, RecordTurn, QuietGate
<1>5. CASE Crash
  BY <1>5
<1>6. CASE Deliver \/ DeliveryFails
  BY <1>6 DEF Deliver, DeliveryFails, QuietGate
<1>7. CASE UNCHANGED vars
  BY <1>7 DEF QuietGate
<1>8. \/ \E d \in Dispatches, n \in Nonces, t \in Terminals, level \in Levels,
            b \in sweep : DispatchBurst(d, n, t, level, b)
      \/ GateStep
      \/ \E t \in Terminals : OpenTurn(t)
      \/ \E h \in Handlers : ConsumeTurn(h) \/ RecordTurn(h)
      \/ Crash
      \/ Deliver \/ DeliveryFails
      \/ UNCHANGED vars
  BY DEF SendNext, allVars, Arrive, SweepOnce, SkipBurst, Call, Reply, MarkTo, MarkOwn
<1>9. QED BY <1>1, <1>2, <1>3, <1>4, <1>5, <1>6, <1>7, <1>8

LEMMA GateMoves ==
    ASSUME TurnTypes, [SendNext]_allVars
    PROVE  [Next]_vars
<1>1. CASE QuietGate
  BY <1>1 DEF QuietGate, Next
<1>2. ASSUME NEW d \in Dispatches, NEW n \in Nonces, NEW t \in Terminals,
             NEW level \in Levels, NEW b \in sweep, Register(d, n, t, level, JobOf(b))
      PROVE  Next
  <2>1. JobOf(b) \in Jobs
    BY BurstJob
  <2>2. QED BY <1>2, <2>1 DEF Next
<1>3. CASE Crash
  BY <1>3 DEF Crash, Next
<1>4. QED BY <1>1, <1>2, <1>3, StepKinds

LEMMA InjectingStaysReal ==
    ASSUME TurnTypes, [SendNext]_allVars
    PROVE  InjectingIsReal'
<1>1. CASE QuietGate
  <2>1. injecting' \in {injecting, NotInjecting}
    BY <1>1 DEF QuietGate, vars, InjectOk, InjectFail, Age, Sweep, GetInstructions, Unlock,
                AdvanceToReady, Consume, RecordSend
  <2>2. QED BY <2>1 DEF TurnTypes, InjectingIsReal
<1>2. ASSUME NEW d \in Dispatches, NEW n \in Nonces, NEW t \in Terminals,
             NEW level \in Levels, NEW b \in sweep, Register(d, n, t, level, JobOf(b))
      PROVE  InjectingIsReal'
  BY <1>2 DEF Register, InjectingIsReal
<1>3. CASE Crash
  BY <1>3 DEF Crash, Restart, InjectingIsReal
<1>4. QED BY <1>1, <1>2, <1>3, StepKinds

LEMMA BoundStaysReal ==
    ASSUME TurnTypes, [SendNext]_allVars
    PROVE  TypeOK' /\ BoundIsReal'
<1>1. TypeOK'
  BY GateAssumption, GateMoves, TypeStep DEF TurnTypes
<1>2. TypeOK /\ BoundIsReal /\ Bound \subseteq Dispatches
  BY DEF TurnTypes, Bound
<1>3. CASE QuietGate
  <2>1. /\ \A d \in Dispatches : /\ disp'[d].nonce = disp[d].nonce
                                 /\ disp'[d].job = disp[d].job
        /\ Bound' \subseteq Bound
    BY <1>2, <1>3, GateAssumption, QuietKeeps
  <2>2. QED BY <1>1, <1>2, <2>1 DEF BoundIsReal
<1>4. ASSUME NEW d \in Dispatches, NEW n \in Nonces, NEW t \in Terminals,
             NEW level \in Levels, NEW b \in sweep, Register(d, n, t, level, JobOf(b))
      PROVE  BoundIsReal'
  <2>1. JobOf(b) \in Jobs
    BY BurstJob
  <2>2. /\ disp'[d].nonce = n /\ disp'[d].job = JobOf(b)
        /\ \A e \in Dispatches \ {d} : disp'[e] = disp[e]
        /\ d \notin Bound
        /\ Bound' \subseteq Bound \cup {d}
    BY <1>2, <1>4, <2>1, GateAssumption, RegisterKeeps
  <2>3. QED BY <1>2, <2>1, <2>2 DEF BoundIsReal
<1>5. CASE Crash
  <2>1. Restart
    BY <1>5 DEF Crash
  <2>2. Bound' = {}
    BY <2>1, GateAssumption, RestartKeeps
  <2>3. QED BY <1>1, <2>2 DEF BoundIsReal
<1>6. QED BY <1>1, <1>3, <1>4, <1>5, StepKinds

(* Marking messages handled, whichever they are.                           *)
LEMMA MarkedRows ==
    ASSUME msg \in [Msgs -> Rows], NEW ms, MarkHandled(ms)
    PROVE  /\ msg' \in [Msgs -> Rows]
           /\ \A m \in Msgs : /\ msg'[m].chat = msg[m].chat
                              /\ msg'[m].sender = msg[m].sender
                              /\ msg'[m].ts = msg[m].ts
                              /\ msg'[m].st = IF m \in ms THEN "handled" ELSE msg[m].st
BY DEF MarkHandled, Rows


(* A row stays what it was received as, and never leaves "handled".        *)
RowsKept ==
    \A m \in Msgs : msg[m].st # "absent" =>
        /\ msg'[m].chat = msg[m].chat /\ msg'[m].sender = msg[m].sender
        /\ msg'[m].ts = msg[m].ts /\ msg'[m].st # "absent"
        /\ msg[m].st = "handled" => msg'[m].st = "handled"

LEMMA RowsStep ==
    ASSUME TurnTypes, [SendNext]_allVars
    PROVE  msg' \in [Msgs -> Rows] /\ RowsAreReal' /\ RowsKept
<1>0. msg \in [Msgs -> Rows] /\ RowsAreReal
  BY DEF TurnTypes
<1>1. ASSUME NEW m \in Msgs, NEW c \in Chats, NEW s \in Speakers, NEW ts \in Times,
             Arrive(m, c, s, ts)
      PROVE  msg' \in [Msgs -> Rows] /\ RowsAreReal' /\ RowsKept
  <2> DEFINE r == [chat |-> c, sender |-> s, ts |-> ts, st |-> "pending"]
  <2>1. r \in Rows /\ r.chat \in Chats
    BY DEF Rows
  <2>2. msg[m].st = "absent" /\ msg' = [msg EXCEPT ![m] = r]
    BY <1>1 DEF Arrive
  <2> HIDE DEF r
  <2>3. QED BY <1>0, <2>1, <2>2 DEF RowsAreReal, RowsKept, Rows
<1>2. ASSUME NEW ms, MarkHandled(ms), \A m \in ms : msg[m].st = "pending"
      PROVE  msg' \in [Msgs -> Rows] /\ RowsAreReal' /\ RowsKept
  <2>1. /\ msg' \in [Msgs -> Rows]
        /\ \A m \in Msgs : /\ msg'[m].chat = msg[m].chat
                           /\ msg'[m].sender = msg[m].sender
                           /\ msg'[m].ts = msg[m].ts
                           /\ msg'[m].st = IF m \in ms THEN "handled" ELSE msg[m].st
    BY <1>0, <1>2, MarkedRows
  <2>2. QED BY <1>0, <1>2, <2>1 DEF RowsAreReal, RowsKept
<1>3. CASE UNCHANGED msg
  BY <1>0, <1>3 DEF RowsAreReal, RowsKept
<1>4. ASSUME NEW h \in Handlers, MarkTo(h) \/ MarkOwn(h)
      PROVE  \/ UNCHANGED msg
             \/ \E ms : MarkHandled(ms) /\ \A m \in ms : msg[m].st = "pending"
  <2>1. \A c, s, ts : \A m \in MarkScope(c, s, ts) : msg[m].st = "pending"
    BY DEF MarkScope
  <2>2. QED BY <1>4, <2>1 DEF MarkTo, MarkOwn
<1>5. \/ \E m \in Msgs, c \in Chats, s \in Speakers, ts \in Times : Arrive(m, c, s, ts)
      \/ \E h \in Handlers : MarkTo(h) \/ MarkOwn(h)
      \/ UNCHANGED msg
  BY DEF SendNext, allVars, sendVars, SweepOnce, SkipBurst, DispatchBurst, Deliver,
         DeliveryFails, GateStep, OpenTurn, Call, Reply, ConsumeTurn, RecordTurn, Crash
<1>6. QED BY <1>1, <1>2, <1>3, <1>4, <1>5

(* A call begins, takes a step, or dies with the process.                  *)
LEMMA HandlerMoves ==
    ASSUME [SendNext]_allVars
    PROVE  \/ UNCHANGED handler
           \/ \E h \in Handlers, t \in Terminals, tool \in Tools, to \in Chats :
                 Call(h, t, tool, to)
           \/ \E h \in Handlers : /\ Busy(h) /\ Advance(h)
                                  /\ \/ Reply(h) \/ MarkTo(h) \/ MarkOwn(h)
                                     \/ ConsumeTurn(h) \/ RecordTurn(h)
           \/ Crash
BY DEF SendNext, allVars, sendVars, Arrive, SweepOnce, SkipBurst, DispatchBurst, Deliver,
       DeliveryFails, GateStep, OpenTurn, Reply, MarkTo, MarkOwn, ConsumeTurn,
       RecordTurn, At

LEMMA HandlerStep ==
    ASSUME TurnTypes, [SendNext]_allVars
    PROVE  handler' \in [Handlers -> Calls] /\ \A h \in Handlers : Proper(handler'[h])
<1>0. handler \in [Handlers -> Calls] /\ \A h \in Handlers : Proper(handler[h])
  BY DEF TurnTypes
<1>1. ASSUME NEW h \in Handlers, NEW t \in Terminals, NEW tool \in Tools,
             NEW to \in Chats, Call(h, t, tool, to)
      PROVE  handler' \in [Handlers -> Calls] /\ \A k \in Handlers : Proper(handler'[k])
  <2>1. Proper(handler'[h]) /\ handler' \in [Handlers -> Calls]
    BY <1>1, CallIsProper
  <2>2. \A k \in Handlers \ {h} : handler'[k] = handler[k]
    BY <1>0, <1>1 DEF Call
  <2>3. QED BY <1>0, <2>1, <2>2
<1>2. ASSUME NEW h \in Handlers, Busy(h), Advance(h)
      PROVE  handler' \in [Handlers -> Calls] /\ \A k \in Handlers : Proper(handler'[k])
  BY <1>0, <1>2, AdvanceStep
<1>3. CASE Crash
  <2>1. Idle \in Calls
    BY IdleIsProper DEF Proper
  <2>2. QED BY <1>3, <2>1, IdleIsProper DEF Crash
<1>4. QED BY <1>0, <1>1, <1>2, <1>3, HandlerMoves

LEMMA SweepStep ==
    ASSUME TurnTypes, [SendNext]_allVars
    PROVE  sweep' \subseteq Bursts /\ SweepIsReal'
<1>0. RowsKept /\ sweep \subseteq Bursts /\ SweepIsReal /\ msg \in [Msgs -> Rows] /\ RowsAreReal
  BY RowsStep DEF TurnTypes
<1>1. ASSUME sweep' \subseteq sweep
      PROVE  sweep' \subseteq Bursts /\ SweepIsReal'
  <2>1. \A b \in sweep : b.msgs \subseteq Msgs
    BY <1>0 DEF Bursts
  <2>2. QED BY <1>0, <1>1, <2>1 DEF SweepIsReal, RowsKept
<1>2. ASSUME SweepOnce
      PROVE  sweep' \subseteq Bursts /\ SweepIsReal'
  <2>1. sweep' = dueChats /\ msg' = msg
    BY <1>2 DEF SweepOnce
  <2>2. ASSUME NEW m \in Msgs, msg[m].st = "pending"
        PROVE  /\ DueBurst(m) \in Bursts /\ m \in DueBurst(m).msgs
               /\ \A k \in DueBurst(m).msgs : msg[k].st = "pending"
    BY <1>0, <2>2 DEF DueBurst, Bursts, Rows, RowsAreReal
  <2>3. ASSUME NEW b \in dueChats
        PROVE  b \in Bursts /\ b.msgs # {} /\ \A k \in b.msgs : msg[k].st # "absent"
    BY <2>2, <2>3 DEF dueChats
  <2>4. QED BY <2>1, <2>3 DEF SweepIsReal
<1>3. sweep' \subseteq sweep \/ SweepOnce
  BY DEF SendNext, allVars, sendVars, Arrive, SkipBurst, DispatchBurst, Deliver,
       DeliveryFails, GateStep, OpenTurn, Call, Reply, MarkTo, MarkOwn, ConsumeTurn,
       RecordTurn, Crash
<1>4. QED BY <1>1, <1>2, <1>3

LEMMA HistoryStep ==
    ASSUME TurnTypes, [SendNext]_allVars
    PROVE  /\ burst' \in [Dispatches -> SUBSET Msgs] /\ opened' \subseteq Msgs
           /\ replies' \in [Dispatches -> Nat] /\ opened \subseteq opened'
<1>0. /\ burst \in [Dispatches -> SUBSET Msgs] /\ opened \subseteq Msgs
      /\ replies \in [Dispatches -> Nat] /\ TypeOK /\ sweep \subseteq Bursts
  BY DEF TurnTypes
<1>1. ASSUME NEW d \in Dispatches, NEW n \in Nonces, NEW t \in Terminals,
             NEW level \in Levels, NEW b \in sweep, DispatchBurst(d, n, t, level, b)
      PROVE  /\ burst' \in [Dispatches -> SUBSET Msgs] /\ opened' = opened
             /\ replies' \in [Dispatches -> Nat]
  BY <1>0, <1>1 DEF DispatchBurst, Bursts
<1>2. ASSUME Deliver
      PROVE  burst' = burst /\ opened' \subseteq Msgs /\ opened \subseteq opened' /\ replies' = replies
  <2>1. injecting.nonce \in Nonces
    BY <1>2 DEF Deliver, InjectOk, TurnTypes, InjectingIsReal
  <2>2. byNonce[injecting.nonce] \in Dispatches \cup {NoDispatch}
    BY <1>0, <2>1 DEF TypeOK
  <2>3. QED BY <1>0, <1>2, <2>2 DEF Deliver
<1>3. ASSUME NEW t \in Terminals, OpenTurn(t)
      PROVE  burst' = burst /\ opened' \subseteq Msgs /\ opened \subseteq opened' /\ replies' = replies
  <2>1. byTerminal[t] \in Dispatches
    BY <1>0, <1>3 DEF OpenTurn, AdvanceToReady, TypeOK
  <2>2. QED BY <1>0, <1>3, <2>1 DEF OpenTurn
<1>4. ASSUME NEW h \in Handlers, Reply(h)
      PROVE  burst' = burst /\ opened' = opened /\ replies' \in [Dispatches -> Nat]
  <2> DEFINE d == handler[h].snap.d
  <2>1. [replies EXCEPT ![d] = replies[d] + 1] \in [Dispatches -> Nat]
    <3>1. CASE d \in Dispatches
      BY <1>0, <3>1
    <3>2. CASE d \notin Dispatches
      <4> HIDE DEF d
      <4>1. QED BY <1>0, <3>2
    <3>3. QED BY <3>1, <3>2
  <2>2. \/ replies' = [replies EXCEPT ![d] = replies[d] + 1]
        \/ replies' = replies
    BY <1>4 DEF Reply
  <2> HIDE DEF d
  <2>3. replies' \in [Dispatches -> Nat]
    BY <1>0, <2>1, <2>2
  <2>4. QED BY <1>4, <2>3 DEF Reply
<1>5. CASE Crash
  BY <1>0, <1>5 DEF Crash
<1>6. \/ \E d \in Dispatches, n \in Nonces, t \in Terminals, level \in Levels,
            b \in sweep : DispatchBurst(d, n, t, level, b)
      \/ Deliver
      \/ \E t \in Terminals : OpenTurn(t)
      \/ \E h \in Handlers : Reply(h)
      \/ Crash
      \/ UNCHANGED <<burst, opened, replies>>
  BY DEF SendNext, allVars, sendVars, Arrive, SkipBurst, SweepOnce,
         DeliveryFails, GateStep, Call, MarkTo, MarkOwn, ConsumeTurn, RecordTurn
<1>7. QED BY <1>0, <1>1, <1>2, <1>3, <1>4, <1>5, <1>6

LEMMA TurnTypesStep == ASSUME TurnTypes, [SendNext]_allVars PROVE TurnTypes'
BY BoundStaysReal, InjectingStaysReal, RowsStep, HandlerStep, SweepStep, HistoryStep DEF TurnTypes

-----------------------------------------------------------------------------
(* Whatever the tools, the passes and the messages do, the gate in the     *)
(* composition behaves as Gate says.                                       *)
THEOREM ImplementsGate == SendSpec => Spec
<1>1. SendInit => TurnTypes /\ Init
  BY TurnTypesInit DEF SendInit
<1>2. TurnTypes /\ [SendNext]_allVars => TurnTypes' /\ [Next]_vars
  BY TurnTypesStep, GateMoves
<1>3. QED BY <1>1, <1>2, PTL DEF SendSpec, Spec


-----------------------------------------------------------------------------
(* What a turn is about                                                    *)

\* Message m is one that a turn about job closes, pending or not.
OfJob(m, job) ==
    /\ msg[m].st # "absent"
    /\ msg[m].chat = job.chat
    /\ msg[m].ts <= job.ts
    /\ job.chat \in Groups /\ job.sender # NoSpeaker => msg[m].sender = job.sender

\* A dispatch is about every message of its burst.
BurstOfJob ==
    \A d \in Dispatches : \A m \in burst[d] : OfJob(m, disp[d].job)

\* So is, but for the time, what a pass read.
SweepOfChat ==
    \A b \in sweep : \A m \in b.msgs :
        /\ msg[m].chat = b.chat
        /\ b.sender # NoSpeaker => msg[m].sender = b.sender

\* A call that works for a dispatch holds its job and its nonce.
SnapOfDispatch ==
    \A h \in Handlers : handler[h].todo \in TurnTodos =>
        /\ disp[handler[h].snap.d].job = handler[h].snap.job
        /\ disp[handler[h].snap.d].nonce = handler[h].snap.nonce

Answered(d) == \A m \in burst[d] : msg[m].st = "handled"

(* draft and silent_act have closed the burst when they come to consume,   *)
(* and once its own chat is closed when nothing but that was to be done.   *)
ClosedFirst ==
    \A h \in Handlers :
        \/ handler[h].todo \in {<<"consume", "record">>, <<"consume">>}
        \/ handler[h].todo = <<"markOwn", "consume", "record">> /\ OwnChat(h)
        => Answered(handler[h].snap.d)

TurnInv == TurnTypes /\ BurstOfJob /\ SweepOfChat /\ SnapOfDispatch /\ ClosedFirst

(* The burst of a dispatch is the pass's, until the process dies.          *)
LEMMA BurstMoves ==
    ASSUME TurnTypes, [SendNext]_allVars
    PROVE  \/ burst' = burst /\ QuietGate
           \/ \E d \in Dispatches, n \in Nonces, t \in Terminals, level \in Levels,
                 b \in sweep :
                 DispatchBurst(d, n, t, level, b) /\ Register(d, n, t, level, JobOf(b))
           \/ Crash
<1>1. \/ burst' = burst
      \/ \E d \in Dispatches, n \in Nonces, t \in Terminals, level \in Levels,
            b \in sweep : DispatchBurst(d, n, t, level, b)
      \/ Crash
  BY DEF SendNext, allVars, sendVars, Arrive, SkipBurst, SweepOnce, Deliver, OpenTurn,
         DeliveryFails, GateStep, Call, Reply, MarkTo, MarkOwn, ConsumeTurn, RecordTurn
<1>2. ASSUME NEW d \in Dispatches, NEW n \in Nonces, NEW t \in Terminals,
             NEW level \in Levels, NEW b \in sweep, DispatchBurst(d, n, t, level, b)
      PROVE  Register(d, n, t, level, JobOf(b))
  BY <1>2 DEF DispatchBurst, JobOf
<1>3. CASE burst' = burst
  <2>1. \/ QuietGate
        \/ \E d \in Dispatches, n \in Nonces, t \in Terminals, level \in Levels,
              b \in sweep :
              DispatchBurst(d, n, t, level, b) /\ Register(d, n, t, level, JobOf(b))
        \/ Crash
    BY StepKinds
  <2>2. QED BY <1>3, <2>1
<1>4. QED BY <1>1, <1>2, <1>3

LEMMA SweepOfChatStep ==
    ASSUME TurnInv, [SendNext]_allVars
    PROVE  SweepOfChat'
<1>0. /\ RowsKept /\ sweep \subseteq Bursts /\ SweepIsReal /\ SweepOfChat
      /\ msg \in [Msgs -> Rows]
  BY RowsStep DEF TurnInv, TurnTypes
<1>1. ASSUME sweep' \subseteq sweep PROVE SweepOfChat'
  <2>1. \A b \in sweep : b.msgs \subseteq Msgs
    BY <1>0 DEF Bursts
  <2>2. QED BY <1>0, <1>1, <2>1 DEF SweepIsReal, RowsKept, SweepOfChat
<1>2. ASSUME SweepOnce PROVE SweepOfChat'
  <2>1. sweep' = dueChats /\ msg' = msg
    BY <1>2 DEF SweepOnce
  <2>2. ASSUME NEW b \in dueChats, NEW m \in b.msgs
        PROVE  msg[m].chat = b.chat /\ (b.sender # NoSpeaker => msg[m].sender = b.sender)
    BY <2>2 DEF dueChats, DueBurst
  <2>3. QED BY <2>1, <2>2 DEF SweepOfChat
<1>3. sweep' \subseteq sweep \/ SweepOnce
  BY DEF SendNext, allVars, sendVars, Arrive, SkipBurst, DispatchBurst, Deliver,
       DeliveryFails, GateStep, OpenTurn, Call, Reply, MarkTo, MarkOwn, ConsumeTurn,
       RecordTurn, Crash
<1>4. QED BY <1>1, <1>2, <1>3

LEMMA BurstOfJobStep ==
    ASSUME TurnInv, [SendNext]_allVars
    PROVE  BurstOfJob'
<1>0. /\ RowsKept /\ BurstOfJob /\ TurnTypes /\ SweepOfChat /\ TypeOK
      /\ burst \in [Dispatches -> SUBSET Msgs] /\ sweep \subseteq Bursts
  BY RowsStep DEF TurnInv, TurnTypes
<1>1. ASSUME NEW m \in Msgs, NEW job, OfJob(m, job)
      PROVE  /\ msg'[m].st # "absent" /\ msg'[m].chat = job.chat /\ msg'[m].ts <= job.ts
             /\ job.chat \in Groups /\ job.sender # NoSpeaker => msg'[m].sender = job.sender
  BY <1>0, <1>1 DEF OfJob, RowsKept
<1>2. CASE burst' = burst /\ QuietGate
  <2>1. \A d \in Dispatches : disp'[d].job = disp[d].job
    BY <1>0, <1>2, GateAssumption, QuietKeeps
  <2>2. QED BY <1>0, <1>1, <1>2, <2>1 DEF BurstOfJob, OfJob
<1>3. ASSUME NEW d \in Dispatches, NEW n \in Nonces, NEW t \in Terminals,
             NEW level \in Levels, NEW b \in sweep, DispatchBurst(d, n, t, level, b),
             Register(d, n, t, level, JobOf(b))
      PROVE  BurstOfJob'
  <2>1. /\ JobOf(b) \in Jobs
        /\ JobOf(b).chat = b.chat /\ JobOf(b).sender = b.sender
        /\ \A m \in b.msgs : msg[m].ts <= JobOf(b).ts
    BY <1>0, BurstJob
  <2>2. disp'[d].job = JobOf(b) /\ \A e \in Dispatches \ {d} : disp'[e] = disp[e]
    BY <1>0, <1>3, <2>1, GateAssumption, RegisterKeeps
  <2>3. burst' = [burst EXCEPT ![d] = b.msgs] /\ msg' = msg
    BY <1>3 DEF DispatchBurst
  <2>4. ASSUME NEW m \in b.msgs PROVE OfJob(m, JobOf(b))
    BY <1>0, <2>1 DEF OfJob, SweepOfChat, SweepIsReal, TurnTypes
  <2>5. \A m \in b.msgs : m \in Msgs
    BY <1>0 DEF Bursts
  <2> DEFINE j == JobOf(b)
  <2>6. disp'[d].job = j /\ \A m \in b.msgs : OfJob(m, j)
    BY <2>2, <2>4
  <2> HIDE DEF j
  <2>7. \A m \in burst'[d] :
           /\ msg'[m].st # "absent" /\ msg'[m].chat = j.chat /\ msg'[m].ts <= j.ts
           /\ j.chat \in Groups /\ j.sender # NoSpeaker => msg'[m].sender = j.sender
    BY <1>0, <1>1, <2>3, <2>5, <2>6
  <2>8. \A e \in Dispatches \ {d} : burst'[e] = burst[e]
    BY <1>0, <2>3
  <2>9. QED BY <1>0, <1>1, <2>2, <2>6, <2>7, <2>8 DEF BurstOfJob, OfJob
<1>4. CASE Crash
  BY <1>4 DEF Crash, BurstOfJob
<1>5. QED BY <1>0, <1>2, <1>3, <1>4, BurstMoves


LEMMA AdvanceKeeps ==
    ASSUME TurnTypes, NEW h \in Handlers, Busy(h), Advance(h),
           NEW k \in Handlers, handler'[k].todo # <<>>
    PROVE  /\ handler'[k].snap = handler[k].snap /\ handler'[k].tool = handler[k].tool
           /\ handler'[k].to = handler[k].to /\ handler'[k].term = handler[k].term
           /\ \/ k # h /\ handler'[k].todo = handler[k].todo
              \/ /\ k = h /\ handler'[k].todo = Tail(handler[k].todo)
                 /\ Len(handler[k].todo) # 1 /\ handler[k].todo \in TurnTodos
<1>0. handler \in [Handlers -> Calls] /\ \A i \in Handlers : Proper(handler[i])
  BY DEF TurnTypes
<1>1. /\ handler' = [handler EXCEPT ![h] = AfterStep(handler[h])]
      /\ handler[h].todo \in Todos /\ handler[h].todo # <<>>
  BY <1>0, AdvanceStep
<1>2. CASE k # h
  BY <1>0, <1>1, <1>2
<1>3. CASE k = h
  <2>1. handler'[k] = AfterStep(handler[k])
    BY <1>0, <1>1, <1>3
  <2>2. AfterStep(handler[k]) # Idle
    BY <2>1, IdleIsProper
  <2>3. Len(handler[k].todo) # 1
    BY <2>2 DEF AfterStep
  <2>4. handler[k].todo \in TurnTodos
    BY <1>1, <1>3, <2>3, TailStays
  <2>5. Proper(handler[k]) /\ handler[k].todo # <<>>
    BY <1>0, <1>1, <1>3
  <2>6. /\ handler'[k].todo = Tail(handler[k].todo)
        /\ handler'[k].tool = handler[k].tool /\ handler'[k].term = handler[k].term
        /\ handler'[k].to = handler[k].to /\ handler'[k].snap = handler[k].snap
    BY <2>1, <2>2, <2>5, ProperAfter
  <2>7. QED BY <1>3, <2>3, <2>4, <2>6
<1>4. QED BY <1>2, <1>3

(* A call is of one script: what it has to do tells its tool.              *)
LEMMA TodoOfTool ==
    ASSUME NEW r, Proper(r)
    PROVE  /\ r.todo # <<>> /\ r.todo \notin LoneTodos => r.todo \in TurnTodos
           /\ r.todo \in TurnTodos => r.todo # <<>> /\ r.todo \notin LoneTodos
<1>1. r.todo \in Todos
  BY DEF Proper, Calls
<1>2. \A x \in TurnTodos : x # <<>> /\ x \notin LoneTodos
  BY DEF LoneTodos, TurnTodos, SendTodos, DraftTodos, SilentTodos
<1>3. QED BY <1>1, <1>2 DEF Todos

(* What a call works with is what Active read.                             *)
LEMMA CallReads ==
    ASSUME TurnTypes, NEW h \in Handlers, NEW t \in Terminals, NEW tool \in Tools,
           NEW to \in Chats, Call(h, t, tool, to), handler'[h].todo \in TurnTodos
    PROVE  /\ byTerminal[t] # NoDispatch /\ byTerminal[t] \in Bound
           /\ handler'[h].snap.d = byTerminal[t]
           /\ handler'[h].snap.job = disp[byTerminal[t]].job
           /\ handler'[h].snap.nonce = disp[byTerminal[t]].nonce
           /\ handler'[h].tool = tool /\ handler'[h].to = to /\ handler'[h].term = t
           /\ handler'[h].todo \in {SendScript, DraftScript, SilentScript}
<1> DEFINE a == Active(t)
           r == [todo |-> Script(tool, a), tool |-> tool, term |-> t, to |-> to, snap |-> a]
<1>1. handler' = [handler EXCEPT ![h] = r] /\ handler \in [Handlers -> Calls]
  BY DEF Call, TurnTypes
<1>2. handler'[h] = r
  BY <1>1
<1>3. Proper(r)
  BY <1>2, CallIsProper
<1>4. r.todo \in TurnTodos
  BY <1>2
<1>5. r.snap.bound = TRUE /\ r.snap = a
  BY <1>3, <1>4 DEF Proper
<1>6. byTerminal[t] # NoDispatch
  BY <1>5 DEF Active, NoSnapshot
<1>7. a = [bound |-> TRUE, d |-> byTerminal[t], nonce |-> disp[byTerminal[t]].nonce,
           job |-> disp[byTerminal[t]].job]
  BY <1>6 DEF Active
<1>8. byTerminal[t] \in Bound
  BY <1>6 DEF TurnTypes, TypeOK, Bound
<1>9. r.todo \in {SendScript, DraftScript, SilentScript}
  BY <1>7 DEF Script
<1>10. /\ r.snap = a /\ r.tool = tool /\ r.to = to /\ r.term = t
  OBVIOUS
<1> HIDE DEF r
<1>11. QED BY <1>2, <1>6, <1>7, <1>8, <1>9, <1>10

(* A step is one of the gate's own, a registration, a call that begins or  *)
(* goes on, or a restart.                                                  *)
LEMMA CallMoves ==
    ASSUME TurnTypes, [SendNext]_allVars
    PROVE  \/ UNCHANGED handler /\ QuietGate
           \/ \E d \in Dispatches, n \in Nonces, t \in Terminals, level \in Levels,
                 b \in sweep :
                 DispatchBurst(d, n, t, level, b) /\ Register(d, n, t, level, JobOf(b))
           \/ \E h \in Handlers, t \in Terminals, tool \in Tools, to \in Chats :
                 Call(h, t, tool, to)
           \/ \E h \in Handlers : Busy(h) /\ Advance(h) /\ QuietGate
           \/ Crash
<1>0. \A h \in Handlers : Proper(handler[h])
  BY DEF TurnTypes
<1>1. ASSUME NEW h \in Handlers, Reply(h) \/ MarkTo(h) \/ MarkOwn(h)
                                  \/ ConsumeTurn(h) \/ RecordTurn(h)
      PROVE  QuietGate
  <2>1. CASE Reply(h) \/ MarkTo(h) \/ MarkOwn(h)
    BY <2>1 DEF Reply, MarkTo, MarkOwn, QuietGate
  <2>2. CASE ConsumeTurn(h) \/ RecordTurn(h)
    <3>1. Proper(handler[h]) /\ handler[h].todo # <<>>
      BY <1>0, <2>2 DEF ConsumeTurn, RecordTurn, At, Busy
    <3>2. Head(handler[h].todo) \in {"consume", "record"}
      BY <2>2 DEF ConsumeTurn, RecordTurn, At
    <3>3. handler[h].term \in Terminals /\ handler[h].snap.nonce \in Nonces
      BY <3>1, <3>2, WorksForATurn
    <3>4. QED BY <2>2, <3>3 DEF ConsumeTurn, RecordTurn, QuietGate
  <2>3. QED BY <1>1, <2>1, <2>2
<1>2. QED BY <1>1, StepKinds, HandlerMoves

LEMMA SnapOfDispatchStep ==
    ASSUME TurnInv, [SendNext]_allVars
    PROVE  SnapOfDispatch'
<1>0. /\ TurnTypes /\ SnapOfDispatch /\ TypeOK /\ handler \in [Handlers -> Calls]
      /\ \A h \in Handlers : Proper(handler[h])
      /\ \A h \in Handlers : handler[h].todo \in TurnTodos => handler[h].snap.d \in Dispatches
  BY DEF TurnInv, TurnTypes, Proper
<1>1. ASSUME NEW h \in Handlers, NEW t \in Terminals, NEW tool \in Tools,
             NEW to \in Chats, Call(h, t, tool, to)
      PROVE  SnapOfDispatch'
  <2>1. disp' = disp /\ \A k \in Handlers \ {h} : handler'[k] = handler[k]
    BY <1>0, <1>1 DEF Call, vars
  <2>2. handler'[h].todo \in TurnTodos =>
           /\ handler'[h].snap.job = disp[handler'[h].snap.d].job
           /\ handler'[h].snap.nonce = disp[handler'[h].snap.d].nonce
    BY <1>0, <1>1, CallReads
  <2>3. QED BY <1>0, <2>1, <2>2 DEF SnapOfDispatch
<1>2. ASSUME NEW h \in Handlers, Busy(h), Advance(h), QuietGate
      PROVE  SnapOfDispatch'
  <2>1. \A d \in Dispatches : disp'[d].nonce = disp[d].nonce /\ disp'[d].job = disp[d].job
    BY <1>0, <1>2, GateAssumption, QuietKeeps
  <2>2. ASSUME NEW k \in Handlers, handler'[k].todo \in TurnTodos
        PROVE  handler[k].todo \in TurnTodos /\ handler'[k].snap = handler[k].snap
    <3>1. handler'[k].todo # <<>>
      BY <2>2 DEF TurnTodos, SendTodos, DraftTodos, SilentTodos
    <3>2. QED BY <1>0, <1>2, <2>2, <3>1, AdvanceKeeps
  <2>3. QED BY <1>0, <2>1, <2>2 DEF SnapOfDispatch
<1>3. ASSUME NEW d \in Dispatches, NEW n \in Nonces, NEW t \in Terminals,
             NEW level \in Levels, NEW b \in sweep, DispatchBurst(d, n, t, level, b),
             Register(d, n, t, level, JobOf(b))
      PROVE  SnapOfDispatch'
  <2>1. JobOf(b) \in Jobs
    BY <1>0, BurstJob
  <2>2. \A e \in Dispatches \ {d} : disp'[e] = disp[e]
    BY <1>0, <1>3, <2>1, GateAssumption, RegisterKeeps
  <2>3. handler' = handler /\ \A h \in Handlers : handler[h].snap.d # d
    BY <1>3 DEF DispatchBurst
  <2>4. QED BY <1>0, <2>2, <2>3 DEF SnapOfDispatch
<1>4. ASSUME UNCHANGED handler, QuietGate PROVE SnapOfDispatch'
  <2>1. \A d \in Dispatches : disp'[d].nonce = disp[d].nonce /\ disp'[d].job = disp[d].job
    BY <1>0, <1>4, GateAssumption, QuietKeeps
  <2>2. QED BY <1>0, <1>4, <2>1 DEF SnapOfDispatch
<1>5. CASE Crash
  <2>1. \A h \in Handlers : handler'[h].todo \notin TurnTodos
    BY <1>5, IdleIsProper, TodoOfTool DEF Crash
  <2>2. QED BY <2>1 DEF SnapOfDispatch
<1>6. QED BY <1>0, <1>1, <1>2, <1>3, <1>4, <1>5, CallMoves

LEMMA MarkAnswers ==
    ASSUME TurnInv, NEW d \in Dispatches, NEW job, disp[d].job = job, burst' = burst,
           MarkHandled(MarkScope(job.chat, job.sender, job.ts))
    PROVE  \A m \in burst'[d] : msg'[m].st = "handled"
<1>1. /\ \A m \in burst[d] : m \in Msgs /\ OfJob(m, job)
      /\ msg \in [Msgs -> Rows]
  BY DEF TurnInv, TurnTypes, BurstOfJob
<1>2. \A m \in Msgs : msg'[m].st = IF m \in MarkScope(job.chat, job.sender, job.ts)
                                   THEN "handled" ELSE msg[m].st
  BY <1>1, MarkedRows
<1>3. \A m \in burst[d] : \/ m \in MarkScope(job.chat, job.sender, job.ts)
                          \/ msg[m].st = "handled"
  BY <1>1 DEF OfJob, MarkScope, Rows
<1>4. QED BY <1>1, <1>2, <1>3

LEMMA AnsweredStays ==
    ASSUME TurnInv, [SendNext]_allVars, NEW d \in Dispatches, burst'[d] = burst[d],
           Answered(d)
    PROVE  Answered(d)'
<1>1. RowsKept /\ burst[d] \subseteq Msgs
  BY RowsStep DEF TurnInv, TurnTypes
<1>2. QED BY <1>1 DEF Answered, RowsKept

LEMMA ClosedFirstStep ==
    ASSUME TurnInv, [SendNext]_allVars
    PROVE  ClosedFirst'
<1> DEFINE Done(r) ==
             \/ r.todo \in {<<"consume", "record">>, <<"consume">>}
             \/ r.todo = <<"markOwn", "consume", "record">> /\ r.snap.bound /\ r.to = r.snap.job.chat
<1>0. /\ TurnTypes /\ ClosedFirst /\ SnapOfDispatch /\ handler \in [Handlers -> Calls]
      /\ \A h \in Handlers : Proper(handler[h])
      /\ burst \in [Dispatches -> SUBSET Msgs] /\ sweep \subseteq Bursts
  BY DEF TurnInv, TurnTypes
<1>a. ASSUME NEW r, Done(r) PROVE r.todo \in TurnTodos /\ r.todo # <<>>
  <2>1. CASE r.todo = <<"consume", "record">>
    BY <2>1 DEF TurnTodos, DraftTodos
  <2>2. CASE r.todo = <<"consume">>
    BY <2>2 DEF TurnTodos, SilentTodos
  <2>3. CASE r.todo = <<"markOwn", "consume", "record">>
    BY <2>3 DEF TurnTodos, DraftTodos
  <2>4. QED BY <1>a, <2>1, <2>2, <2>3
<1>b. \A h \in Handlers : Done(handler[h]) => Answered(handler[h].snap.d)
  BY <1>0 DEF ClosedFirst, OwnChat
<1>c. ASSUME \A h \in Handlers : Done(handler'[h]) =>
                \A m \in burst'[handler'[h].snap.d] : msg'[m].st = "handled"
      PROVE  ClosedFirst'
  BY <1>c DEF ClosedFirst, OwnChat, Answered
<1>d. \A h \in Handlers : Done(handler[h]) => handler[h].snap.d \in Dispatches
  BY <1>0, <1>a DEF Proper
<1>e. ASSUME NEW d \in Dispatches, burst'[d] = burst[d], Answered(d)
      PROVE  \A m \in burst'[d] : msg'[m].st = "handled"
  BY <1>e, AnsweredStays DEF Answered
<1> HIDE DEF Done
<1>1. ASSUME UNCHANGED <<handler, burst>> PROVE ClosedFirst'
  BY <1>1, <1>b, <1>c, <1>d, <1>e
<1>2. ASSUME NEW d \in Dispatches, NEW n \in Nonces, NEW t \in Terminals,
             NEW level \in Levels, NEW b \in sweep, DispatchBurst(d, n, t, level, b)
      PROVE  ClosedFirst'
  <2>1. /\ handler' = handler /\ \A h \in Handlers : handler[h].snap.d # d
        /\ burst' = [burst EXCEPT ![d] = b.msgs]
    BY <1>2 DEF DispatchBurst
  <2>2. \A e \in Dispatches \ {d} : burst'[e] = burst[e]
    BY <1>0, <2>1
  <2>3. QED BY <2>1, <2>2, <1>b, <1>c, <1>d, <1>e
<1>3. ASSUME NEW h \in Handlers, NEW t \in Terminals, NEW tool \in Tools,
             NEW to \in Chats, Call(h, t, tool, to)
      PROVE  ClosedFirst'
  <2>1. burst' = burst /\ \A k \in Handlers \ {h} : handler'[k] = handler[k]
    BY <1>0, <1>3 DEF Call
  <2>2. ~Done(handler'[h])
    <3> SUFFICES ASSUME Done(handler'[h]) PROVE FALSE
      OBVIOUS
    <3>1. handler'[h].todo \in TurnTodos
      BY <1>a
    <3>2. handler'[h].todo \in {SendScript, DraftScript, SilentScript}
      BY <1>0, <1>3, <3>1, CallReads
    <3>3. QED BY <3>2 DEF Done, SendScript, DraftScript, SilentScript
  <2>3. QED BY <2>1, <2>2, <1>b, <1>c, <1>d, <1>e
<1>4. ASSUME NEW h \in Handlers, Busy(h), Advance(h), burst' = burst,
             \/ Reply(h) \/ MarkTo(h) \/ MarkOwn(h) \/ ConsumeTurn(h) \/ RecordTurn(h)
      PROVE  ClosedFirst'
  <2> DEFINE r == handler[h]
             snap == r.snap
             job == snap.job
  <2>1. ASSUME NEW k \in Handlers, k # h, Done(handler'[k])
        PROVE  \A m \in burst'[handler'[k].snap.d] : msg'[m].st = "handled"
    <3>1. handler'[k] = handler[k]
      BY <1>0, <1>4, <2>1 DEF Advance
    <3>2. QED BY <1>4, <2>1, <3>1, <1>b, <1>d, <1>e
  <2>2. ASSUME Done(handler'[h])
        PROVE  \A m \in burst'[handler'[h].snap.d] : msg'[m].st = "handled"
    <3>1. handler'[h].todo # <<>> /\ handler'[h].todo \in TurnTodos
      BY <2>2, <1>a
    <3>2. /\ handler'[h].snap = r.snap /\ handler'[h].to = r.to
          /\ handler'[h].todo = Tail(r.todo) /\ Len(r.todo) # 1 /\ r.todo \in TurnTodos
      BY <1>0, <1>4, <3>1, AdvanceKeeps
    <3>3. Proper(r) /\ r.todo \in Todos
      BY <1>0 DEF Proper, Calls
    <3>4. /\ snap.bound = TRUE /\ snap.d \in Dispatches /\ disp[snap.d].job = job
      BY <1>0, <3>2, <3>3 DEF Proper, SnapOfDispatch
    <3>5. \/ /\ r.todo = <<"markOwn", "consume", "record">> /\ Head(r.todo) = "markOwn"
          \/ /\ r.todo \in {<<"markTo", "markOwn", "consume", "record">>, <<"markTo", "consume">>}
             /\ Head(r.todo) = "markTo" /\ r.to = job.chat
      <4>1. Tail(r.todo) \in {<<"consume", "record">>, <<"consume">>}
              \/ (Tail(r.todo) = <<"markOwn", "consume", "record">> /\ r.to = job.chat)
        BY <2>2, <3>2 DEF Done
      <4>2. r.todo = <<"markTo", "consume">> => r.to = job.chat
        BY <3>3 DEF Proper, SilentTodos
      <4>3. r.todo # <<>>
        BY <3>2, <3>3, TodoOfTool
      <4> HIDE DEF r, job
      <4>4. QED BY <4>1, <4>2, <4>3, <3>2, <3>3, TailOf
    <3>6. CASE r.todo = <<"markOwn", "consume", "record">> /\ Head(r.todo) = "markOwn"
      <4>1. MarkOwn(h)
        BY <1>4, <3>6 DEF Reply, MarkTo, ConsumeTurn, RecordTurn, At
      <4>2. CASE OwnChat(h)
        <5>1. Answered(snap.d)
          BY <3>6, <4>2, <1>0 DEF ClosedFirst
        <5>2. QED BY <5>1, <3>2, <3>4, <1>4, <1>e
      <4>3. CASE ~OwnChat(h)
        <5>1. MarkHandled(MarkScope(job.chat, job.sender, job.ts))
          BY <4>1, <4>3 DEF MarkOwn
        <5>2. QED BY <5>1, <3>2, <3>4, <1>4, MarkAnswers
      <4>4. QED BY <4>2, <4>3
    <3>7. CASE Head(r.todo) = "markTo" /\ r.to = job.chat
      <4>1. MarkTo(h)
        BY <1>4, <3>7 DEF Reply, MarkOwn, ConsumeTurn, RecordTurn, At
      <4>2. OwnChat(h)
        BY <3>4, <3>7 DEF OwnChat
      <4>3. MarkHandled(MarkScope(job.chat, job.sender, job.ts))
        BY <4>1, <4>2, <3>7 DEF MarkTo
      <4>4. QED BY <4>3, <3>2, <3>4, <1>4, MarkAnswers
    <3>8. QED BY <3>5, <3>6, <3>7
  <2>3. QED BY <2>1, <2>2, <1>c
<1>5. CASE Crash
  <2>1. \A h \in Handlers : handler'[h] = Idle
    BY <1>5 DEF Crash
  <2>2. ~Done(Idle)
    BY IdleIsProper, <1>a
  <2>3. QED BY <2>1, <2>2, <1>c
<1>6. \/ UNCHANGED <<handler, burst>>
      \/ \E d \in Dispatches, n \in Nonces, t \in Terminals, level \in Levels,
            b \in sweep : DispatchBurst(d, n, t, level, b)
      \/ \E h \in Handlers, t \in Terminals, tool \in Tools, to \in Chats :
            Call(h, t, tool, to)
      \/ \E h \in Handlers : /\ Busy(h) /\ Advance(h) /\ burst' = burst
                             /\ \/ Reply(h) \/ MarkTo(h) \/ MarkOwn(h)
                                \/ ConsumeTurn(h) \/ RecordTurn(h)
      \/ Crash
  BY DEF SendNext, allVars, sendVars, Arrive, SweepOnce, SkipBurst, Deliver, DeliveryFails,
         GateStep, OpenTurn, Reply, MarkTo, MarkOwn, ConsumeTurn, RecordTurn, At
<1>7. QED BY <1>1, <1>2, <1>3, <1>4, <1>5, <1>6

LEMMA TurnInvInit == ASSUME SendInit PROVE TurnInv
<1>1. TurnTypes
  BY TurnTypesInit
<1>2. \A h \in Handlers : handler[h] = Idle
  BY DEF SendInit
<1>3. <<>> \notin TurnTodos
  BY DEF TurnTodos, SendTodos, DraftTodos, SilentTodos
<1>4. SnapOfDispatch
  BY <1>2, <1>3, IdleIsProper DEF SnapOfDispatch
<1>5. ClosedFirst
  BY DEF SendInit, ClosedFirst, Answered, Idle, NoSnapshot
<1>6. QED BY <1>1, <1>4, <1>5 DEF SendInit, TurnInv, BurstOfJob, SweepOfChat

LEMMA TurnInvStep == ASSUME TurnInv, [SendNext]_allVars PROVE TurnInv'
<1>1. TurnTypes
  BY DEF TurnInv
<1>2. QED
  BY <1>1, TurnTypesStep, BurstOfJobStep, SweepOfChatStep, SnapOfDispatchStep, ClosedFirstStep
  DEF TurnInv

(* draft and silent_act consume a turn only once every message of its      *)
(* burst is closed, whichever handlers, sweeps and passes run in between.  *)
THEOREM FreesClosedHolds == SendSpec => FreesClosed
<1> DEFINE Frees ==
      \A h \in Handlers :
        ConsumeTurn(h) /\ handler[h].tool \in {"draft", "silent"} =>
            \A m \in burst[handler[h].snap.d] : msg[m].st # "pending"
<1>1. SendInit => TurnInv
  BY TurnInvInit
<1>2. TurnInv /\ [SendNext]_allVars => TurnInv'
  BY TurnInvStep
<1>3. TurnInv => Frees
  <2> SUFFICES ASSUME TurnInv, NEW h \in Handlers, ConsumeTurn(h),
                      handler[h].tool \in {"draft", "silent"}
               PROVE  Answered(handler[h].snap.d)
    BY DEF Answered
  <2>1. Proper(handler[h]) /\ handler[h].todo \in Todos /\ handler[h].todo # <<>>
    BY DEF TurnInv, TurnTypes, Proper, Calls, ConsumeTurn, At, Busy
  <2>2. Head(handler[h].todo) = "consume"
    BY DEF ConsumeTurn, At
  <2>3. handler[h].todo \in {<<"consume", "record", "markTo", "markOwn">>,
                             <<"consume", "record">>, <<"consume">>}
    BY <2>1, <2>2, TodoTable
  <2>4. handler[h].todo # <<"consume", "record", "markTo", "markOwn">>
    BY <2>1 DEF Proper, SendTodos
  <2>5. QED BY <2>3, <2>4 DEF TurnInv, ClosedFirst
<1>4. QED BY <1>1, <1>2, <1>3, PTL DEF SendSpec, FreesClosed


-----------------------------------------------------------------------------
(* Whose nonce it is                                                       *)

\* No two bound dispatches carry the same nonce.
NoncesApart ==
    \A d, e \in Bound : disp[d].nonce = disp[e].nonce => d = e

\* Only the dispatch a call read is bound under the nonce it holds.
NonceOwn ==
    \A h \in Handlers : handler[h].todo \in TurnTodos =>
        \A d \in Bound : disp[d].nonce = handler[h].snap.nonce => d = handler[h].snap.d

LEMMA NonceOwnStep ==
    ASSUME TurnInv, NoncesApart, NonceOwn, ~NonceReuse, [SendNext]_allVars
    PROVE  NoncesApart' /\ NonceOwn'
<1>0. /\ TurnTypes /\ TypeOK /\ handler \in [Handlers -> Calls] /\ Bound \subseteq Dispatches
  BY DEF TurnInv, TurnTypes, Bound
<1>1. ASSUME QuietGate
      PROVE  NoncesApart' /\ \A d \in Bound' : d \in Bound /\ disp'[d].nonce = disp[d].nonce
  <2>1. /\ \A d \in Dispatches : disp'[d].nonce = disp[d].nonce
        /\ Bound' \subseteq Bound
    BY <1>0, <1>1, GateAssumption, QuietKeeps
  <2>2. QED BY <1>0, <2>1 DEF NoncesApart
<1>2. ASSUME NEW h \in Handlers, NEW t \in Terminals, NEW tool \in Tools,
             NEW to \in Chats, Call(h, t, tool, to)
      PROVE  NoncesApart' /\ NonceOwn'
  <2>1. QuietGate /\ \A k \in Handlers \ {h} : handler'[k] = handler[k]
    BY <1>0, <1>2 DEF Call, QuietGate
  <2>2. NoncesApart' /\ \A d \in Bound' : d \in Bound /\ disp'[d].nonce = disp[d].nonce
    BY <1>1, <2>1
  <2>3. handler'[h].todo \in TurnTodos =>
           /\ handler'[h].snap.d \in Bound
           /\ handler'[h].snap.nonce = disp[handler'[h].snap.d].nonce
    BY <1>0, <1>2, CallReads
  <2>4. QED BY <2>1, <2>2, <2>3 DEF NoncesApart, NonceOwn
<1>3. ASSUME NEW h \in Handlers, Busy(h), Advance(h), QuietGate
      PROVE  NoncesApart' /\ NonceOwn'
  <2>1. NoncesApart' /\ \A d \in Bound' : d \in Bound /\ disp'[d].nonce = disp[d].nonce
    BY <1>1, <1>3
  <2>2. ASSUME NEW k \in Handlers, handler'[k].todo \in TurnTodos
        PROVE  handler[k].todo \in TurnTodos /\ handler'[k].snap = handler[k].snap
    <3>1. handler'[k].todo # <<>>
      BY <2>2 DEF TurnTodos, SendTodos, DraftTodos, SilentTodos
    <3>2. QED BY <1>0, <1>3, <2>2, <3>1, AdvanceKeeps
  <2>3. QED BY <2>1, <2>2 DEF NonceOwn
<1>4. ASSUME NEW d \in Dispatches, NEW n \in Nonces, NEW t \in Terminals,
             NEW level \in Levels, NEW b \in sweep, DispatchBurst(d, n, t, level, b),
             Register(d, n, t, level, JobOf(b))
      PROVE  NoncesApart' /\ NonceOwn'
  <2>1. JobOf(b) \in Jobs
    BY <1>0, BurstJob
  <2>2. /\ disp'[d].nonce = n /\ \A e \in Dispatches \ {d} : disp'[e] = disp[e]
        /\ d \notin Bound /\ Bound' \subseteq Bound \cup {d}
        /\ \A e \in Bound : disp[e].nonce # n
    BY <1>0, <1>4, <2>1, GateAssumption, RegisterKeeps
  <2>3. handler' = handler /\ \A h \in Handlers : handler[h].snap.nonce # n
    BY <1>4 DEF DispatchBurst
  <2>4. QED BY <1>0, <2>2, <2>3 DEF NoncesApart, NonceOwn
<1>5. ASSUME UNCHANGED handler, QuietGate PROVE NoncesApart' /\ NonceOwn'
  <2>1. NoncesApart' /\ \A d \in Bound' : d \in Bound /\ disp'[d].nonce = disp[d].nonce
    BY <1>1, <1>5
  <2>2. QED BY <1>5, <2>1 DEF NonceOwn
<1>6. CASE Crash
  <2>1. Restart
    BY <1>6 DEF Crash
  <2>2. Bound' = {}
    BY <2>1, GateAssumption, RestartKeeps
  <2>3. QED BY <2>2 DEF NoncesApart, NonceOwn
<1>7. QED
  BY <1>2, <1>3, <1>4, <1>5, <1>6, <1>0, CallMoves

LEMMA NonceOwnInit == ASSUME SendInit PROVE NoncesApart /\ NonceOwn
<1>1. Bound = {}
  BY GateAssumption DEF SendInit, Init, Bound, GateAssumption
<1>2. QED BY <1>1 DEF NoncesApart, NonceOwn

(* A handler's consume closes the dispatch it validated and no other,      *)
(* although its turn may have gone stale and a newer dispatch, or one of   *)
(* another chat, may hold the terminal by then: as long as newNonce draws  *)
(* no nonce that a bound dispatch or a handler still carries.              *)
THEOREM ConsumeIsOwnHolds ==
    ASSUME ~NonceReuse
    PROVE  SendSpec => ConsumeIsOwn
<1> DEFINE IInv == TurnInv /\ NoncesApart /\ NonceOwn
           Own == \A h \in Handlers, d \in Dispatches :
                    /\ ConsumeTurn(h)
                    /\ disp[d].state # "done"
                    /\ disp'[d].state = "done"
                    => d = handler[h].snap.d
<1>1. SendInit => IInv
  BY TurnInvInit, NonceOwnInit
<1>2. IInv /\ [SendNext]_allVars => IInv'
  BY TurnInvStep, NonceOwnStep
<1>3. IInv => Own
  <2> SUFFICES ASSUME IInv, NEW h \in Handlers, NEW d \in Dispatches, ConsumeTurn(h),
                      disp[d].state # "done", disp'[d].state = "done"
               PROVE  d = handler[h].snap.d
    OBVIOUS
  <2>1. Proper(handler[h]) /\ handler[h].todo # <<>> /\ Head(handler[h].todo) = "consume"
    BY DEF TurnInv, TurnTypes, ConsumeTurn, At, Busy
  <2>2. handler[h].todo \in TurnTodos /\ handler[h].term \in Terminals
    BY <2>1, WorksForATurn
  <2>3. ConsumeEffect(handler[h].term, handler[h].snap.nonce)
    BY DEF ConsumeTurn, Consume
  <2>4. /\ d = byTerminal[handler[h].term]
        /\ disp[d].nonce = handler[h].snap.nonce
    BY <2>3 DEF ConsumeEffect, gateVars, TurnInv, TurnTypes, TypeOK, Dispatch
  <2>5. d \in Bound
    BY <2>2, <2>4 DEF Bound
  <2>6. QED BY <2>2, <2>4, <2>5 DEF NonceOwn
<1>4. QED BY <1>1, <1>2, <1>3, PTL DEF SendSpec, ConsumeIsOwn


-----------------------------------------------------------------------------
(* What a call may close                                                   *)

Scope(job) == MarkScope(job.chat, job.sender, job.ts)

\* Whatever arrives from now on is later than ts.
Past(ts) == \E m \in Msgs : msg[m].st # "absent" /\ ts <= msg[m].ts

\* An agent was let at all that marking job would close.
Shown(job) == Past(job.ts) /\ Scope(job) \subseteq opened

\* Once opened, dispatch d will have shown all that marking its job would close.
Covered(d) == Past(disp[d].job.ts) /\ Scope(disp[d].job) \subseteq burst[d]

\* A pass read all that is pending of a chat, or of a speaker, up to its last.
SweepFull ==
    \A b \in sweep : \A m \in Msgs, k \in b.msgs :
        /\ msg[m].st = "pending" /\ msg[m].chat = b.chat /\ msg[m].ts <= msg[k].ts
        /\ b.chat \in Groups /\ b.sender # NoSpeaker => msg[m].sender = b.sender
        => m \in b.msgs

TurnsShown ==
    \A d \in Bound : IF disp[d].state \in {"ready", "done"} THEN Shown(disp[d].job)
                                                            ELSE Covered(d)

CallsShown ==
    \A h \in Handlers : handler[h].todo \in TurnTodos =>
        /\ Shown(handler[h].snap.job)
        /\ handler[h].to = handler[h].snap.job.chat

SwallowInv == NothingSwallowed /\ SweepFull /\ TurnsShown /\ CallsShown

(* Nothing that arrives carries a time that is past.                       *)
LEMMA ArrivesLater ==
    ASSUME TurnTypes, ~SameSecond, NEW m \in Msgs, NEW c \in Chats, NEW s \in Speakers,
           NEW ts \in Times, Arrive(m, c, s, ts), NEW k \in Msgs, msg[k].st # "absent"
    PROVE  msg[k].ts < ts
<1> DEFINE S == {0} \cup {msg[i].ts : i \in Present}
<1>1. msg \in [Msgs -> Rows]
  BY DEF TurnTypes
<1>2. S \in SUBSET (0..Cardinality(Msgs)) /\ S # {}
  BY <1>1, CountIsNat DEF Present, Rows, Times
<1>3. Max(S) \in S /\ \A y \in S : y <= Max(S)
  BY <1>2, CountIsNat, MaxOfTimes
<1>4. ts >= Max(S) + 1
  BY DEF Arrive, LastTS
<1>5. msg[k].ts \in S
  BY DEF Present
<1>6. msg[k].ts <= Max(S) /\ msg[k].ts \in Nat /\ Max(S) \in Nat /\ ts \in Nat
  <2>1. ts \in Nat
    BY CountIsNat DEF Times
  <2> HIDE DEF S
  <2>2. \A y \in S : y \in Nat
    BY <1>2, CountIsNat
  <2>3. QED BY <1>3, <1>5, <2>1, <2>2
<1> HIDE DEF S
<1>7. QED BY <1>4, <1>6

(* A message that was not there before has arrived in this step.           *)
LEMMA ArrivalOnly ==
    ASSUME TurnTypes, [SendNext]_allVars, NEW m \in Msgs, msg[m].st = "absent",
           msg'[m].st # "absent"
    PROVE  \E n \in Msgs, c \in Chats, s \in Speakers, ts \in Times : Arrive(n, c, s, ts)
<1>1. ASSUME NEW h \in Handlers, MarkTo(h) \/ MarkOwn(h) PROVE msg'[m].st = msg[m].st
  <2>1. \A c, s, ts : m \notin MarkScope(c, s, ts)
    BY DEF MarkScope
  <2>2. QED BY <1>1, <2>1 DEF MarkTo, MarkOwn, MarkHandled
<1>2. \/ \E n \in Msgs, c \in Chats, s \in Speakers, ts \in Times : Arrive(n, c, s, ts)
      \/ \E h \in Handlers : MarkTo(h) \/ MarkOwn(h)
      \/ UNCHANGED msg
  BY DEF SendNext, allVars, sendVars, SweepOnce, SkipBurst, DispatchBurst, Deliver,
         DeliveryFails, GateStep, OpenTurn, Call, Reply, ConsumeTurn, RecordTurn, Crash
<1>3. QED BY <1>1, <1>2

(* What marking a job would close never grows once its time is past.       *)
LEMMA ScopeShrinks ==
    ASSUME TurnTypes, ~SameSecond, [SendNext]_allVars, NEW job \in Jobs, Past(job.ts)
    PROVE  /\ \E m \in Msgs : msg'[m].st # "absent" /\ job.ts <= msg'[m].ts
           /\ \A m \in Msgs :
                 /\ msg'[m].st = "pending" /\ msg'[m].chat = job.chat
                 /\ msg'[m].ts <= job.ts
                 /\ (job.chat \in Groups /\ job.sender # NoSpeaker
                       => msg'[m].sender = job.sender)
                 => m \in Scope(job)
<1>0. RowsKept /\ msg \in [Msgs -> Rows] /\ msg' \in [Msgs -> Rows]
  BY RowsStep DEF TurnTypes
<1>1. PICK k \in Msgs : msg[k].st # "absent" /\ job.ts <= msg[k].ts
  BY DEF Past
<1>2. msg'[k].st # "absent" /\ job.ts <= msg'[k].ts
  BY <1>0, <1>1 DEF RowsKept
<1>3. ASSUME NEW m \in Msgs, msg'[m].st = "pending", msg[m].st = "absent"
      PROVE  ~(msg'[m].ts <= job.ts)
  <2>1. PICK n \in Msgs, c \in Chats, s \in Speakers, ts \in Times : Arrive(n, c, s, ts)
    BY <1>3, <1>0, ArrivalOnly
  <2>2. m = n /\ msg'[m].ts = ts
    BY <1>0, <1>3, <2>1 DEF Arrive
  <2>3. msg[k].ts < ts
    BY <1>1, <2>1, ArrivesLater
  <2>4. msg[k].ts \in Nat /\ ts \in Nat /\ job.ts \in Nat
    BY <1>0, JobsAreTurns, CountIsNat DEF Rows, Times, TurnJobs
  <2>5. QED BY <1>1, <2>2, <2>3, <2>4
<1>4. ASSUME NEW m \in Msgs, msg'[m].st = "pending", msg[m].st # "absent"
      PROVE  /\ msg[m].st = "pending" /\ msg'[m].chat = msg[m].chat
             /\ msg'[m].ts = msg[m].ts /\ msg'[m].sender = msg[m].sender
  BY <1>0, <1>4 DEF RowsKept, Rows
<1>5. QED BY <1>1, <1>2, <1>3, <1>4 DEF Scope, MarkScope


LEMMA ShownStays ==
    ASSUME TurnTypes, ~SameSecond, [SendNext]_allVars, NEW job \in Jobs, Shown(job)
    PROVE  Shown(job)'
<1>1. opened \subseteq opened'
  BY HistoryStep
<1>2. Past(job.ts) /\ Scope(job) \subseteq opened
  BY DEF Shown
<1>3. /\ \E m \in Msgs : msg'[m].st # "absent" /\ job.ts <= msg'[m].ts
      /\ \A m \in Msgs :
            /\ msg'[m].st = "pending" /\ msg'[m].chat = job.chat
            /\ msg'[m].ts <= job.ts
            /\ (job.chat \in Groups /\ job.sender # NoSpeaker
                  => msg'[m].sender = job.sender)
            => m \in Scope(job)
  BY <1>2, ScopeShrinks
<1>4. QED BY <1>1, <1>2, <1>3 DEF Shown, Past, Scope, MarkScope

(* A burst that covers its job goes on covering it.                        *)
LEMMA CoveredStays ==
    ASSUME TurnTypes, ~SameSecond, [SendNext]_allVars, NEW d \in Dispatches,
           disp[d].job \in Jobs, disp'[d].job = disp[d].job, burst'[d] = burst[d], Covered(d)
    PROVE  Covered(d)'
<1> DEFINE job == disp[d].job
<1>1. Past(job.ts) /\ Scope(job) \subseteq burst[d]
  BY DEF Covered
<1>2. PICK j \in Jobs : j = job /\ j = disp'[d].job
  OBVIOUS
<1>3. Past(j.ts) /\ Scope(j) \subseteq burst[d]
  BY <1>1, <1>2
<1>4. /\ \E m \in Msgs : msg'[m].st # "absent" /\ j.ts <= msg'[m].ts
      /\ \A m \in Msgs :
            /\ msg'[m].st = "pending" /\ msg'[m].chat = j.chat
            /\ msg'[m].ts <= j.ts
            /\ (j.chat \in Groups /\ j.sender # NoSpeaker
                  => msg'[m].sender = j.sender)
            => m \in Scope(j)
  BY <1>3, ScopeShrinks
<1>5. QED BY <1>2, <1>3, <1>4 DEF Covered, Past, Scope, MarkScope

LEMMA SweepFullStep ==
    ASSUME TurnInv, SweepFull, ~SameSecond, [SendNext]_allVars
    PROVE  SweepFull'
<1>0. /\ TurnTypes /\ RowsKept /\ sweep \subseteq Bursts /\ SweepIsReal
      /\ msg \in [Msgs -> Rows] /\ msg' \in [Msgs -> Rows]
  BY RowsStep DEF TurnInv, TurnTypes
<1>1. ASSUME sweep' \subseteq sweep PROVE SweepFull'
  <2> SUFFICES ASSUME NEW b \in sweep, NEW m \in Msgs, NEW k \in b.msgs,
                      msg'[m].st = "pending", msg'[m].chat = b.chat,
                      msg'[m].ts <= msg'[k].ts,
                      b.chat \in Groups /\ b.sender # NoSpeaker => msg'[m].sender = b.sender
               PROVE  m \in b.msgs
    BY <1>1 DEF SweepFull
  <2>1. k \in Msgs /\ msg[k].st # "absent" /\ msg'[k].ts = msg[k].ts
    BY <1>0 DEF Bursts, SweepIsReal, RowsKept
  <2>2. CASE msg[m].st = "absent"
    <3>1. PICK n \in Msgs, c \in Chats, s \in Speakers, ts \in Times : Arrive(n, c, s, ts)
      BY <1>0, <2>2, ArrivalOnly
    <3>2. m = n /\ msg'[m].ts = ts
      BY <1>0, <2>2, <3>1 DEF Arrive
    <3>3. msg[k].ts < ts
      BY <1>0, <2>1, <3>1, ArrivesLater
    <3>4. msg[k].ts \in Nat /\ ts \in Nat
      BY <1>0, <2>1, CountIsNat DEF Rows, Times
    <3>5. QED BY <2>1, <3>2, <3>3, <3>4
  <2>3. CASE msg[m].st # "absent"
    BY <1>0, <2>1, <2>3 DEF RowsKept, SweepFull, Rows
  <2>4. QED BY <2>2, <2>3
<1>2. ASSUME SweepOnce PROVE SweepFull'
  <2>1. sweep' = dueChats /\ msg' = msg
    BY <1>2 DEF SweepOnce
  <2>2. ASSUME NEW b \in dueChats, NEW m \in Msgs,
               msg[m].st = "pending", msg[m].chat = b.chat,
               b.chat \in Groups /\ b.sender # NoSpeaker => msg[m].sender = b.sender
        PROVE  m \in b.msgs
    <3>1. PICK i \in Msgs : b = DueBurst(i)
      BY <2>2 DEF dueChats
    <3>2. b.sender # NoSpeaker => b.chat \in Groups
      BY <3>1 DEF DueBurst
    <3>3. QED BY <2>2, <3>1, <3>2 DEF DueBurst
  <2>3. QED BY <2>1, <2>2 DEF SweepFull
<1>3. sweep' \subseteq sweep \/ SweepOnce
  BY DEF SendNext, allVars, sendVars, Arrive, SkipBurst, DispatchBurst, Deliver,
       DeliveryFails, GateStep, OpenTurn, Call, Reply, MarkTo, MarkOwn, ConsumeTurn,
       RecordTurn, Crash
<1>4. QED BY <1>1, <1>2, <1>3


\* No turn is opened, consumed or registered.
Calm ==
    /\ QuietGate /\ burst' = burst
    /\ \A d \in Dispatches : \/ disp'[d].state = disp[d].state
                             \/ disp[d].state = "locked" /\ disp'[d].state = "noting"

LEMMA CalmOr ==
    ASSUME TurnTypes, [SendNext]_allVars
    PROVE  \/ Calm
           \/ \E t \in Terminals : OpenTurn(t)
           \/ \E h \in Handlers : ConsumeTurn(h)
           \/ \E d \in Dispatches, n \in Nonces, t \in Terminals, level \in Levels,
                 b \in sweep :
                 DispatchBurst(d, n, t, level, b) /\ Register(d, n, t, level, JobOf(b))
           \/ Crash
<1> DEFINE States1 == \A d \in Dispatches :
                         \/ disp'[d].state = disp[d].state
                         \/ disp[d].state = "locked" /\ disp'[d].state = "noting"
<1>0. disp \in [Dispatches -> Dispatch]
  BY DEF TurnTypes, TypeOK
<1>1. ASSUME GateStep PROVE States1
  <2>1. ASSUME NEW d \in Dispatches, Age(d) PROVE States1
    BY <1>0, <2>1 DEF Age, Dispatch
  <2>2. ASSUME Sweep PROVE States1
    BY <2>2 DEF Sweep
  <2>3. ASSUME NEW t \in Terminals, NEW n \in Nonces, GetInstructions(t, n) PROVE States1
    BY <1>0, <2>3 DEF GetInstructions, Dispatch
  <2>4. ASSUME NEW t \in Terminals, NEW tok \in Dispatches \cup {NoDispatch}, Unlock(t, tok)
        PROVE  States1
    BY <1>0, <2>4 DEF Unlock, Dispatch
  <2>5. QED BY <1>1, <2>1, <2>2, <2>3, <2>4 DEF GateStep
<1>2. ASSUME NEW h \in Handlers, RecordTurn(h) PROVE States1
  <2>1. CASE UNCHANGED disp
    BY <2>1
  <2>2. CASE ~UNCHANGED disp
    <3>1. disp' = [disp EXCEPT ![byTerminal[handler[h].term]].idle = FALSE,
                     ![byTerminal[handler[h].term]].sends = IF @ < SendBound THEN @ + 1 ELSE @]
      BY <1>2, <2>2 DEF RecordTurn, RecordSend, RecordSendEffect, gateVars
    <3>2. QED BY <1>0, <3>1 DEF Dispatch
  <2>3. QED BY <2>1, <2>2
<1>3. ASSUME UNCHANGED disp PROVE States1
  BY <1>3
<1>4. \/ States1 \/ \E t \in Terminals : OpenTurn(t)
      \/ \E h \in Handlers : ConsumeTurn(h)
      \/ \E d \in Dispatches, n \in Nonces, t \in Terminals, level \in Levels,
            b \in sweep : DispatchBurst(d, n, t, level, b)
      \/ Crash
  <2>1. \/ GateStep \/ UNCHANGED disp \/ \E t \in Terminals : OpenTurn(t)
        \/ \E h \in Handlers : RecordTurn(h)
        \/ \E h \in Handlers : ConsumeTurn(h)
        \/ \E d \in Dispatches, n \in Nonces, t \in Terminals, level \in Levels,
              b \in sweep : DispatchBurst(d, n, t, level, b)
        \/ Crash
    BY DEF SendNext, allVars, vars, gateVars, Arrive, SkipBurst, SweepOnce, Deliver, DeliveryFails,
           InjectOk, InjectFail, CancelDispatch, Call, Reply, MarkTo, MarkOwn
  <2>2. QED BY <1>1, <1>2, <1>3, <2>1
<1>5. \/ burst' = burst /\ QuietGate
      \/ \E d \in Dispatches, n \in Nonces, t \in Terminals, level \in Levels,
            b \in sweep :
            DispatchBurst(d, n, t, level, b) /\ Register(d, n, t, level, JobOf(b))
      \/ Crash
  BY BurstMoves
<1>6. ASSUME NEW d \in Dispatches, NEW n \in Nonces, NEW t \in Terminals,
             NEW level \in Levels, NEW b \in sweep, DispatchBurst(d, n, t, level, b)
      PROVE  Register(d, n, t, level, JobOf(b))
  BY <1>6 DEF DispatchBurst, JobOf
<1> HIDE DEF States1
<1>7. QED BY <1>4, <1>5, <1>6 DEF Calm, States1

(* A message is closed by the marks of a call that works for its turn.     *)
LEMMA ClosedByACall ==
    ASSUME TurnTypes, CallsShown, [SendNext]_allVars, NEW m \in Msgs,
           msg[m].st # "handled", msg'[m].st = "handled"
    PROVE  \E h \in Handlers : handler[h].todo \in TurnTodos /\ m \in Scope(handler[h].snap.job)
<1>0. msg \in [Msgs -> Rows]
  BY DEF TurnTypes
<1>1. ASSUME NEW h \in Handlers, MarkTo(h) \/ MarkOwn(h)
      PROVE  handler[h].todo \in TurnTodos /\ m \in Scope(handler[h].snap.job)
  <2>1. Proper(handler[h]) /\ handler[h].todo # <<>>
    BY <1>1 DEF MarkTo, MarkOwn, At, Busy, TurnTypes
  <2>2. Head(handler[h].todo) \in {"markTo", "markOwn"}
    BY <1>1 DEF MarkTo, MarkOwn, At
  <2>3. handler[h].todo \in TurnTodos /\ handler[h].snap.bound = TRUE
    BY <2>1, <2>2, WorksForATurn
  <2>4. OwnChat(h)
    BY <2>3 DEF OwnChat, CallsShown
  <2>5. MarkTo(h) /\ MarkHandled(Scope(handler[h].snap.job))
    BY <1>1, <2>4 DEF MarkTo, MarkOwn, OwnChat, Scope
  <2>6. QED BY <1>0, <2>3, <2>5, MarkedRows
<1>2. ASSUME NEW n \in Msgs, NEW c \in Chats, NEW s \in Speakers, NEW ts \in Times,
             Arrive(n, c, s, ts)
      PROVE  FALSE
  <2>1. msg' = [msg EXCEPT ![n] = [chat |-> c, sender |-> s, ts |-> ts, st |-> "pending"]]
    BY <1>2 DEF Arrive
  <2>2. QED BY <1>0, <2>1
<1>3. \/ \E n \in Msgs, c \in Chats, s \in Speakers, ts \in Times : Arrive(n, c, s, ts)
      \/ \E h \in Handlers : MarkTo(h) \/ MarkOwn(h)
      \/ UNCHANGED msg
  BY DEF SendNext, allVars, sendVars, SweepOnce, SkipBurst, DispatchBurst, Deliver,
         DeliveryFails, GateStep, OpenTurn, Call, Reply, ConsumeTurn, RecordTurn, Crash
<1>4. QED BY <1>1, <1>2, <1>3

LEMMA NothingSwallowedStep ==
    ASSUME TurnTypes, CallsShown, NothingSwallowed, [SendNext]_allVars
    PROVE  NothingSwallowed'
<1>1. opened \subseteq opened'
  BY HistoryStep
<1>2. ASSUME NEW m \in Msgs, msg'[m].st = "handled" PROVE m \in opened
  <2>1. CASE msg[m].st = "handled"
    BY <2>1 DEF NothingSwallowed
  <2>2. CASE msg[m].st # "handled"
    BY <1>2, <2>2, ClosedByACall DEF CallsShown, Shown
  <2>3. QED BY <2>1, <2>2
<1>3. QED BY <1>1, <1>2 DEF NothingSwallowed

LEMMA TurnsShownStep ==
    ASSUME TurnInv, NonceOwn, SweepFull, TurnsShown, CallsShown,
           ~SameSecond, "boss" \notin Levels, [SendNext]_allVars
    PROVE  TurnsShown'
<1>0. /\ TurnTypes /\ TypeOK /\ Bound \subseteq Dispatches
      /\ \A d \in Bound : disp[d].job \in Jobs
      /\ disp \in [Dispatches -> Dispatch]
  BY DEF TurnInv, TurnTypes, BoundIsReal, Bound, TypeOK
<1>1. ASSUME NEW d \in Bound, disp'[d].job = disp[d].job, Shown(disp[d].job)
      PROVE  Shown(disp[d].job)'
  <2>1. PICK j \in Jobs : j = disp[d].job /\ j = disp'[d].job
    BY <1>0, <1>1
  <2>2. Shown(j)'
    BY <1>0, <1>1, <2>1, ShownStays
  <2>3. QED BY <2>1, <2>2 DEF Shown, Past, Scope, MarkScope
<1>2. ASSUME NEW d \in Bound, disp'[d].job = disp[d].job, burst'[d] = burst[d], Covered(d)
      PROVE  Covered(d)'
  BY <1>0, <1>2, CoveredStays
<1>3. ASSUME NEW d \in Bound, disp'[d].job = disp[d].job, burst'[d] = burst[d],
             \/ disp'[d].state = disp[d].state
             \/ disp[d].state = "locked" /\ disp'[d].state = "noting"
      PROVE  IF disp'[d].state \in {"ready", "done"} THEN Shown(disp[d].job)'
                                                     ELSE Covered(d)'
  BY <1>1, <1>2, <1>3 DEF TurnsShown
<1>4. ASSUME QuietGate
      PROVE  /\ \A d \in Dispatches : disp'[d].nonce = disp[d].nonce /\ disp'[d].job = disp[d].job
             /\ Bound' \subseteq Bound
  BY <1>0, <1>4, GateAssumption, QuietKeeps
<1>5. CASE Calm
  BY <1>0, <1>3, <1>4, <1>5 DEF Calm, TurnsShown
<1>6. ASSUME NEW t \in Terminals, OpenTurn(t) PROVE TurnsShown'
  <2>0. PICK d : d = byTerminal[t]
    OBVIOUS
  <2>1. /\ d \in Bound /\ disp[d].state = "noting" /\ disp'[d].state = "ready"
        /\ \A e \in Dispatches \ {d} : disp'[e] = disp[e]
        /\ QuietGate /\ burst' = burst /\ msg' = msg /\ opened' = opened \cup burst[d]
    BY <1>0, <1>6, <2>0 DEF OpenTurn, AdvanceToReady, QuietGate, Bound, TypeOK, Dispatch
  <2>2. /\ \A e \in Dispatches : disp'[e].job = disp[e].job
        /\ Bound' \subseteq Bound
    BY <2>1, <1>4
  <2>3. Covered(d)
    BY <2>1 DEF TurnsShown
  <2>4. Shown(disp[d].job)'
    <3>1. PICK j : j = disp[d].job /\ j = disp'[d].job
      BY <1>0, <2>1, <2>2
    <3>2. QED BY <2>1, <2>3, <3>1 DEF Covered, Shown, Past, Scope, MarkScope
  <2>5. ASSUME NEW e \in Bound, e # d
        PROVE  IF disp'[e].state \in {"ready", "done"} THEN Shown(disp[e].job)'
                                                       ELSE Covered(e)'
    BY <1>0, <2>1, <2>2, <2>5, <1>3
  <2>6. QED BY <2>1, <2>2, <2>4, <2>5 DEF TurnsShown
<1>7. ASSUME NEW h \in Handlers, ConsumeTurn(h) PROVE TurnsShown'
  <2>1. Proper(handler[h]) /\ handler[h].todo # <<>> /\ Head(handler[h].todo) = "consume"
    BY <1>0, <1>7 DEF TurnTypes, ConsumeTurn, At, Busy
  <2>2. /\ handler[h].todo \in TurnTodos /\ handler[h].term \in Terminals
        /\ handler[h].snap.nonce \in Nonces
    BY <2>1, WorksForATurn
  <2>3. Consume(handler[h].term, handler[h].snap.nonce) /\ burst' = burst
    BY <1>7 DEF ConsumeTurn
  <2>4. QuietGate
    BY <2>2, <2>3 DEF QuietGate
  <2>5. ASSUME NEW d \in Bound, disp'[d].state # disp[d].state
        PROVE  disp'[d].state = "done" /\ disp[d].nonce = handler[h].snap.nonce
    BY <1>0, <2>3, <2>5 DEF Consume, ConsumeEffect, gateVars, Dispatch
  <2>6. ASSUME NEW d \in Bound, disp'[d].state # disp[d].state
        PROVE  disp'[d].state = "done" /\ Shown(disp[d].job)
    <3>1. d = handler[h].snap.d
      BY <2>2, <2>5, <2>6 DEF NonceOwn
    <3>2. disp[d].job = handler[h].snap.job
      BY <2>2, <3>1 DEF TurnInv, SnapOfDispatch
    <3>3. QED BY <2>2, <2>5, <2>6, <3>2 DEF CallsShown
  <2>7. QED BY <1>0, <1>1, <1>3, <1>4, <2>3, <2>4, <2>6 DEF TurnsShown
<1>8. ASSUME NEW d \in Dispatches, NEW n \in Nonces, NEW t \in Terminals,
             NEW level \in Levels, NEW b \in sweep, DispatchBurst(d, n, t, level, b),
             Register(d, n, t, level, JobOf(b))
      PROVE  TurnsShown'
  <2>1. /\ JobOf(b) \in Jobs /\ JobOf(b).chat = b.chat /\ JobOf(b).sender = b.sender
        /\ \E m \in b.msgs : JobOf(b).ts = msg[m].ts
    BY <1>0, BurstJob
  <2>2. PICK j \in Jobs : j = JobOf(b)
    BY <2>1
  <2>3. /\ disp'[d].job = j /\ disp'[d].state = "locked"
        /\ \A e \in Dispatches \ {d} : disp'[e] = disp[e]
        /\ d \notin Bound /\ Bound' \subseteq Bound \cup {d}
    BY <1>0, <1>8, <2>1, <2>2, GateAssumption, RegisterKeeps
  <2>4. /\ burst' = [burst EXCEPT ![d] = b.msgs] /\ msg' = msg
        /\ burst \in [Dispatches -> SUBSET Msgs] /\ b.msgs \subseteq Msgs
    BY <1>0, <1>8 DEF DispatchBurst, TurnTypes, Bursts
  <2>5. PICK k \in b.msgs : j.ts = msg[k].ts /\ msg[k].st # "absent"
    BY <1>0, <2>1, <2>2 DEF TurnTypes, SweepIsReal
  <2>6. Past(j.ts) /\ Scope(j) \subseteq b.msgs
    <3>1. msg[k].ts <= msg[k].ts
      BY <1>0, <2>4, CountIsNat DEF TurnTypes, Rows, Times
    <3>2. Past(j.ts)
      BY <2>4, <2>5, <3>1 DEF Past
    <3>3. Scope(j) \subseteq b.msgs
      BY <2>1, <2>2, <2>5 DEF Scope, MarkScope, SweepFull
    <3>4. QED BY <3>2, <3>3
  <2>7. Covered(d)'
    BY <2>3, <2>4, <2>6 DEF Covered, Past, Scope, MarkScope
  <2>8. ASSUME NEW e \in Bound
        PROVE  IF disp'[e].state \in {"ready", "done"} THEN Shown(disp[e].job)'
                                                       ELSE Covered(e)'
    <3>1. e # d /\ burst'[e] = burst[e] /\ disp'[e] = disp[e]
      BY <1>0, <2>3, <2>4
    <3>2. QED BY <3>1, <1>3
  <2>9. QED BY <2>3, <2>7, <2>8 DEF TurnsShown
<1>9. CASE Crash
  <2>1. Restart
    BY <1>9 DEF Crash
  <2>2. Bound' = {}
    BY <2>1, GateAssumption, RestartKeeps
  <2>3. QED BY <2>2 DEF TurnsShown
<1>10. QED BY <1>0, <1>5, <1>6, <1>7, <1>8, <1>9, CalmOr


LEMMA CallsShownStep ==
    ASSUME TurnInv, TurnsShown, CallsShown, ~SameSecond, ~CrossChat, [SendNext]_allVars
    PROVE  CallsShown'
<1>0. /\ TurnTypes /\ handler \in [Handlers -> Calls]
      /\ \A h \in Handlers : Proper(handler[h])
      /\ \A d \in Bound : disp[d].job \in Jobs
  BY DEF TurnInv, TurnTypes, BoundIsReal
<1>1. ASSUME NEW j \in Jobs, Shown(j) PROVE Shown(j)'
  BY <1>0, <1>1, ShownStays
<1>2. ASSUME NEW k \in Handlers, handler'[k].todo \in TurnTodos,
             handler[k].todo \in TurnTodos,
             handler'[k].snap = handler[k].snap, handler'[k].to = handler[k].to
      PROVE  /\ Shown(handler[k].snap.job)' /\ handler'[k].to = handler'[k].snap.job.chat
  <2>1. PICK j \in Jobs : j = handler[k].snap.job /\ j = handler'[k].snap.job
    BY <1>0, <1>2 DEF Proper
  <2>2. Shown(j) /\ handler[k].to = j.chat
    BY <1>2, <2>1 DEF CallsShown
  <2>3. Shown(j)'
    BY <1>1, <2>2
  <2>4. QED BY <1>2, <2>1, <2>2, <2>3 DEF Shown, Past, Scope, MarkScope
<1>3. ASSUME UNCHANGED handler PROVE CallsShown'
  BY <1>2, <1>3 DEF CallsShown
<1>4. ASSUME NEW h \in Handlers, Busy(h), Advance(h) PROVE CallsShown'
  <2>1. ASSUME NEW k \in Handlers, handler'[k].todo \in TurnTodos
        PROVE  /\ handler[k].todo \in TurnTodos /\ handler'[k].snap = handler[k].snap
               /\ handler'[k].to = handler[k].to
    <3>1. handler'[k].todo # <<>>
      BY <2>1 DEF TurnTodos, SendTodos, DraftTodos, SilentTodos
    <3>2. QED BY <1>0, <1>4, <2>1, <3>1, AdvanceKeeps
  <2>2. QED BY <1>2, <2>1 DEF CallsShown
<1>5. ASSUME NEW h \in Handlers, NEW t \in Terminals, NEW tool \in Tools,
             NEW to \in Chats, Call(h, t, tool, to)
      PROVE  CallsShown'
  <2>1. \A k \in Handlers \ {h} : handler'[k] = handler[k]
    BY <1>0, <1>5 DEF Call
  <2>2. ASSUME handler'[h].todo \in TurnTodos
        PROVE  Shown(handler[h].snap.job)' /\ handler'[h].to = handler'[h].snap.job.chat
    <3>1. PICK d : d = byTerminal[t]
      OBVIOUS
    <3>2. /\ d # NoDispatch /\ d \in Bound /\ handler'[h].snap.job = disp[d].job
          /\ handler'[h].to = to
      BY <1>0, <1>5, <2>2, <3>1, CallReads
    <3>3. /\ disp[d].state \in {"ready", "done"}
          /\ to = disp[d].job.chat
      <4>1. to = disp[d].job.chat
        BY <1>5, <3>1 DEF Call
      <4>2. tool \in {"send", "draft", "silent"}
        BY SendAssumption DEF SendAssumption
      <4>3. QED BY <1>5, <3>1, <3>2, <4>1, <4>2 DEF Call, MayWrite
    <3>4. PICK j \in Jobs : j = disp[d].job
      BY <1>0, <3>2
    <3>5. Shown(j)
      BY <3>2, <3>3, <3>4 DEF TurnsShown
    <3>6. Shown(j)'
      BY <1>1, <3>5
    <3>7. QED BY <3>2, <3>3, <3>4, <3>6 DEF Shown, Past, Scope, MarkScope
  <2>3. QED BY <1>2, <2>1, <2>2 DEF CallsShown
<1>6. CASE Crash
  <2>1. \A h \in Handlers : handler'[h].todo \notin TurnTodos
    BY <1>6, IdleIsProper, TodoOfTool DEF Crash
  <2>2. QED BY <2>1 DEF CallsShown
<1>7. QED BY <1>3, <1>4, <1>5, <1>6, HandlerMoves

LEMMA SwallowInvInit == ASSUME SendInit PROVE SwallowInv
<1>1. Bound = {}
  BY GateAssumption DEF SendInit, Init, Bound, GateAssumption
<1>2. \A h \in Handlers : handler[h].todo \notin TurnTodos
  BY IdleIsProper, TodoOfTool DEF SendInit
<1>3. QED
  BY <1>1, <1>2
  DEF SendInit, SwallowInv, NothingSwallowed, SweepFull, TurnsShown, CallsShown

(* Every call and every turn's effect keep to the types of the code.       *)
THEOREM SendTypesHold == SendSpec => []SendTypeOK
<1>1. SendInit => TurnTypes
  BY TurnTypesInit
<1>2. TurnTypes /\ [SendNext]_allVars => TurnTypes'
  BY TurnTypesStep
<1>3. TurnTypes => SendTypeOK
  BY TypesImply
<1>4. QED BY <1>1, <1>2, <1>3, PTL DEF SendSpec

(* No call closes a message that no agent was let at: not one that arrived *)
(* while the agent was composing, not another speaker's, not a burst that  *)
(* was never unlocked.  It takes timestamps that tell messages apart,      *)
(* agents that answer the chat of their turn, nonces that are not drawn    *)
(* again while in use, and dispatches that are not born ready.             *)
THEOREM NothingSwallowedHolds ==
    ASSUME ~SameSecond, ~CrossChat, ~NonceReuse, "boss" \notin Levels
    PROVE  SendSpec => []NothingSwallowed
<1> DEFINE IInv == TurnInv /\ NoncesApart /\ NonceOwn /\ SwallowInv
<1>1. SendInit => IInv
  BY TurnInvInit, NonceOwnInit, SwallowInvInit
<1>2. IInv /\ [SendNext]_allVars => IInv'
  <2> SUFFICES ASSUME TurnInv, NoncesApart, NonceOwn, SwallowInv, [SendNext]_allVars
               PROVE  TurnInv' /\ NoncesApart' /\ NonceOwn' /\ SwallowInv'
    OBVIOUS
  <2>1. TurnTypes /\ NothingSwallowed /\ SweepFull /\ TurnsShown /\ CallsShown
    BY DEF TurnInv, SwallowInv
  <2>2. TurnInv' /\ NoncesApart' /\ NonceOwn'
    BY TurnInvStep, NonceOwnStep
  <2>3. NothingSwallowed' /\ SweepFull'
    BY <2>1, NothingSwallowedStep, SweepFullStep
  <2>4. TurnsShown' /\ CallsShown'
    BY <2>1, TurnsShownStep, CallsShownStep
  <2>5. QED BY <2>2, <2>3, <2>4 DEF SwallowInv
<1>3. IInv => NothingSwallowed
  BY DEF SwallowInv
<1>4. QED BY <1>1, <1>2, <1>3, PTL DEF SendSpec


-----------------------------------------------------------------------------
(* How often one turn replies                                              *)

LEMMA QuietHome ==
    ASSUME TypeOK, QuietGate
    PROVE  /\ \A d \in Dispatches : /\ disp'[d].terminalID = disp[d].terminalID
                                    /\ disp'[d].alias = disp[d].alias
           /\ \A t \in Terminals : byTerminal'[t] \in {byTerminal[t], NoDispatch}
<1> DEFINE Home == /\ \A d \in Dispatches : /\ disp'[d].terminalID = disp[d].terminalID
                                            /\ disp'[d].alias = disp[d].alias
                   /\ \A t \in Terminals : byTerminal'[t] \in {byTerminal[t], NoDispatch}
<1>1. ASSUME UNCHANGED <<disp, byTerminal>> PROVE Home
  BY <1>1
<1>2. ASSUME NEW d \in Dispatches, Age(d) PROVE Home
  BY <1>2 DEF Age, TypeOK, Dispatch
<1>3. ASSUME NEW gone, UNCHANGED disp, byTerminal' = ByTerminalWithout(gone) PROVE Home
  BY <1>3 DEF ByTerminalWithout, TypeOK
<1>4. ASSUME NEW t \in Terminals, NEW n \in Nonces, GetInstructions(t, n) PROVE Home
  BY <1>4 DEF GetInstructions, TypeOK, Dispatch
<1>5. ASSUME NEW t \in Terminals, NEW tok \in Dispatches \cup {NoDispatch},
             Unlock(t, tok)
      PROVE  Home
  BY <1>5 DEF Unlock, TypeOK, Dispatch
<1>6. ASSUME NEW t \in Terminals, AdvanceToReady(t) PROVE Home
  BY <1>6 DEF AdvanceToReady, TypeOK, Dispatch
<1>7. ASSUME NEW t \in Terminals, NEW n \in Nonces, Consume(t, n) PROVE Home
  BY <1>7 DEF Consume, ConsumeEffect, gateVars, TypeOK, Dispatch
<1>8. ASSUME NEW t \in Terminals, NEW n \in Nonces, RecordSend(t, n) PROVE Home
  BY <1>8 DEF RecordSend, RecordSendEffect, gateVars, TypeOK, Dispatch
<1>9. ASSUME InjectFail PROVE Home
  <2>1. \/ UNCHANGED <<disp, byTerminal>>
        \/ UNCHANGED disp /\ \E gone : byTerminal' = ByTerminalWithout(gone)
    BY <1>9 DEF InjectFail, CancelDispatch, gateVars
  <2>2. QED BY <2>1, <1>1, <1>3
<1>10. QED
  BY <1>1, <1>2, <1>3, <1>4, <1>5, <1>6, <1>7, <1>8, <1>9
  DEF QuietGate, vars, gateVars, InjectOk, Sweep

\* The reply is queued, and not yet counted.
Owing ==
    {<<"consume", "record", "markTo", "markOwn">>, <<"record", "markTo", "markOwn">>,
     <<"markTo", "markOwn", "consume", "record">>, <<"markOwn", "consume", "record">>,
     <<"consume", "record">>, <<"record">>}
Recording == {<<"record", "markTo", "markOwn">>, <<"record">>}

\* No dispatch has a second key; a bound one is bound to its terminal.
AtHome ==
    /\ \A d \in Dispatches : disp[d].alias = NoTerminal
    /\ \A t \in Terminals : byTerminal[t] # NoDispatch =>
          disp[byTerminal[t]].terminalID = t

\* A call works at the terminal of the dispatch it read.
CallsAtHome ==
    \A h \in Handlers : handler[h].todo \in TurnTodos =>
        disp[handler[h].snap.d].terminalID = handler[h].term

Owed(d) == \E h \in Handlers : handler[h].todo \in Owing /\ handler[h].snap.d = d
BeingRecorded(d) ==
    \E h \in Handlers : handler[h].todo \in Recording /\ handler[h].snap.d = d

\* Replies are counted, but for the one under way.
Counted ==
    \A d \in Bound :
        /\ Owed(d) => replies[d] <= disp[d].sends + 1
        /\ ~Owed(d) => replies[d] <= disp[d].sends /\ (disp[d].state # "done" => replies[d] = 0)
        /\ BeingRecorded(d) => disp[d].state = "done"

\* A call that is about to reply may.
MayReply ==
    \A h \in Handlers :
        handler[h].todo \in {SendScript, DraftScript} /\ OwnChat(h) =>
            replies[handler[h].snap.d] < MaxSends

CapInv == AtHome /\ CallsAtHome /\ Counted /\ MayReply /\ SendCap

LEMMA AtHomeStep ==
    ASSUME TurnInv, AtHome, CallsAtHome, Agents = {}, [SendNext]_allVars
    PROVE  AtHome' /\ CallsAtHome'
<1>0. /\ TurnTypes /\ TypeOK /\ handler \in [Handlers -> Calls]
      /\ NoDispatch \notin Dispatches
      /\ \A h \in Handlers : handler[h].todo \in TurnTodos => handler[h].snap.d \in Dispatches
  BY GateAssumption DEF TurnInv, TurnTypes, GateAssumption, Proper
<1>1. ASSUME QuietGate
      PROVE  /\ AtHome'
             /\ \A d \in Dispatches : disp'[d].terminalID = disp[d].terminalID
  <2>1. /\ \A d \in Dispatches : /\ disp'[d].terminalID = disp[d].terminalID
                                 /\ disp'[d].alias = disp[d].alias
        /\ \A t \in Terminals : byTerminal'[t] \in {byTerminal[t], NoDispatch}
    BY <1>0, <1>1, QuietHome
  <2>2. QED BY <1>0, <2>1 DEF AtHome, TypeOK
<1>2. ASSUME UNCHANGED handler, QuietGate PROVE AtHome' /\ CallsAtHome'
  BY <1>0, <1>1, <1>2 DEF CallsAtHome
<1>3. ASSUME NEW h \in Handlers, Busy(h), Advance(h), QuietGate
      PROVE  AtHome' /\ CallsAtHome'
  <2>1. ASSUME NEW k \in Handlers, handler'[k].todo \in TurnTodos
        PROVE  /\ handler[k].todo \in TurnTodos /\ handler'[k].snap = handler[k].snap
               /\ handler'[k].term = handler[k].term
    <3>1. handler'[k].todo # <<>>
      BY <2>1 DEF TurnTodos, SendTodos, DraftTodos, SilentTodos
    <3>2. QED BY <1>0, <1>3, <2>1, <3>1, AdvanceKeeps
  <2>2. QED BY <1>0, <1>1, <1>3, <2>1 DEF CallsAtHome
<1>4. ASSUME NEW h \in Handlers, NEW t \in Terminals, NEW tool \in Tools,
             NEW to \in Chats, Call(h, t, tool, to)
      PROVE  AtHome' /\ CallsAtHome'
  <2>1. /\ disp' = disp /\ byTerminal' = byTerminal
        /\ \A k \in Handlers \ {h} : handler'[k] = handler[k]
    BY <1>0, <1>4 DEF Call, vars
  <2>2. handler'[h].todo \in TurnTodos =>
           disp[handler'[h].snap.d].terminalID = handler'[h].term
    BY <1>0, <1>4, CallReads DEF AtHome
  <2>3. QED BY <2>1, <2>2 DEF AtHome, CallsAtHome
<1>5. ASSUME NEW d \in Dispatches, NEW n \in Nonces, NEW t \in Terminals,
             NEW level \in Levels, NEW b \in sweep, DispatchBurst(d, n, t, level, b),
             Register(d, n, t, level, JobOf(b))
      PROVE  AtHome' /\ CallsAtHome'
  <2>1. AliasFor(t) = NoTerminal
    BY <1>5 DEF AliasFor
  <2>2. /\ disp'[d].terminalID = t /\ disp'[d].alias = NoTerminal
        /\ \A e \in Dispatches \ {d} : disp'[e] = disp[e]
        /\ d \notin Bound
    BY <1>0, <1>5, <2>1 DEF Register, RegisterDispatch, TypeOK
  <2>3. NoTerminal \notin Terminals
    BY GateAssumption DEF GateAssumption
  <2>4. \A k \in Terminals : \/ k = t /\ byTerminal'[k] = d
                             \/ byTerminal'[k] \in {byTerminal[k], NoDispatch}
    BY <1>5, <2>1, <2>3 DEF Register, RegisterDispatch, ByTerminalWithout
  <2>5. \A k \in Terminals : byTerminal[k] # NoDispatch => byTerminal[k] \in Dispatches \ {d}
    BY <1>0, <2>2 DEF TypeOK, Bound
  <2>6. AtHome'
    BY <1>0, <2>2, <2>4, <2>5 DEF AtHome
  <2>7. handler' = handler /\ \A h \in Handlers : handler[h].snap.d # d
    BY <1>5 DEF DispatchBurst
  <2>8. CallsAtHome'
    BY <1>0, <2>2, <2>7 DEF CallsAtHome
  <2>9. QED BY <2>6, <2>8
<1>6. CASE Crash
  <2>1. \A h \in Handlers : handler'[h].todo \notin TurnTodos
    BY <1>6, IdleIsProper, TodoOfTool DEF Crash
  <2>2. QED BY <1>6, <2>1 DEF Crash, Restart, Blank, AtHome, CallsAtHome
<1>7. QED BY <1>0, <1>2, <1>3, <1>4, <1>5, <1>6, CallMoves


\* What is left to do after a step.
Rest(t) == IF Len(t) = 1 THEN <<>> ELSE Tail(t)

LEMMA OwingTable ==
    ASSUME NEW t \in Todos, t # <<>>
    PROVE  /\ Head(t) \in {"markTo", "markOwn", "consume"} => (t \in Owing <=> Rest(t) \in Owing)
           /\ Head(t) # "consume" => Rest(t) \notin Recording
           /\ Head(t) = "record" => t \in Owing /\ t \in Recording /\ Rest(t) \notin Owing
           /\ Head(t) \in {"enqueue", "draft"} =>
                 \/ t \in LoneTodos /\ Rest(t) = <<>>
                 \/ t \in {SendScript, DraftScript} /\ Rest(t) \in Owing
           /\ Head(t) \in {"enqueue", "draft"} => t \notin Owing
           /\ Rest(t) \notin {SendScript, DraftScript}
           /\ Rest(t) \in Recording => Head(t) = "consume"
<1>1. CASE t = <<"enqueue", "consume", "record", "markTo", "markOwn">>
  <2>1. Rest(t) = <<"consume", "record", "markTo", "markOwn">> /\ Head(t) = "enqueue"
    BY <1>1 DEF Rest
  <2>2. QED BY <1>1, <2>1 DEF Owing, Recording, LoneTodos, SendScript, DraftScript
<1>2. CASE t = <<"consume", "record", "markTo", "markOwn">>
  <2>1. Rest(t) = <<"record", "markTo", "markOwn">> /\ Head(t) = "consume"
    BY <1>2 DEF Rest
  <2>2. QED BY <1>2, <2>1 DEF Owing, Recording, LoneTodos, SendScript, DraftScript
<1>3. CASE t = <<"record", "markTo", "markOwn">>
  <2>1. Rest(t) = <<"markTo", "markOwn">> /\ Head(t) = "record"
    BY <1>3 DEF Rest
  <2>2. QED BY <1>3, <2>1 DEF Owing, Recording, LoneTodos, SendScript, DraftScript
<1>4. CASE t = <<"markTo", "markOwn">>
  <2>1. Rest(t) = <<"markOwn">> /\ Head(t) = "markTo"
    BY <1>4 DEF Rest
  <2>2. QED BY <1>4, <2>1 DEF Owing, Recording, LoneTodos, SendScript, DraftScript
<1>5. CASE t = <<"markOwn">>
  <2>1. Rest(t) = <<>> /\ Head(t) = "markOwn"
    BY <1>5 DEF Rest
  <2>2. QED BY <1>5, <2>1 DEF Owing, Recording, LoneTodos, SendScript, DraftScript
<1>6. CASE t = <<"draft", "markTo", "markOwn", "consume", "record">>
  <2>1. Rest(t) = <<"markTo", "markOwn", "consume", "record">> /\ Head(t) = "draft"
    BY <1>6 DEF Rest
  <2>2. QED BY <1>6, <2>1 DEF Owing, Recording, LoneTodos, SendScript, DraftScript
<1>7. CASE t = <<"markTo", "markOwn", "consume", "record">>
  <2>1. Rest(t) = <<"markOwn", "consume", "record">> /\ Head(t) = "markTo"
    BY <1>7 DEF Rest
  <2>2. QED BY <1>7, <2>1 DEF Owing, Recording, LoneTodos, SendScript, DraftScript
<1>8. CASE t = <<"markOwn", "consume", "record">>
  <2>1. Rest(t) = <<"consume", "record">> /\ Head(t) = "markOwn"
    BY <1>8 DEF Rest
  <2>2. QED BY <1>8, <2>1 DEF Owing, Recording, LoneTodos, SendScript, DraftScript
<1>9. CASE t = <<"consume", "record">>
  <2>1. Rest(t) = <<"record">> /\ Head(t) = "consume"
    BY <1>9 DEF Rest
  <2>2. QED BY <1>9, <2>1 DEF Owing, Recording, LoneTodos, SendScript, DraftScript
<1>10. CASE t = <<"record">>
  <2>1. Rest(t) = <<>> /\ Head(t) = "record"
    BY <1>10 DEF Rest
  <2>2. QED BY <1>10, <2>1 DEF Owing, Recording, LoneTodos, SendScript, DraftScript
<1>11. CASE t = <<"markTo", "consume">>
  <2>1. Rest(t) = <<"consume">> /\ Head(t) = "markTo"
    BY <1>11 DEF Rest
  <2>2. QED BY <1>11, <2>1 DEF Owing, Recording, LoneTodos, SendScript, DraftScript
<1>12. CASE t = <<"consume">>
  <2>1. Rest(t) = <<>> /\ Head(t) = "consume"
    BY <1>12 DEF Rest
  <2>2. QED BY <1>12, <2>1 DEF Owing, Recording, LoneTodos, SendScript, DraftScript
<1>13. CASE t = <<"enqueue">>
  <2>1. Rest(t) = <<>> /\ Head(t) = "enqueue"
    BY <1>13 DEF Rest
  <2>2. QED BY <1>13, <2>1 DEF Owing, Recording, LoneTodos, SendScript, DraftScript
<1>14. CASE t = <<"draft">>
  <2>1. Rest(t) = <<>> /\ Head(t) = "draft"
    BY <1>14 DEF Rest
  <2>2. QED BY <1>14, <2>1 DEF Owing, Recording, LoneTodos, SendScript, DraftScript
<1>15. QED
  BY <1>1, <1>2, <1>3, <1>4, <1>5, <1>6, <1>7, <1>8, <1>9, <1>10, <1>11, <1>12, <1>13, <1>14
  DEF Todos, TurnTodos, SendTodos, DraftTodos, SilentTodos, LoneTodos

LEMMA OwingIsATurn ==
    /\ Recording \subseteq Owing /\ Owing \subseteq TurnTodos
    /\ <<>> \notin Owing
    /\ \A t \in {SendScript, DraftScript, SilentScript} \cup LoneTodos : t \notin Owing
    /\ SendScript \in TurnTodos /\ DraftScript \in TurnTodos
    /\ SilentScript \notin {SendScript, DraftScript}
BY DEF Recording, Owing, TurnTodos, SendTodos, DraftTodos, SilentTodos, LoneTodos,
       SendScript, DraftScript, SilentScript


LEMMA AdvanceRest ==
    ASSUME TurnTypes, NEW h \in Handlers, Busy(h), Advance(h)
    PROVE  /\ handler[h].todo \in Todos /\ handler[h].todo # <<>>
           /\ handler'[h].todo = Rest(handler[h].todo)
           /\ handler'[h].todo # <<>> =>
                 handler'[h].snap = handler[h].snap /\ handler'[h].to = handler[h].to
<1>0. handler \in [Handlers -> Calls] /\ \A i \in Handlers : Proper(handler[i])
  BY DEF TurnTypes
<1>1. /\ handler' = [handler EXCEPT ![h] = AfterStep(handler[h])]
      /\ handler[h].todo \in Todos /\ handler[h].todo # <<>>
  BY <1>0, AdvanceStep
<1>2. handler'[h] = AfterStep(handler[h])
  BY <1>0, <1>1
<1>3. handler'[h].todo = Rest(handler[h].todo)
  BY <1>0, <1>2, IdleIsProper DEF AfterStep, Rest, Calls
<1>4. QED BY <1>0, <1>1, <1>3, AdvanceKeeps

(* Between two calls of its only handler the count of a turn stands still. *)
LEMMA CountedStep ==
    ASSUME TurnInv, CapInv, [SendNext]_allVars,
           \A h, k \in Handlers : h = k, MaxSends <= SendBound
    PROVE  Counted' /\ MayReply' /\ SendCap'
<1>0. /\ TurnTypes /\ TypeOK /\ handler \in [Handlers -> Calls] /\ Bound \subseteq Dispatches
      /\ \A h \in Handlers : Proper(handler[h])
      /\ disp \in [Dispatches -> Dispatch] /\ replies \in [Dispatches -> Nat]
      /\ Counted /\ MayReply /\ SendCap /\ AtHome /\ CallsAtHome /\ SnapOfDispatch
      /\ MaxSends \in Nat \ {0} /\ SendBound \in Nat
  BY SendAssumption, GateAssumption
  DEF TurnInv, TurnTypes, TypeOK, Bound, CapInv, SendAssumption, GateAssumption
<1>a. \A d \in Dispatches : disp[d].sends \in 0..SendBound
  BY <1>0 DEF Dispatch
<1>b. ASSUME QuietGate
      PROVE  Bound' \subseteq Bound
  BY <1>0, <1>b, GateAssumption, QuietKeeps
<1>1. ASSUME UNCHANGED <<handler, replies>>, Bound' \subseteq Bound,
             \A d \in Dispatches : /\ disp'[d].sends = disp[d].sends
                                   /\ disp'[d].state = "done" <=> disp[d].state = "done"
      PROVE  Counted' /\ MayReply' /\ SendCap'
  <2>1. /\ \A d : Owed(d)' <=> Owed(d)
        /\ \A d : BeingRecorded(d)' <=> BeingRecorded(d)
    BY <1>1 DEF Owed, BeingRecorded
  <2>2. Counted'
    BY <1>0, <1>1, <2>1 DEF Counted
  <2>3. QED BY <1>0, <1>1, <2>2 DEF MayReply, OwnChat, SendCap
<1>2. ASSUME NEW h \in Handlers, NEW t \in Terminals, NEW tool \in Tools,
             NEW to \in Chats, Call(h, t, tool, to)
      PROVE  Counted' /\ MayReply' /\ SendCap'
  <2>1. /\ disp' = disp /\ byTerminal' = byTerminal /\ replies' = replies
        /\ handler[h].todo = <<>> /\ Bound' = Bound
    BY <1>0, <1>2 DEF Call, vars, Busy, Bound
  <2>2. handler'[h].todo \notin Owing
    <3> SUFFICES ASSUME handler'[h].todo \in Owing PROVE FALSE
      OBVIOUS
    <3>1. handler'[h].todo \in TurnTodos
      BY OwingIsATurn
    <3>2. QED BY <1>0, <1>2, <3>1, CallReads, OwingIsATurn
  <2>3. \A d : ~Owed(d) /\ ~Owed(d)' /\ ~BeingRecorded(d) /\ ~BeingRecorded(d)'
    BY <2>1, <2>2, OwingIsATurn DEF Owed, BeingRecorded
  <2>4. Counted'
    BY <1>0, <2>1, <2>3 DEF Counted
  <2>5. ASSUME handler'[h].todo \in {SendScript, DraftScript}, handler'[h].to = handler'[h].snap.job.chat
        PROVE  replies[handler'[h].snap.d] < MaxSends
    <3>1. PICK d : d = byTerminal[t]
      OBVIOUS
    <3>2. handler'[h].todo \in TurnTodos
      BY <2>5, OwingIsATurn
    <3>3. /\ d # NoDispatch /\ d \in Bound /\ handler'[h].snap.d = d
          /\ handler'[h].snap.job = disp[d].job /\ handler'[h].to = to
      BY <1>0, <1>2, <3>1, <3>2, CallReads
    <3>4. tool # "silent"
      <4>1. CASE tool = "silent"
        <5>1. handler'[h].todo = SilentScript
          BY <1>0, <1>2, <4>1 DEF Call, Script
        <5>2. QED BY <2>5, <5>1, OwingIsATurn
      <4>2. QED BY <4>1
    <3>5. MayWrite(t, to)
      BY <1>2, <3>4, SendAssumption DEF Call, SendAssumption
    <3>6. \/ disp[d].state = "ready"
          \/ disp[d].state = "done" /\ disp[d].sends < MaxSends
      BY <2>5, <3>1, <3>3, <3>5 DEF MayWrite
    <3>7. replies[d] <= disp[d].sends /\ (disp[d].state # "done" => replies[d] = 0)
      BY <1>0, <2>3, <3>3 DEF Counted
    <3>8. replies[d] \in Nat /\ disp[d].sends \in Nat
      BY <1>0, <1>a, <3>3
    <3>9. replies[d] < MaxSends
      BY <1>0, <3>6, <3>7, <3>8
    <3>10. QED BY <3>3, <3>9
  <2>6. MayReply'
    <3> SUFFICES ASSUME NEW k \in Handlers, handler'[k].todo \in {SendScript, DraftScript},
                        handler'[k].to = handler'[k].snap.job.chat
                 PROVE  replies'[handler'[k].snap.d] < MaxSends
      BY DEF MayReply, OwnChat
    <3>1. k = h
      OBVIOUS
    <3>2. QED BY <2>1, <2>5, <3>1
  <2>7. QED BY <1>0, <2>1, <2>4, <2>6 DEF SendCap
<1>3. ASSUME NEW h \in Handlers, Busy(h), Advance(h)
      PROVE  /\ handler[h].todo \in Todos /\ handler[h].todo # <<>>
             /\ MayReply'
             /\ \A d : Owed(d) <=> handler[h].todo \in Owing /\ handler[h].snap.d = d
             /\ \A d : Owed(d)' <=> Rest(handler[h].todo) \in Owing /\ handler[h].snap.d = d
             /\ \A d : BeingRecorded(d)' <=> Rest(handler[h].todo) \in Recording /\ handler[h].snap.d = d
  <2>1. /\ handler[h].todo \in Todos /\ handler[h].todo # <<>>
        /\ handler'[h].todo = Rest(handler[h].todo)
        /\ handler'[h].todo # <<>> =>
              handler'[h].snap = handler[h].snap /\ handler'[h].to = handler[h].to
    BY <1>0, <1>3, AdvanceRest
  <2>2. handler'[h].todo \notin {SendScript, DraftScript}
    BY <2>1, OwingTable
  <2>3. MayReply'
    BY <2>2 DEF MayReply
  <2>4. \A d : Owed(d) <=> handler[h].todo \in Owing /\ handler[h].snap.d = d
    BY DEF Owed
  <2>5. \A d : Owed(d)' <=> handler'[h].todo \in Owing /\ handler'[h].snap.d = d
    BY DEF Owed
  <2>6. \A d : BeingRecorded(d)' <=> handler'[h].todo \in Recording /\ handler'[h].snap.d = d
    BY DEF BeingRecorded
  <2>7. handler'[h].todo \in Owing \/ handler'[h].todo \in Recording => handler'[h].todo # <<>>
    BY OwingIsATurn
  <2>8. QED BY <2>1, <2>3, <2>4, <2>5, <2>6, <2>7
<1>4. ASSUME NEW h \in Handlers, Reply(h) PROVE Counted' /\ MayReply' /\ SendCap'
  <2> DEFINE r == handler[h]
  <2>1. /\ Busy(h) /\ Advance(h) /\ Head(r.todo) \in {"enqueue", "draft"}
        /\ disp' = disp /\ byTerminal' = byTerminal
        /\ replies' = IF OwnChat(h) THEN [replies EXCEPT ![r.snap.d] = @ + 1] ELSE replies
    BY <1>4 DEF Reply, At, vars
  <2>2. Bound' = Bound
    BY <2>1 DEF Bound
  <2>3. /\ r.todo \in Todos /\ r.todo # <<>> /\ MayReply'
        /\ \A d : Owed(d) <=> r.todo \in Owing /\ r.snap.d = d
        /\ \A d : Owed(d)' <=> Rest(r.todo) \in Owing /\ r.snap.d = d
        /\ \A d : BeingRecorded(d)' <=> Rest(r.todo) \in Recording /\ r.snap.d = d
    BY <1>3, <2>1
  <2>4. /\ r.todo \notin Owing /\ Rest(r.todo) \notin Recording
        /\ \/ r.todo \in LoneTodos /\ Rest(r.todo) = <<>>
           \/ r.todo \in {SendScript, DraftScript} /\ Rest(r.todo) \in Owing
    BY <2>1, <2>3, OwingTable
  <2>5. Proper(r)
    BY <1>0
  <2>6. CASE ~OwnChat(h)
    <3>1. replies' = replies
      BY <2>1, <2>6
    <3>2. ASSUME NEW d \in Bound
          PROVE  /\ replies[d] <= disp[d].sends /\ replies[d] <= disp[d].sends + 1
                 /\ (disp[d].state # "done" => replies[d] = 0)
      <4>1. replies[d] <= disp[d].sends /\ (disp[d].state # "done" => replies[d] = 0)
        BY <1>0, <2>3, <2>4 DEF Counted
      <4>2. replies[d] \in Nat /\ disp[d].sends \in Nat
        BY <1>0, <1>a
      <4>3. QED BY <4>1, <4>2
    <3>3. Counted'
      BY <2>1, <2>2, <2>3, <2>4, <3>1, <3>2 DEF Counted
    <3>4. QED BY <1>0, <2>3, <3>1, <3>3 DEF SendCap
  <2>7. CASE OwnChat(h)
    <3>1. r.todo \in {SendScript, DraftScript} /\ Rest(r.todo) \in Owing
      <4>1. r.todo \notin LoneTodos
        BY <2>5, <2>7 DEF Proper, OwnChat, NoSnapshot
      <4>2. QED BY <2>4, <4>1
    <3>2. r.snap.d \in Dispatches
      BY <2>5, <3>1, OwingIsATurn DEF Proper
    <3>3. PICK d \in Dispatches : d = r.snap.d
      BY <3>2
    <3>4. /\ replies'[d] = replies[d] + 1
          /\ \A e \in Dispatches \ {d} : replies'[e] = replies[e]
      BY <1>0, <2>1, <2>7, <3>3
    <3>5. replies[d] < MaxSends
      BY <1>0, <2>7, <3>1, <3>3 DEF MayReply
    <3>6. SendCap'
      <4>1. replies[d] \in Nat
        BY <1>0
      <4>2. replies'[d] <= MaxSends
        BY <1>0, <3>4, <3>5, <4>1
      <4>3. QED BY <1>0, <3>4, <4>2 DEF SendCap
    <3>7. ASSUME NEW e \in Bound
          PROVE  replies[e] <= disp[e].sends /\ (disp[e].state # "done" => replies[e] = 0)
      BY <1>0, <2>3, <2>4 DEF Counted
    <3>8. d \in Bound => replies'[d] <= disp[d].sends + 1
      <4>1. replies[d] \in Nat /\ disp[d].sends \in Nat
        BY <1>0, <1>a
      <4>2. QED BY <3>4, <3>7, <4>1
    <3>9. Owed(d)' /\ \A e \in Dispatches \ {d} : ~Owed(e)'
      BY <2>3, <3>1, <3>3
    <3>10. Counted'
      BY <1>0, <2>1, <2>2, <2>3, <2>4, <3>4, <3>7, <3>8, <3>9 DEF Counted
    <3>11. QED BY <2>3, <3>6, <3>10
  <2>8. QED BY <2>6, <2>7
<1>5. ASSUME NEW h \in Handlers, MarkTo(h) \/ MarkOwn(h)
      PROVE  Counted' /\ MayReply' /\ SendCap'
  <2> DEFINE r == handler[h]
  <2>1. /\ Busy(h) /\ Advance(h) /\ Head(r.todo) \in {"markTo", "markOwn"}
        /\ disp' = disp /\ byTerminal' = byTerminal /\ replies' = replies
    BY <1>5 DEF MarkTo, MarkOwn, At, vars
  <2>2. Bound' = Bound
    BY <2>1 DEF Bound
  <2>3. /\ r.todo \in Todos /\ r.todo # <<>> /\ MayReply'
        /\ \A d : Owed(d) <=> r.todo \in Owing /\ r.snap.d = d
        /\ \A d : Owed(d)' <=> Rest(r.todo) \in Owing /\ r.snap.d = d
        /\ \A d : BeingRecorded(d)' <=> Rest(r.todo) \in Recording /\ r.snap.d = d
    BY <1>3, <2>1
  <2>4. (r.todo \in Owing <=> Rest(r.todo) \in Owing) /\ Rest(r.todo) \notin Recording
    BY <2>1, <2>3, OwingTable
  <2>5. Counted'
    BY <1>0, <2>1, <2>2, <2>3, <2>4 DEF Counted
  <2>6. QED BY <1>0, <2>1, <2>3, <2>5 DEF SendCap
<1>6. ASSUME NEW h \in Handlers, ConsumeTurn(h) PROVE Counted' /\ MayReply' /\ SendCap'
  <2> DEFINE r == handler[h]
  <2>1. /\ Busy(h) /\ Advance(h) /\ Head(r.todo) = "consume" /\ replies' = replies
        /\ Consume(r.term, r.snap.nonce)
    BY <1>6 DEF ConsumeTurn, At
  <2>2. /\ r.todo \in Todos /\ r.todo # <<>> /\ MayReply'
        /\ \A d : Owed(d) <=> r.todo \in Owing /\ r.snap.d = d
        /\ \A d : Owed(d)' <=> Rest(r.todo) \in Owing /\ r.snap.d = d
        /\ \A d : BeingRecorded(d)' <=> Rest(r.todo) \in Recording /\ r.snap.d = d
    BY <1>3, <2>1
  <2>3. r.todo \in Owing <=> Rest(r.todo) \in Owing
    BY <2>1, <2>2, OwingTable
  <2>4. /\ r.todo \in TurnTodos /\ r.term \in Terminals /\ r.snap.nonce \in Nonces
        /\ r.snap.d \in Dispatches
    BY <1>0, <2>1, <2>2, WorksForATurn
  <2>5. Bound' \subseteq Bound
    BY <1>b, <2>1, <2>4 DEF QuietGate
  <2>6. \A d \in Dispatches : /\ disp'[d].sends = disp[d].sends
                              /\ disp'[d].state \in {disp[d].state, "done"}
    BY <1>0, <2>1 DEF Consume, ConsumeEffect, gateVars, Dispatch
  <2>7. r.snap.d \in Bound => disp'[r.snap.d].state = "done"
    <3> SUFFICES ASSUME r.snap.d \in Bound PROVE disp'[r.snap.d].state = "done"
      OBVIOUS
    <3>1. PICK t \in Terminals : byTerminal[t] = r.snap.d
      BY DEF Bound
    <3>2. r.snap.d # NoDispatch
      BY <2>4, GateAssumption DEF GateAssumption
    <3>3. t = r.term
      BY <1>0, <2>4, <3>1, <3>2 DEF AtHome, CallsAtHome
    <3>4. disp[r.snap.d].nonce = r.snap.nonce
      BY <1>0, <2>4 DEF SnapOfDispatch
    <3>5. PICK d \in Dispatches : d = r.snap.d
      BY <2>4
    <3>6. disp' = [disp EXCEPT ![d].state = "done"]
      BY <2>1, <3>1, <3>2, <3>3, <3>4, <3>5 DEF Consume, ConsumeEffect
    <3>7. QED BY <1>0, <3>5, <3>6 DEF Dispatch
  <2>8. Counted'
    BY <1>0, <2>1, <2>2, <2>3, <2>5, <2>6, <2>7 DEF Counted
  <2>9. QED BY <1>0, <2>1, <2>2, <2>8 DEF SendCap
<1>7. ASSUME NEW h \in Handlers, RecordTurn(h) PROVE Counted' /\ MayReply' /\ SendCap'
  <2> DEFINE r == handler[h]
  <2>1. /\ Busy(h) /\ Advance(h) /\ Head(r.todo) = "record" /\ replies' = replies
        /\ RecordSend(r.term, r.snap.nonce)
    BY <1>7 DEF RecordTurn, At
  <2>2. /\ r.todo \in Todos /\ r.todo # <<>> /\ MayReply'
        /\ \A d : Owed(d) <=> r.todo \in Owing /\ r.snap.d = d
        /\ \A d : Owed(d)' <=> Rest(r.todo) \in Owing /\ r.snap.d = d
        /\ \A d : BeingRecorded(d)' <=> Rest(r.todo) \in Recording /\ r.snap.d = d
    BY <1>3, <2>1
  <2>3. /\ r.todo \in Owing /\ r.todo \in Recording /\ Rest(r.todo) \notin Owing
        /\ Rest(r.todo) \notin Recording
    BY <2>1, <2>2, OwingTable
  <2>4. /\ r.todo \in TurnTodos /\ r.term \in Terminals /\ r.snap.nonce \in Nonces
        /\ r.snap.d \in Dispatches
    BY <1>0, <2>1, <2>2, WorksForATurn
  <2>5. Bound' \subseteq Bound
    BY <1>b, <2>1, <2>4 DEF QuietGate
  <2>6. \A d \in Dispatches :
           /\ disp'[d].state = disp[d].state
           /\ \/ disp'[d].sends = disp[d].sends
              \/ disp'[d].sends = disp[d].sends + 1
    <3>1. CASE UNCHANGED disp
      BY <3>1
    <3>2. CASE ~UNCHANGED disp
      <4>1. disp' = [disp EXCEPT ![byTerminal[r.term]].idle = FALSE,
                       ![byTerminal[r.term]].sends = IF @ < SendBound THEN @ + 1 ELSE @]
        BY <2>1, <3>2 DEF RecordSend, RecordSendEffect, gateVars
      <4>2. QED BY <1>0, <4>1 DEF Dispatch
    <3>3. QED BY <3>1, <3>2
  <2>7. r.snap.d \in Bound =>
           disp'[r.snap.d].sends = IF disp[r.snap.d].sends < SendBound
                                   THEN disp[r.snap.d].sends + 1 ELSE disp[r.snap.d].sends
    <3> SUFFICES ASSUME r.snap.d \in Bound
                 PROVE  disp'[r.snap.d].sends = IF disp[r.snap.d].sends < SendBound
                                                THEN disp[r.snap.d].sends + 1
                                                ELSE disp[r.snap.d].sends
      OBVIOUS
    <3>1. PICK t \in Terminals : byTerminal[t] = r.snap.d
      BY DEF Bound
    <3>2. r.snap.d # NoDispatch
      BY <2>4, GateAssumption DEF GateAssumption
    <3>3. t = r.term
      BY <1>0, <2>4, <3>1, <3>2 DEF AtHome, CallsAtHome
    <3>4. disp[r.snap.d].nonce = r.snap.nonce
      BY <1>0, <2>4 DEF SnapOfDispatch
    <3>5. PICK d \in Dispatches : d = r.snap.d
      BY <2>4
    <3>6. disp' = [disp EXCEPT ![d].idle = FALSE,
                     ![d].sends = IF @ < SendBound THEN @ + 1 ELSE @]
      BY <2>1, <3>1, <3>2, <3>3, <3>4, <3>5 DEF RecordSend, RecordSendEffect
    <3>7. QED BY <1>0, <3>5, <3>6 DEF Dispatch
  <2>8. ASSUME NEW d \in Bound'
        PROVE  replies[d] <= disp'[d].sends /\ (disp'[d].state # "done" => replies[d] = 0)
    <3>1. d \in Bound /\ d \in Dispatches /\ replies[d] \in Nat /\ disp[d].sends \in 0..SendBound
          /\ replies[d] <= MaxSends
      BY <1>0, <1>a, <2>5 DEF SendCap
    <3>2. CASE d = r.snap.d
      <4>1. Owed(d) /\ BeingRecorded(d)
        BY <2>3, <3>2 DEF Owed, BeingRecorded
      <4>2. replies[d] <= disp[d].sends + 1 /\ disp[d].state = "done"
        BY <1>0, <3>1, <4>1 DEF Counted
      <4>3. disp'[d].sends = IF disp[d].sends < SendBound THEN disp[d].sends + 1
                                                         ELSE disp[d].sends
        BY <2>7, <3>1, <3>2
      <4>4. PICK x \in Nat, y \in Nat : x = replies[d] /\ y = disp[d].sends /\ y <= SendBound
        BY <1>0, <3>1
      <4>5. replies[d] <= disp'[d].sends
        BY <1>0, <3>1, <4>2, <4>3, <4>4
      <4>6. QED BY <2>6, <3>1, <4>2, <4>5
    <3>3. CASE d # r.snap.d
      <4>1. replies[d] <= disp[d].sends /\ (disp[d].state # "done" => replies[d] = 0)
        BY <1>0, <2>2, <3>1, <3>3 DEF Counted
      <4>2. PICK y \in Nat : y = disp[d].sends
        BY <3>1
      <4>3. replies[d] <= disp'[d].sends
        BY <2>6, <3>1, <4>1, <4>2
      <4>4. QED BY <2>6, <3>1, <4>1, <4>3
    <3>4. QED BY <3>2, <3>3
  <2>9. Counted'
    BY <2>1, <2>2, <2>3, <2>8 DEF Counted
  <2>10. QED BY <1>0, <2>1, <2>2, <2>9 DEF SendCap
<1>8. ASSUME NEW d \in Dispatches, NEW n \in Nonces, NEW t \in Terminals,
             NEW level \in Levels, NEW b \in sweep, DispatchBurst(d, n, t, level, b),
             Register(d, n, t, level, JobOf(b))
      PROVE  Counted' /\ MayReply' /\ SendCap'
  <2>1. JobOf(b) \in Jobs
    BY <1>0, BurstJob
  <2>2. /\ disp'[d].sends = 0 /\ \A e \in Dispatches \ {d} : disp'[e] = disp[e]
        /\ d \notin Bound /\ Bound' \subseteq Bound \cup {d}
    BY <1>0, <1>8, <2>1, GateAssumption, RegisterKeeps
  <2>3. /\ handler' = handler /\ \A h \in Handlers : handler[h].snap.d # d
        /\ replies' = [replies EXCEPT ![d] = 0]
    BY <1>8 DEF DispatchBurst
  <2>4. replies'[d] = 0 /\ \A e \in Dispatches \ {d} : replies'[e] = replies[e]
    BY <1>0, <2>3
  <2>5. /\ \A e : Owed(e)' <=> Owed(e)
        /\ \A e : BeingRecorded(e)' <=> BeingRecorded(e)
        /\ ~Owed(d) /\ ~BeingRecorded(d)
    BY <2>3 DEF Owed, BeingRecorded
  <2>6. Counted'
    BY <1>0, <2>2, <2>4, <2>5 DEF Counted
  <2>7. SendCap'
    BY <1>0, <2>4 DEF SendCap
  <2>8. ASSUME NEW h \in Handlers, handler[h].todo \in {SendScript, DraftScript}
        PROVE  handler[h].snap.d \in Dispatches
    BY <1>0, <2>8, OwingIsATurn DEF Proper
  <2>9. MayReply'
    BY <1>0, <2>3, <2>4, <2>8 DEF MayReply, OwnChat
  <2>10. QED BY <2>6, <2>7, <2>9
<1>9. CASE Crash
  <2>1. Restart
    BY <1>9 DEF Crash
  <2>2. Bound' = {}
    BY <2>1, GateAssumption, RestartKeeps
  <2>3. \A h \in Handlers : handler'[h].todo \notin {SendScript, DraftScript}
    BY <1>9, IdleIsProper, TodoOfTool, OwingIsATurn DEF Crash
  <2>4. replies' = [d \in Dispatches |-> 0]
    BY <1>9 DEF Crash
  <2>5. QED BY <1>0, <2>2, <2>3, <2>4 DEF Counted, MayReply, SendCap
<1>10. ASSUME GateStep \/ (\E t \in Terminals : OpenTurn(t)) \/ UNCHANGED <<disp, byTerminal>>
               \/ UNCHANGED disp,
              UNCHANGED <<handler, replies>>, QuietGate
       PROVE  Counted' /\ MayReply' /\ SendCap'
  <2> DEFINE Same == \A d \in Dispatches :
                        /\ disp'[d].sends = disp[d].sends
                        /\ disp'[d].state = "done" <=> disp[d].state = "done"
  <2>1. ASSUME NEW d \in Dispatches, Age(d) PROVE Same
    BY <1>0, <2>1 DEF Age, Dispatch
  <2>2. ASSUME UNCHANGED disp PROVE Same
    BY <2>2
  <2>3. ASSUME NEW t \in Terminals, NEW n \in Nonces, GetInstructions(t, n) PROVE Same
    BY <1>0, <2>3 DEF GetInstructions, Dispatch
  <2>4. ASSUME NEW t \in Terminals, NEW tok \in Dispatches \cup {NoDispatch}, Unlock(t, tok)
        PROVE  Same
    BY <1>0, <2>4 DEF Unlock, Dispatch
  <2>5. ASSUME NEW t \in Terminals, OpenTurn(t) PROVE Same
    BY <1>0, <2>5 DEF OpenTurn, AdvanceToReady, Dispatch
  <2>6. Same
    BY <1>10, <2>1, <2>2, <2>3, <2>4, <2>5 DEF GateStep, Sweep
  <2>7. QED BY <1>1, <1>b, <1>10, <2>6
<1>11. ASSUME GateStep \/ (\E t \in Terminals : OpenTurn(t)) \/ Deliver \/ DeliveryFails
              \/ UNCHANGED <<vars, handler, replies>>
       PROVE  Counted' /\ MayReply' /\ SendCap'
  <2>1. CASE GateStep
    BY <1>10, <2>1 DEF GateStep, QuietGate, sendVars
  <2>2. ASSUME NEW t \in Terminals, OpenTurn(t)
        PROVE  Counted' /\ MayReply' /\ SendCap'
    BY <1>10, <2>2 DEF OpenTurn, QuietGate
  <2>3. CASE Deliver \/ DeliveryFails
    <3>1. UNCHANGED disp /\ UNCHANGED <<handler, replies>> /\ QuietGate
      BY <2>3 DEF Deliver, DeliveryFails, InjectOk, InjectFail, CancelDispatch, gateVars,
                  QuietGate, sendVars
    <3>2. QED BY <3>1, <1>10
  <2>4. CASE UNCHANGED <<vars, handler, replies>>
    BY <1>10, <2>4 DEF QuietGate, vars
  <2>5. QED BY <1>11, <2>1, <2>2, <2>3, <2>4
<1>12. \/ GateStep \/ (\E t \in Terminals : OpenTurn(t)) \/ Deliver \/ DeliveryFails
       \/ UNCHANGED <<vars, handler, replies>>
       \/ \E h \in Handlers, t \in Terminals, tool \in Tools, to \in Chats :
             Call(h, t, tool, to)
       \/ \E h \in Handlers : \/ Reply(h) \/ MarkTo(h) \/ MarkOwn(h)
                              \/ ConsumeTurn(h) \/ RecordTurn(h)
       \/ \E d \in Dispatches, n \in Nonces, t \in Terminals, level \in Levels,
             b \in sweep : DispatchBurst(d, n, t, level, b)
       \/ Crash
  BY DEF SendNext, allVars, sendVars, Arrive, SweepOnce, SkipBurst
<1>13. ASSUME NEW d \in Dispatches, NEW n \in Nonces, NEW t \in Terminals,
              NEW level \in Levels, NEW b \in sweep, DispatchBurst(d, n, t, level, b)
       PROVE  Counted' /\ MayReply' /\ SendCap'
  <2>1. Register(d, n, t, level, JobOf(b))
    BY <1>13 DEF DispatchBurst, JobOf
  <2>2. QED BY <1>8, <1>13, <2>1
<1>14. QED
  BY <1>2, <1>4, <1>5, <1>6, <1>7, <1>9, <1>11, <1>12, <1>13

LEMMA CapInvInit == ASSUME SendInit PROVE CapInv
<1>1. Bound = {} /\ \A t \in Terminals : byTerminal[t] = NoDispatch
  BY GateAssumption DEF SendInit, Init, Bound, GateAssumption
<1>2. \A h \in Handlers : handler[h].todo \notin TurnTodos
  BY IdleIsProper, TodoOfTool DEF SendInit
<1>3. AtHome
  BY <1>1 DEF SendInit, Init, Blank, AtHome
<1>4. CallsAtHome /\ Counted
  BY <1>1, <1>2 DEF CallsAtHome, Counted
<1>5. MayReply
  BY <1>2, OwingIsATurn DEF MayReply
<1>6. SendCap
  BY SendAssumption DEF SendInit, SendCap, SendAssumption
<1>7. QED BY <1>3, <1>4, <1>5, <1>6 DEF CapInv

(* A dispatch lets at most MaxSends replies through to its own chat, across*)
(* crashes, sweeps, replacements and late handlers, as long as tool calls  *)
(* come one after the other and no dispatch is bound under a second key.   *)
(* (Without the first, two calls pass the same count; without the second,  *)
(* a send is not counted when the key it came by was given away.)          *)
THEOREM SendSafeHolds ==
    ASSUME \A h, k \in Handlers : h = k, Agents = {}, MaxSends <= SendBound
    PROVE  SendSpec => []SendSafe
<1> DEFINE IInv == TurnInv /\ CapInv
<1>1. SendInit => IInv
  BY TurnInvInit, CapInvInit
<1>2. IInv /\ [SendNext]_allVars => IInv'
  <2> SUFFICES ASSUME TurnInv, CapInv, [SendNext]_allVars
               PROVE  TurnInv' /\ CapInv'
    OBVIOUS
  <2>1. AtHome' /\ CallsAtHome'
    BY AtHomeStep DEF CapInv
  <2>2. Counted' /\ MayReply' /\ SendCap'
    BY CountedStep
  <2>3. QED BY <2>1, <2>2, TurnInvStep DEF CapInv
<1>3. IInv => SendSafe
  BY TypesImply DEF TurnInv, CapInv, SendSafe
<1>4. QED BY <1>1, <1>2, <1>3, PTL DEF SendSpec

=============================================================================
