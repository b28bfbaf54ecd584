------------------------------ MODULE M2MProofs -----------------------------
(***************************************************************************)
(* The margin of calculateNextUpdate absorbs that much issuer latency, for *)
(* every set of lifetimes and every positive margin.  The strengthening    *)
(* follows the headroom: a goroutine in its select holds a token that      *)
(* outlives the timer by exactly the headroom of its lifetime (a due timer *)
(* holds up time until it fires), and during an issuer call the token's    *)
(* remaining time and the call's duration add up to that headroom, until   *)
(* the token runs out.                                                     *)
(***************************************************************************)
EXTENDS M2M, TLAPS

HeadroomKept ==
    /\ refresher = "select" => tokenLeft = timerLeft + Headroom(issued)
    /\ refresher = "update" /\ tokenLeft > 0 =>
           tokenLeft + callTime = Headroom(issued)
    /\ refresher = "update" /\ tokenLeft = 0 => callTime >= Headroom(issued)

IInv == TypeOK /\ HeadroomKept

\* A refresh re-arms the timer exactly the headroom ahead of the new expiry,
\* and the headroom is a positive number of minutes no larger than Margin.
LEMMA NextUpdateAhead ==
    ASSUME NEW e \in ExpiresIn
    PROVE  /\ CalculateNextUpdate(e) \in Nat
           /\ e = CalculateNextUpdate(e) + Headroom(e)
           /\ Headroom(e) \in 1..Margin
BY M2MAssumption DEF CalculateNextUpdate, Headroom

LEMMA InitIInv == Init => IInv
<1> SUFFICES ASSUME Init PROVE IInv
  OBVIOUS
<1>1. PICK e \in ExpiresIn :
        /\ tokenLeft = e /\ issued = e /\ timerLeft = CalculateNextUpdate(e)
        /\ refresher = "select" /\ ctxDone = FALSE /\ callTime = 0
  BY DEF Init
<1>2. /\ CalculateNextUpdate(e) \in Nat
      /\ e = CalculateNextUpdate(e) + Headroom(e)
      /\ Headroom(e) \in 1..Margin
  BY NextUpdateAhead
<1>3. TypeOK
  <2>1. tokenLeft \in Nat /\ issued \in ExpiresIn /\ timerLeft \in Nat
    BY <1>1, <1>2, M2MAssumption
  <2>2. callTime \in 0..Margin
    BY <1>1, M2MAssumption
  <2>. QED  BY <1>1, <2>1, <2>2 DEF TypeOK
<1>4. HeadroomKept
  BY <1>1, <1>2 DEF HeadroomKept
<1>. QED  BY <1>3, <1>4 DEF IInv

LEMMA NextIInv == IInv /\ [Next]_vars => IInv'
<1> SUFFICES ASSUME IInv, [Next]_vars PROVE IInv'
  OBVIOUS
<1>0. Headroom(issued) \in 1..Margin
  BY NextUpdateAhead DEF IInv, TypeOK
<1>1. CASE Tick
  \* In the select the timer is not due, so both counters move down; in a
  \* call the call's time moves up while the token's moves down.
  <2>1. CASE refresher = "select"
    BY <1>0, <1>1, <2>1 DEF Tick, IInv, TypeOK, HeadroomKept
  <2>2. CASE refresher = "update"
    <3>1. /\ tokenLeft' = IF tokenLeft > 0 THEN tokenLeft - 1 ELSE 0
          /\ callTime' = IF callTime < Margin THEN callTime + 1 ELSE callTime
          /\ UNCHANGED <<issued, refresher, ctxDone>>
          /\ timerLeft' \in Nat
      BY <1>1, <2>2 DEF Tick, IInv, TypeOK
    <3>2. CASE tokenLeft > 0
      \* The call has taken less than the headroom, so less than Margin.
      <4>1. callTime < Margin /\ tokenLeft + callTime = Headroom(issued)
        BY <1>0, <2>2, <3>2, M2MAssumption DEF IInv, TypeOK, HeadroomKept
      <4>. QED  BY <1>0, <2>2, <3>1, <3>2, <4>1, M2MAssumption
                DEF IInv, TypeOK, HeadroomKept
    <3>3. CASE tokenLeft = 0
      BY <1>0, <2>2, <3>1, <3>3, M2MAssumption DEF IInv, TypeOK, HeadroomKept
    <3>. QED  BY <3>2, <3>3 DEF IInv, TypeOK
  <2>3. CASE refresher = "returned"
    BY <1>1, <2>3 DEF Tick, IInv, TypeOK, HeadroomKept
  <2>. QED  BY <2>1, <2>2, <2>3 DEF IInv, TypeOK
<1>2. CASE Fire
  \* The timer is due: the token has exactly the headroom left.
  <2>1. tokenLeft = Headroom(issued) /\ refresher' = "update" /\ callTime' = 0
        /\ UNCHANGED <<tokenLeft, issued, timerLeft, ctxDone>>
    BY <1>0, <1>2 DEF Fire, IInv, TypeOK, HeadroomKept
  <2>2. TypeOK'
    BY <2>1, M2MAssumption DEF IInv, TypeOK
  <2>3. HeadroomKept'
    BY <1>0, <2>1 DEF HeadroomKept
  <2>. QED  BY <2>2, <2>3 DEF IInv
<1>3. CASE RefreshOk
  <2>1. PICK e \in ExpiresIn :
          tokenLeft' = e /\ issued' = e /\ timerLeft' = CalculateNextUpdate(e)
    BY <1>3 DEF RefreshOk
  <2>2. /\ CalculateNextUpdate(e) \in Nat
        /\ e = CalculateNextUpdate(e) + Headroom(e)
        /\ Headroom(e) \in 1..Margin
    BY NextUpdateAhead
  <2>. QED  BY <1>3, <2>1, <2>2 DEF RefreshOk, IInv, TypeOK, HeadroomKept
<1>4. CASE RefreshFail
  BY <1>4 DEF RefreshFail, IInv, TypeOK, HeadroomKept
<1>5. CASE Cancel
  BY <1>5 DEF Cancel, IInv, TypeOK, HeadroomKept
<1>6. CASE Return
  BY <1>6 DEF Return, IInv, TypeOK, HeadroomKept
<1>7. CASE UNCHANGED vars
  BY <1>7 DEF vars, IInv, TypeOK, HeadroomKept
<1>. QED  BY <1>1, <1>2, <1>3, <1>4, <1>5, <1>6, <1>7 DEF Next

LEMMA AlwaysIInv == Spec => []IInv
BY InitIInv, NextIInv, PTL DEF Spec

\* The headroom is positive, so the goroutine in its select never holds an
\* expired token, and an issuer call outlives the token only after taking
\* the headroom.
LEMMA IInvCoversLatency == IInv => MarginCoversIssuerLatency
BY NextUpdateAhead DEF IInv, TypeOK, HeadroomKept, MarginCoversIssuerLatency

\* However long the identity provider takes to answer (m2m.go:80 has no
\* timeout), Token() hands out an expired token only during an issuer call
\* that has taken the ten-minute margin of calculateNextUpdate
\* (m2m.go:57, 71, 89-90), or the whole lifetime of a shorter token.
THEOREM MarginCoversIssuerLatencyHolds == Spec => []MarginCoversIssuerLatency
BY AlwaysIInv, IInvCoversLatency, PTL

=============================================================================
