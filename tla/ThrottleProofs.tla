--------------------------- MODULE ThrottleProofs ---------------------------
(***************************************************************************)
(* Proofs about module Throttle, for any connections, any headers and any  *)
(* bound of the clock.                                                     *)
(***************************************************************************)
EXTENDS Throttle, TLAPS

LEMMA TypeInit == Init => TypeOK
  BY ThrottleAssumption DEF Init, TypeOK

LEMMA TypeStep == TypeOK /\ [Next]_vars => TypeOK'
  <1> SUFFICES ASSUME TypeOK, [Next]_vars PROVE TypeOK'
    OBVIOUS
  <1> USE ThrottleAssumption DEF TypeOK
  <1>1. CASE Tick
    BY <1>1 DEF Tick
  <1>2. ASSUME NEW c \in Client, MessageBegin(c) PROVE TypeOK'
    BY <1>2 DEF MessageBegin
  <1>3. ASSUME NEW c \in Client, NEW value \in HeaderValue, MessageHeader(c, value)
        PROVE  TypeOK'
    BY <1>3 DEF MessageHeader
  <1>4. ASSUME NEW c \in Client, NEW too_many \in BOOLEAN, MessageEnd(c, too_many)
        PROVE  TypeOK'
    BY <1>4 DEF MessageEnd, WithHeader, WithDefault, Later
  <1>5. CASE UNCHANGED vars
    BY <1>5 DEF vars
  <1>6. QED
    BY <1>1, <1>2, <1>3, <1>4, <1>5 DEF Next

\* The times that are kept are times, and those of the contract are ones that
\* a header has announced.
THEOREM TypeCorrect == Spec => []TypeOK
  BY TypeInit, TypeStep, PTL DEF Spec

\* Headers are numbers of seconds, which are nothing against the clock; the
\* default back-off starts only where there was none.
LEMMA BoundedStep == TypeOK /\ BackoffBounded /\ [Next]_vars => BackoffBounded'
  <1> SUFFICES ASSUME TypeOK, BackoffBounded, [Next]_vars PROVE BackoffBounded'
    OBVIOUS
  <1> USE ThrottleAssumption DEF TypeOK, BackoffBounded
  <1>1. CASE Tick
    BY <1>1 DEF Tick
  <1>2. ASSUME NEW c \in Client, MessageBegin(c) PROVE BackoffBounded'
    BY <1>2 DEF MessageBegin
  <1>3. ASSUME NEW c \in Client, NEW value \in HeaderValue, MessageHeader(c, value)
        PROVE  BackoffBounded'
    BY <1>3 DEF MessageHeader
  <1>4. ASSUME NEW c \in Client, NEW too_many \in BOOLEAN, MessageEnd(c, too_many)
        PROVE  BackoffBounded'
    <2>1. global \in Nat /\ global <= now
      OBVIOUS
    <2>2. WithHeader(retry_after, global) <= now + DefaultBackoff
      BY <2>1 DEF WithHeader, Later
    <2> QED
      BY <1>4, <2>2 DEF MessageEnd, WithDefault
  <1>5. CASE UNCHANGED vars
    BY <1>5 DEF vars
  <1>6. QED
    BY <1>1, <1>2, <1>3, <1>4, <1>5 DEF Next

\* Whatever the headers say and however responses overlap, no client is held
\* back for longer than the default.
THEOREM Bounded == Spec => []BackoffBounded
  <1>1. Init => BackoffBounded
    BY ThrottleAssumption DEF Init, BackoffBounded
  <1>2. QED
    BY <1>1, TypeInit, TypeStep, BoundedStep, PTL DEF Spec
=============================================================================
