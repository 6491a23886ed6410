-------------------------- MODULE RoundRobinProofs --------------------------
(***************************************************************************)
(* Proofs about module RoundRobin, for any number of connections.          *)
(***************************************************************************)
EXTENDS RoundRobin, WellFoundedInduction, TLAPS

\* The distance of a connection is the offset at which the scan comes to it.
LEMMA DistanceOffset ==
    ASSUME NEW start \in Connection, NEW c \in Connection
    PROVE  /\ Distance(start, c) \in Connection
           /\ At(start, Distance(start, c)) = c
           /\ \A offset \in Connection : At(start, offset) = c => offset = Distance(start, c)
  BY NAssumption DEF At, Connection, Distance

\* A scan that starts behind a connection comes sooner to those farther off.
LEMMA DistanceShrinks ==
    ASSUME NEW start \in Connection, NEW chosen \in Connection, NEW c \in Connection,
           Distance(start, chosen) < Distance(start, c)
    PROVE  /\ Behind(chosen) \in Connection
           /\ Distance(Behind(chosen), c) < Distance(start, c)
  BY NAssumption DEF Behind, Connection, Distance

\* The next scan starts within the connections.
LEMMA BehindConnection ==
    ASSUME NEW chosen \in Connection
    PROVE  Behind(chosen) \in Connection
  BY NAssumption DEF Behind, Connection

\* Among ready connections the one chosen has the smallest distance.
LEMMA ChosenIsNearest ==
    ASSUME TypeOK, NEW chosen \in Connection, IsNext(chosen),
           NEW c \in Connection, ready[c], c # chosen
    PROVE  Distance(index, chosen) < Distance(index, c)
  <1>1. PICK offset \in 0 .. N - 1 :
            /\ chosen = At(index, offset)
            /\ \A earlier \in 0 .. offset - 1 : ~ready[At(index, earlier)]
    BY DEF IsNext
  <1>2. offset = Distance(index, chosen)
    BY <1>1, DistanceOffset DEF TypeOK, Connection
  <1>3. /\ At(index, Distance(index, c)) = c /\ Distance(index, c) \in Connection
        /\ At(index, Distance(index, chosen)) = chosen
    BY DistanceOffset DEF TypeOK
  <1>4. Distance(index, c) \notin 0 .. offset - 1
    BY <1>1, <1>3
  <1>5. Distance(index, c) # offset
    BY <1>2, <1>3
  <1>6. QED
    BY <1>2, <1>3, <1>4, <1>5, NAssumption DEF Connection

\* A set of numbers has a smallest one.
LEMMA Smallest ==
    ASSUME NEW numbers \in SUBSET Nat, NEW n \in numbers
    PROVE  \E least \in numbers : \A other \in numbers : least <= other
  <1> DEFINE Less == OpToRel(<, Nat)
  <1>1. IsWellFoundedOn(Less, Nat)
    BY NatLessThanWellFounded
  <1>2. PICK least \in numbers : \A other \in numbers : <<other, least>> \notin Less
    BY <1>1, WFMin
  <1>3. \A a, b \in Nat : <<a, b>> \in Less <=> a < b
    BY DEF OpToRel
  <1>4. \A other \in numbers : ~(other < least)
    BY <1>2, <1>3
  <1>5. QED
    BY <1>4

LEMMA InitIInv == Init => IInv
  BY NAssumption DEF Init, IInv, TypeOK, Connection, Distance

\* Choosing a connection brings every other ready one at least one step closer,
\* which pays for the action it did not get.
LEMMA GetNextStep ==
    ASSUME IInv, NEW chosen \in Connection, GetNext(chosen)
    PROVE  IInv'
  <1>1. /\ index \in Connection /\ index' = Behind(chosen) /\ index' \in Connection
        /\ waited \in [Connection -> Nat] /\ ready \in [Connection -> BOOLEAN]
    BY BehindConnection DEF IInv, TypeOK, GetNext
  <1>2. TypeOK'
    BY <1>1 DEF TypeOK, GetNext
  <1>3. ASSUME NEW c \in Connection
        PROVE  waited'[c] + Distance(index', c) <= N - 1
    <2>1. Distance(index', c) \in Connection /\ Distance(index, c) \in Connection
      BY <1>1, DistanceOffset
    <2>2. CASE ready[c] /\ c # chosen
      <3>1. Distance(index', c) < Distance(index, c)
        BY <1>1, <2>2, ChosenIsNearest, DistanceShrinks DEF IInv, GetNext
      <3>2. waited'[c] = waited[c] + 1
        BY <2>2 DEF GetNext
      <3>3. waited[c] + Distance(index, c) <= N - 1
        BY DEF IInv
      <3>4. waited[c] \in Nat
        BY <1>1
      <3>5. QED
        BY <2>1, <3>1, <3>2, <3>3, <3>4, NAssumption DEF Connection
    <2>3. CASE ~(ready[c] /\ c # chosen)
      <3>1. waited'[c] = 0
        BY <2>3 DEF GetNext
      <3>2. QED
        BY <2>1, <3>1, NAssumption DEF Connection
    <2>4. QED
      BY <2>2, <2>3
  <1>4. QED
    BY <1>2, <1>3 DEF IInv

LEMMA ToggleStep ==
    ASSUME IInv, NEW c \in Connection, Toggle(c)
    PROVE  IInv'
  <1>1. TypeOK'
    BY DEF IInv, TypeOK, Toggle
  <1>2. ASSUME NEW d \in Connection
        PROVE  waited'[d] + Distance(index', d) <= N - 1
    <2>1. index' = index /\ Distance(index, d) \in Connection
      BY DistanceOffset DEF IInv, TypeOK, Toggle
    <2>2. waited'[d] \in {0, waited[d]}
      BY DEF IInv, TypeOK, Toggle
    <2>3. waited[d] + Distance(index, d) <= N - 1
      BY DEF IInv
    <2>4. QED
      BY <2>1, <2>2, <2>3, NAssumption DEF Connection
  <1>3. QED
    BY <1>1, <1>2 DEF IInv

\* The invariant holds in every reachable state.
THEOREM InductiveInvariant == Spec => []IInv
  <1>1. IInv /\ [Next]_vars => IInv'
    <2>1. ASSUME IInv, UNCHANGED vars PROVE IInv'
      BY <2>1 DEF vars, IInv, TypeOK
    <2>2. QED
      BY <2>1, GetNextStep, ToggleStep DEF Next
  <1>2. QED
    BY <1>1, InitIInv, PTL DEF Spec

\* index_ always names a connection, whichever were ready, chosen and lost.
THEOREM TypeCorrect == Spec => []TypeOK
  <1>1. IInv => TypeOK
    BY DEF IInv
  <1>2. QED
    BY <1>1, InductiveInvariant, PTL

\* A ready connection at distance d shows that some offset ends the scan; of the
\* offsets that do, the smallest is the connection that is chosen.
LEMMA ScanEnds ==
    ASSUME TypeOK, NEW c \in Connection, ready[c]
    PROVE  \E d \in Connection : IsNext(d)
  <1> DEFINE Ends == {offset \in 0 .. N - 1 : ready[At(index, offset)]}
  <1>1. Distance(index, c) \in Ends
    BY DistanceOffset DEF TypeOK, Connection
  <1>2. Ends \in SUBSET Nat
    BY NAssumption
  <1>3. PICK offset \in Ends : \A other \in Ends : offset <= other
    <2> HIDE DEF Ends
    <2> QED
      BY <1>1, <1>2, Smallest
  <1>4. \A earlier \in 0 .. offset - 1 : ~ready[At(index, earlier)]
    BY <1>3, NAssumption
  <1>5. At(index, offset) \in Connection
    BY <1>3, NAssumption DEF At, Connection, TypeOK
  <1>6. IsNext(At(index, offset))
    BY <1>3, <1>4 DEF IsNext
  <1>7. QED
    BY <1>5, <1>6

\* NotReady is thrown only when no connection is ready, for any number N of
\* connections.
THEOREM ScanMissesNone == Spec => []ThrowsOnlyIfNoneReady
  <1>1. TypeOK => ThrowsOnlyIfNoneReady
    BY ScanEnds DEF ThrowsOnlyIfNoneReady
  <1>2. QED
    BY <1>1, TypeCorrect, PTL

\* A connection that stays ready gets one of any N consecutive order actions,
\* for any number N of connections.
THEOREM NeverPassedOver == Spec => []NotPassedOver
  <1>1. IInv => NotPassedOver
    <2> SUFFICES ASSUME IInv, NEW c \in Connection PROVE waited[c] < N
      BY DEF NotPassedOver
    <2>1. Distance(index, c) \in Connection /\ waited[c] \in Nat
      BY DistanceOffset DEF IInv, TypeOK
    <2>2. waited[c] + Distance(index, c) <= N - 1
      BY DEF IInv
    <2>3. QED
      BY <2>1, <2>2, NAssumption DEF Connection
  <1>2. QED
    BY <1>1, InductiveInvariant, PTL
=============================================================================
