------------------------ MODULE SnapshotRotateProofs ------------------------
(***************************************************************************)
(* Proofs about snapshot-rotate.sh, for any guests, retention, number of   *)
(* runs and bounds: its variables stay within their types, overlapping     *)
(* runs implement module Retention, and snapshots do not pile up.          *)
(***************************************************************************)
EXTENDS SnapshotRotate, FiniteSetTheorems, WellFoundedInduction, TLAPS

-----------------------------------------------------------------------------
(* Counting newer snapshots *)

NewerIn(S, s) == {u \in S : u > s}

\* Of a larger set more elements are newer.
LEMMA MoreAreNewer ==
  ASSUME NEW T, IsFiniteSet(T), NEW S \in SUBSET T, NEW s
  PROVE  /\ Cardinality(NewerIn(S, s)) \in Nat
         /\ Cardinality(NewerIn(T, s)) \in Nat
         /\ Cardinality(NewerIn(S, s)) <= Cardinality(NewerIn(T, s))
<1>1. /\ NewerIn(T, s) \in SUBSET T
      /\ NewerIn(S, s) \in SUBSET NewerIn(T, s)
  BY DEF NewerIn
<1>2. IsFiniteSet(NewerIn(T, s))
  BY <1>1, FS_Subset
<1>3. /\ IsFiniteSet(NewerIn(S, s))
      /\ Cardinality(NewerIn(S, s)) <= Cardinality(NewerIn(T, s))
  BY <1>1, <1>2, FS_Subset
<1> QED
  BY <1>2, <1>3, FS_CardinalityType

\* The snapshots up to some minute are finitely many.
LEMMA MinutesFinite ==
  ASSUME NEW t \in Nat, NEW S \in SUBSET (0..t)
  PROVE  IsFiniteSet(S)
<1>1. IsFiniteSet(0..t)
  BY FS_Interval
<1> QED
  BY <1>1, FS_Subset

-----------------------------------------------------------------------------
(* The guest a run is about *)

LEMMA Least ==
  ASSUME NEW S \in SUBSET Nat, S # {}
  PROVE  \E m \in S : \A n \in S : m <= n
<1> DEFINE Less == OpToRel(<, Nat)
<1>1. IsWellFoundedOn(Less, Nat)
  BY NatLessThanWellFounded
<1>2. \A x, y \in Nat : <<y, x>> \in Less <=> y < x
  BY DEF OpToRel
<1> HIDE DEF Less
<1>3. PICK m \in S : \A n \in S : <<n, m>> \notin Less
  BY <1>1, WFMin
<1>4. ASSUME NEW n \in S
      PROVE  m <= n
  <2>1. ~(n < m)
    BY <1>2, <1>3
  <2> QED
    BY <2>1
<1> QED
  BY <1>4

\* A run at work is about one of its guests, and so in a lane of the node.
LEMMA LaneOK ==
  ASSUME TypeOK, NEW r \in Runs, pc[r] # "idle"
  PROVE  Guest(r) \in todo[r] /\ Lane(r) \in Lanes
<1>1. todo[r] \in SUBSET Guests /\ kind[r] \in Kinds
  BY DEF TypeOK
<1>2. todo[r] \in SUBSET Nat /\ todo[r] # {}
  BY <1>1, GuestsAssumption DEF TypeOK
<1>3. \E g \in todo[r] : \A h \in todo[r] : g <= h
  BY <1>2, Least
<1>4. Guest(r) \in todo[r]
  BY <1>3 DEF Guest
<1> QED
  BY <1>1, <1>4 DEF Lane, Lanes

-----------------------------------------------------------------------------
(* Types *)

LEMMA TypeInit == Init => TypeOK
  BY DEF Init, TypeOK, Kinds

LEMMA TypeStep ==
  ASSUME TypeOK, [Next]_vars
  PROVE  TypeOK'
<1> USE DEF TypeOK, clock
<1>1. ASSUME NEW r \in Runs, NEW ok \in BOOLEAN, Create(r, ok)
      PROVE  TypeOK'
  BY <1>1 DEF Create, AfterCreate, Goto, Kinds, Fault
<1>2. ASSUME NEW r \in Runs, NEW ok \in BOOLEAN, List(r, ok)
      PROVE  TypeOK'
  <2>0. Lane(r) \in Lanes
    BY <1>2, LaneOK DEF List
  <2>1. Excess(Lane(r)) \in SUBSET (0..now)
    BY <2>0 DEF Excess
  <2>2. missed' \in [Lanes -> BOOLEAN]
    <3>1. PICK b \in BOOLEAN : b = ~ok
      OBVIOUS
    <3>2. missed' = [missed EXCEPT ![Lane(r)] = b]
      BY <1>2, <3>1, Zenon DEF List
    <3> QED
      BY <3>2
  <2>3. dels' \in [Runs -> SUBSET (0..now)] /\ now' = now
    BY <1>2, <2>1 DEF List
  <2>4. /\ faults' \in Nat
        /\ UNCHANGED <<starts, stamp, sunday, todo, snaps, made>>
    BY <1>2 DEF List, Fault
  <2>5. /\ pc' \in [Runs -> {"idle", "clock", "create", "list", "prune"}]
        /\ kind' \in [Runs -> Kinds]
        /\ \A q \in Runs : pc'[q] = "idle" <=> todo'[q] = {}
    BY <1>2, <2>4 DEF List, Goto, Kinds
  <2> QED
    BY <2>2, <2>3, <2>4, <2>5
<1>3. ASSUME NEW r \in Runs, NEW s \in dels[r], NEW ok \in BOOLEAN, Delete(r, s, ok)
      PROVE  TypeOK'
  <2>1. /\ now' = now /\ faults' \in Nat
        /\ UNCHANGED <<starts, pc, stamp, sunday, todo, kind, made>>
    BY <1>3 DEF Delete, Fault
  <2>2. dels' \in [Runs -> SUBSET (0..now)]
    BY <1>3 DEF Delete
  <2>3. snaps' \in [Lanes -> SUBSET (0..now)]
    BY <1>3 DEF Delete
  <2>4. missed' \in [Lanes -> BOOLEAN]
    BY <1>3 DEF Delete
  <2> QED
    BY <2>1, <2>2, <2>3, <2>4
<1>4. ASSUME NEW r \in Runs, Pruned(r)
      PROVE  TypeOK'
  BY <1>4 DEF Pruned, Goto, Kinds
<1>5. ASSUME NEW r \in Runs, Kill(r)
      PROVE  TypeOK'
  BY <1>5 DEF Kill, Goto, Kinds, Fault
<1>6. ASSUME NEW r \in Runs, NEW guests \in SUBSET Guests, Start(r, guests)
      PROVE  TypeOK'
  BY <1>6 DEF Start, Goto, Kinds
<1>7. ASSUME NEW r \in Runs, ReadDay(r)
      PROVE  TypeOK'
  BY <1>7 DEF ReadDay, Goto, Kinds
<1>8. CASE Tick
  BY <1>8 DEF Tick, run
<1>9. CASE UNCHANGED vars
  BY <1>9 DEF vars, run
<1> QED
  BY <1>1, <1>2, <1>3, <1>4, <1>5, <1>6, <1>7, <1>8, <1>9 DEF Next, Step

-----------------------------------------------------------------------------
(* What runs are to delete *)

\* Enough snapshots newer than s were made in lane l.
Enough(l, s) == Cardinality(NewerIn(made[l], s)) >= Keep[l[2]]

\* What is there was made; only a run that prunes has anything to delete, and
\* enough newer snapshots were made than what it is to delete.
IInv ==
  /\ TypeOK
  /\ now <= MaxTime
  /\ \A l \in Lanes : snaps[l] \subseteq made[l]
  /\ \A r \in Runs : pc[r] # "prune" => dels[r] = {}
  /\ \A r \in Runs : \A s \in dels[r] : Enough(Lane(r), s)

\* Making snapshots does not make a snapshot any newer.
LEMMA EnoughStays ==
  ASSUME TypeOK, TypeOK', NEW l \in Lanes, made[l] \subseteq made'[l],
         NEW s, Enough(l, s)
  PROVE  Enough(l, s)'
<1>1. PICK k \in Nat : k = Keep[l[2]]
  BY KeepAssumption DEF Lanes
<1>2. PICK T : T = made'[l]
  OBVIOUS
<1>3. PICK t \in Nat : T \in SUBSET (0..t)
  BY <1>2 DEF TypeOK
<1>4. IsFiniteSet(T)
  BY <1>3, MinutesFinite
<1>5. PICK S \in SUBSET T : S = made[l]
  BY <1>2
<1>6. /\ Cardinality(NewerIn(S, s)) \in Nat
      /\ Cardinality(NewerIn(T, s)) \in Nat
      /\ Cardinality(NewerIn(S, s)) <= Cardinality(NewerIn(T, s))
  BY <1>4, MoreAreNewer
<1>7. Cardinality(NewerIn(S, s)) >= k
  BY <1>1, <1>5 DEF Enough
<1>8. Cardinality(NewerIn(T, s)) >= k
  BY <1>6, <1>7
<1> QED
  BY <1>1, <1>2, <1>8 DEF Enough

\* What a listing finds to be too many has enough newer snapshots.
LEMMA ExcessEnough ==
  ASSUME TypeOK, NEW l \in Lanes, snaps[l] \subseteq made[l], NEW s \in Excess(l)
  PROVE  Enough(l, s)
<1>1. PICK k \in Nat : k = Keep[l[2]]
  BY KeepAssumption DEF Lanes
<1>2. PICK T : T = made[l]
  OBVIOUS
<1>3. PICK t \in Nat : T \in SUBSET (0..t)
  BY <1>2 DEF TypeOK
<1>4. IsFiniteSet(T)
  BY <1>3, MinutesFinite
<1>5. PICK S \in SUBSET T : S = snaps[l]
  BY <1>2
<1>6. /\ Cardinality(NewerIn(S, s)) \in Nat
      /\ Cardinality(NewerIn(T, s)) \in Nat
      /\ Cardinality(NewerIn(S, s)) <= Cardinality(NewerIn(T, s))
  BY <1>4, MoreAreNewer
<1>7. Cardinality(NewerIn(S, s)) >= k
  BY <1>1, <1>5 DEF Excess, NewerIn
<1>8. Cardinality(NewerIn(T, s)) >= k
  BY <1>6, <1>7
<1> QED
  BY <1>1, <1>2, <1>8 DEF Enough

LEMMA InvInit == Init => IInv
<1> SUFFICES ASSUME Init PROVE IInv
  OBVIOUS
<1>1. TypeOK
  BY TypeInit
<1> QED
  BY <1>1, BoundsAssumption DEF Init, IInv

\* Nothing made is forgotten.
LEMMA MadeGrows ==
  ASSUME TypeOK, [Next]_vars
  PROVE  \A l \in Lanes : made[l] \subseteq made'[l]
  BY DEF TypeOK, Next, Step, Create, List, Delete, Pruned, Kill, Start, ReadDay, Tick, vars

LEMMA InvStep ==
  ASSUME IInv, [Next]_vars
  PROVE  IInv'
<1>1. TypeOK /\ TypeOK'
  BY TypeStep DEF IInv
<1>2. now' <= MaxTime
  <2>1. CASE Tick
    BY <1>1, <2>1, BoundsAssumption DEF Tick, TypeOK
  <2>2. CASE now' = now
    BY <2>2 DEF IInv
  <2> QED
    BY <2>1, <2>2 DEF Next, Step, Create, List, Delete, Pruned, Kill, Start, ReadDay, vars
<1>3. \A l \in Lanes : snaps'[l] \subseteq made'[l]
  <2>1. /\ \A l \in Lanes : snaps[l] \subseteq made[l]
        /\ snaps \in [Lanes -> SUBSET (0..now)]
        /\ made \in [Lanes -> SUBSET (0..now)]
    BY DEF IInv, TypeOK
  <2>2. ASSUME NEW r \in Runs, NEW ok \in BOOLEAN, Create(r, ok)
        PROVE  \A l \in Lanes : snaps'[l] \subseteq made'[l]
    BY <2>1, <2>2 DEF Create
  <2>3. ASSUME NEW r \in Runs, NEW s \in dels[r], NEW ok \in BOOLEAN, Delete(r, s, ok)
        PROVE  \A l \in Lanes : snaps'[l] \subseteq made'[l]
    BY <2>1, <2>3 DEF Delete
  <2> QED
    BY <2>1, <2>2, <2>3 DEF Next, Step, List, Pruned, Kill, Start, ReadDay, Tick, vars
<1>4. \A r \in Runs : pc'[r] # "prune" => dels'[r] = {}
  BY <1>1 DEF IInv, TypeOK, Next, Step, Create, AfterCreate, Goto, List, Delete, Pruned,
            Kill, Start, ReadDay, Tick, vars, run
<1>5. ASSUME NEW q \in Runs, NEW s \in dels'[q]
      PROVE  Enough(Lane(q), s)'
  <2>1. /\ pc'[q] = "prune" /\ pc[q] \in {"list", "prune"}
        /\ todo'[q] = todo[q] /\ kind'[q] = kind[q]
        /\ s \in dels[q] \/ s \in Excess(Lane(q))
    <3>1. pc'[q] = "prune"
      BY <1>4, <1>5
    <3>2. pc \in [Runs -> {"idle", "clock", "create", "list", "prune"}]
          /\ todo \in [Runs -> SUBSET Guests] /\ kind \in [Runs -> Kinds]
          /\ dels \in [Runs -> SUBSET (0..now)]
      BY DEF IInv, TypeOK
    <3> QED
      BY <3>1, <3>2, <1>5 DEF IInv, Next, Step, Create, AfterCreate, Goto, List, Delete,
         Pruned, Kill, Start, ReadDay, Tick, vars, run
  <2>2. Lane(q)' = Lane(q)
    BY <2>1 DEF Lane, Guest
  <2>3. Lane(q) \in Lanes
    BY <1>1, <2>1, LaneOK
  <2>4. PICK l \in Lanes : l = Lane(q)
    BY <2>3
  <2>5. Enough(l, s)
    BY <1>1, <2>1, <2>4, ExcessEnough DEF IInv
  <2>6. Enough(l, s)'
    BY <1>1, <2>5, MadeGrows, EnoughStays
  <2> QED
    BY <2>2, <2>4, <2>6
<1> QED
  BY <1>1, <1>2, <1>3, <1>4, <1>5 DEF IInv

\* Every variable stays within its type, for any guests, runs and retention.
THEOREM Typing == Spec => []TypeOK
<1>1. TypeOK /\ [Next]_vars => TypeOK'
  BY TypeStep
<1> QED
  BY TypeInit, <1>1, PTL DEF Spec

\* What overlapping runs are to delete has enough newer snapshots, always.
THEOREM Invariance == Spec => []IInv
<1>1. IInv /\ [Next]_vars => IInv'
  BY InvStep
<1> QED
  BY InvInit, <1>1, PTL DEF Spec

-----------------------------------------------------------------------------
(* The abstract retention *)

\* Retention has a name of its own for Cardinality.
LEMMA SameCount == \A S : R!Cardinality(S) = Cardinality(S)
  BY DEF Cardinality, R!Cardinality

\* Every step of a run adds a snapshot, drops one that has enough newer ones, or
\* is none of Retention's business.
LEMMA RetentionStep ==
  ASSUME IInv, [Next]_vars
  PROVE  [R!Next]_<<made, snaps>>
<1>1. TypeOK
  BY DEF IInv
<1>2. ASSUME NEW r \in Runs, NEW ok \in BOOLEAN, Create(r, ok)
      PROVE  [R!Next]_<<made, snaps>>
  <2>1. Lane(r) \in Lanes
    BY <1>1, <1>2, LaneOK DEF Create
  <2>2. stamp[r] \in 0..MaxTime
    BY BoundsAssumption DEF IInv, TypeOK
  <2>3. CASE ok /\ stamp[r] \notin snaps[Lane(r)]
    <3>1. R!Add(Lane(r), stamp[r])
      BY <1>2, <2>3 DEF Create, R!Add
    <3> QED
      BY <2>1, <2>2, <3>1 DEF R!Next
  <2> QED
    BY <1>2, <2>3 DEF Create
<1>3. ASSUME NEW r \in Runs, NEW s \in dels[r], NEW ok \in BOOLEAN, Delete(r, s, ok)
      PROVE  [R!Next]_<<made, snaps>>
  <2>1. Lane(r) \in Lanes
    BY <1>1, <1>3, LaneOK DEF Delete
  <2>2. s \in 0..MaxTime
    BY BoundsAssumption DEF IInv, TypeOK
  <2>3. Cardinality(R!Newer(Lane(r), s)) >= Keep[Lane(r)[2]]
    BY DEF IInv, Enough, NewerIn, R!Newer
  <2>4. CASE ok
    <3>1. R!Drop(Lane(r), s)
      BY <1>3, <2>1, <2>3, <2>4, SameCount DEF Delete, R!Drop
    <3> QED
      BY <2>1, <2>2, <3>1 DEF R!Next
  <2> QED
    BY <1>3, <2>4 DEF Delete
<1> QED
  BY <1>2, <1>3 DEF Next, Step, List, Pruned, Kill, Start, ReadDay, Tick, vars

\* Runs of snapshot-rotate.sh that overlap, fail and are killed rotate as module
\* Retention says: a snapshot goes only when enough newer ones have been made.
THEOREM ImplementsRetention == Spec => Rotates
<1>1. Init => R!Init
  BY DEF Init, R!Init
<1> QED
  BY Invariance, RetentionStep, <1>1, PTL DEF Spec, Rotates, R!Spec

-----------------------------------------------------------------------------
(* Snapshots do not pile up *)

\* Of a set of times no more than k have fewer than k newer ones.
LEMMA FewAreNewest ==
  ASSUME NEW t \in Nat, NEW S \in SUBSET (0..t), NEW k \in Nat
  PROVE  Cardinality({s \in S : ~(Cardinality(NewerIn(S, s)) >= k)}) <= k
<1> DEFINE T == {s \in S : ~(Cardinality(NewerIn(S, s)) >= k)}
<1>0. IsFiniteSet(S)
  BY MinutesFinite
<1>1. T \in SUBSET S /\ T \in SUBSET Nat
  <2>1. \A s \in T : s \in S
    BY Zenon
  <2>2. \A s \in S : s \in Nat
    OBVIOUS
  <2> HIDE DEF T
  <2> QED
    BY <2>1, <2>2
<1>2. IsFiniteSet(T)
  BY <1>0, <1>1, FS_Subset
<1>3. CASE T = {}
  BY <1>3, FS_EmptySet
<1>4. CASE T # {}
  <2>1. PICK m \in T : \A n \in T : m <= n
    BY <1>1, <1>4, Least
  <2>2. m \in S /\ ~(Cardinality(NewerIn(S, m)) >= k)
    BY <2>1
  <2> HIDE DEF T
  <2>3. T \ {m} \in SUBSET NewerIn(S, m)
    BY <1>1, <2>1 DEF NewerIn
  <2>4. NewerIn(S, m) \in SUBSET S
    BY DEF NewerIn
  <2>5. IsFiniteSet(NewerIn(S, m))
    BY <1>0, <2>4, FS_Subset
  <2>6. /\ Cardinality(NewerIn(S, m)) \in Nat
        /\ Cardinality(T \ {m}) <= Cardinality(NewerIn(S, m))
    BY <2>3, <2>5, FS_Subset, FS_CardinalityType
  <2>7. Cardinality(T \ {m}) = Cardinality(T) - 1
    BY <1>2, <2>1, FS_RemoveElement
  <2>8. Cardinality(T) \in Nat
    BY <1>2, FS_CardinalityType
  <2>9. Cardinality(T) <= k
    BY <2>2, <2>6, <2>7, <2>8
  <2> QED
    BY <2>9 DEF T
<1> QED
  BY <1>3, <1>4

\* Run r has still to list lane l.
WillList(r, l) ==
  /\ l[1] \in todo[r]
  /\ \/ l[1] # Guest(r)
     \/ pc[r] \in {"clock", "create"}
     \/ pc[r] = "list" /\ (kind[r] = l[2] \/ kind[r] = "daily")
     \/ pc[r] = "prune" /\ kind[r] = "daily" /\ l[2] = "weekly"

\* What some run is to delete in lane l.
Doomed(l) == {s \in snaps[l] : \E r \in Runs : pc[r] = "prune" /\ Lane(r) = l /\ s \in dels[r]}

\* A lane where a run has still to list, or of which all but what is to be kept is
\* about to be deleted.
InHand(l) ==
  \/ missed[l]
  \/ \E r \in Runs : WillList(r, l)
  \/ Cardinality(snaps[l] \ Doomed(l)) <= Keep[l[2]]

AllInHand == \A l \in Lanes : InHand(l)

\* Nothing that a step leaves alone, or loses no snapshot's doom by, gets out of hand.
LEMMA StillInHand ==
  ASSUME TypeOK, TypeOK', NEW l \in Lanes, InHand(l), missed[l] => missed'[l],
         \A r \in Runs : WillList(r, l) => WillList(r, l)',
         snaps'[l] \ Doomed(l)' \subseteq snaps[l] \ Doomed(l)
  PROVE  InHand(l)'
<1>1. CASE missed[l] \/ \E r \in Runs : WillList(r, l)
  BY <1>1 DEF InHand
<1>2. CASE Cardinality(snaps[l] \ Doomed(l)) <= Keep[l[2]]
  <2>1. PICK k \in Nat : k = Keep[l[2]]
    BY KeepAssumption DEF Lanes
  <2>2. PICK S : S = snaps[l] \ Doomed(l)
    OBVIOUS
  <2>3. PICK T : T = snaps'[l] \ Doomed(l)'
    OBVIOUS
  <2>4. PICK t \in Nat : S \in SUBSET (0..t)
    BY <2>2 DEF TypeOK
  <2>5. IsFiniteSet(S) /\ T \in SUBSET S
    BY <2>2, <2>3, <2>4, MinutesFinite
  <2>6. Cardinality(T) <= Cardinality(S) /\ Cardinality(T) \in Nat /\ Cardinality(S) \in Nat
    BY <2>5, FS_Subset, FS_CardinalityType
  <2>7. Cardinality(T) <= k
    BY <1>2, <2>1, <2>2, <2>6
  <2> QED
    BY <2>1, <2>3, <2>7 DEF InHand
<1> QED
  BY <1>1, <1>2 DEF InHand

\* A listing dooms all but what is to be kept.
LEMMA ListedInHand ==
  ASSUME TypeOK, TypeOK', NEW r \in Runs, List(r, TRUE)
  PROVE  InHand(Lane(r))'
<1>1. PICK l \in Lanes : l = Lane(r)
  BY LaneOK DEF List
<1>2. PICK k \in Nat : k = Keep[l[2]]
  BY KeepAssumption DEF Lanes
<1>3. PICK S : S = snaps[l]
  OBVIOUS
<1>4. PICK t \in Nat : S \in SUBSET (0..t)
  BY <1>3 DEF TypeOK
<1>5. Cardinality({s \in S : ~(Cardinality(NewerIn(S, s)) >= k)}) <= k
  BY <1>4, FewAreNewest
<1>6. /\ snaps' = snaps /\ todo' = todo /\ dels'[r] = Excess(l)
      /\ pc'[r] = "prune" /\ kind'[r] = kind[r]
  BY <1>1 DEF List, Goto, TypeOK
<1>7. Lane(r)' = l
  BY <1>1, <1>6 DEF Lane, Guest
<1>8. Excess(l) \subseteq Doomed(l)'
  BY <1>6, <1>7 DEF Doomed, Excess
<1>9. PICK T : T = snaps'[l] \ Doomed(l)'
  OBVIOUS
<1>10. S \ Excess(l) = {s \in S : ~(Cardinality(NewerIn(S, s)) >= k)}
  BY <1>2, <1>3 DEF Excess, NewerIn
<1>11. T \in SUBSET (S \ Excess(l))
  BY <1>3, <1>6, <1>8, <1>9
<1>12. S \ Excess(l) \in SUBSET (0..t)
  BY <1>4
<1>13. IsFiniteSet(S \ Excess(l))
  BY <1>12, MinutesFinite
<1>14. /\ Cardinality(T) <= Cardinality(S \ Excess(l))
       /\ Cardinality(T) \in Nat /\ Cardinality(S \ Excess(l)) \in Nat
  BY <1>11, <1>13, FS_Subset, FS_CardinalityType
<1>15. Cardinality(T) <= k
  BY <1>5, <1>10, <1>14
<1>16. Cardinality(snaps'[l] \ Doomed(l)') <= Keep[l[2]]
  BY <1>2, <1>9, <1>15
<1> QED
  BY <1>7, <1>16 DEF InHand

\* A step of run r changes nothing of what the others are about.
OthersStay(r) ==
  \A q \in Runs \ {r} :
    /\ pc'[q] = pc[q] /\ dels'[q] = dels[q] /\ Lane(q)' = Lane(q)
    /\ \A l \in Lanes : WillList(q, l) => WillList(q, l)'

LEMMA OthersStayStep ==
  ASSUME TypeOK, NEW r \in Runs,
         \/ \E ok \in BOOLEAN :
              Create(r, ok) \/ List(r, ok) \/ \E s \in dels[r] : Delete(r, s, ok)
         \/ ReadDay(r) \/ Pruned(r) \/ Kill(r)
         \/ \E guests \in SUBSET Guests : Start(r, guests)
  PROVE  OthersStay(r)
<1>1. ASSUME NEW q \in Runs \ {r}
      PROVE  pc'[q] = pc[q] /\ dels'[q] = dels[q] /\ todo'[q] = todo[q] /\ kind'[q] = kind[q]
  BY <1>1 DEF TypeOK, Create, AfterCreate, List, Delete, Pruned, Kill, Start, ReadDay, Goto
<1>2. ASSUME NEW q \in Runs \ {r}
      PROVE  Guest(q)' = Guest(q) /\ Lane(q)' = Lane(q)
  BY <1>1 DEF Guest, Lane
<1>3. ASSUME NEW q \in Runs \ {r}, NEW l \in Lanes, WillList(q, l)
      PROVE  WillList(q, l)'
  BY <1>1, <1>2, <1>3 DEF WillList
<1> QED
  BY <1>1, <1>2, <1>3 DEF OthersStay

LEMMA CreateInHand ==
  ASSUME IInv, TypeOK', AllInHand, NEW r \in Runs, NEW ok \in BOOLEAN, Create(r, ok)
  PROVE  AllInHand'
<1>1. TypeOK /\ OthersStay(r)
  BY OthersStayStep DEF IInv
<1>2. /\ pc[r] = "create" /\ todo' = todo /\ dels' = dels /\ missed' = missed
      /\ \/ pc'[r] = "create" /\ kind'[r] = "weekly"
         \/ pc'[r] = "list" /\ kind'[r] = "daily"
  BY <1>1 DEF Create, AfterCreate, Goto, TypeOK
<1>3. /\ Guest(r)' = Guest(r) /\ Guest(r) \in todo[r] /\ Lane(r) \in Lanes
  BY <1>1, <1>2, LaneOK DEF Guest
<1>4. ASSUME NEW l \in Lanes
      PROVE  InHand(l)'
  <2>1. CASE l = Lane(r)
    <3>1. l[1] = Guest(r)
      BY <2>1 DEF Lane
    <3>2. WillList(r, l)'
      BY <1>2, <1>3, <3>1 DEF WillList
    <3> QED
      BY <3>2 DEF InHand
  <2>2. CASE l # Lane(r)
    <3>1. snaps'[l] = snaps[l]
      BY <1>1, <2>2 DEF Create, TypeOK
    <3>2. WillList(r, l) => WillList(r, l)'
      BY <1>2, <1>3 DEF WillList
    <3>3. Doomed(l) \subseteq Doomed(l)'
      BY <1>1, <1>2, <3>1 DEF Doomed, OthersStay
    <3> QED
      BY <1>1, <1>2, <3>1, <3>2, <3>3, StillInHand DEF OthersStay, AllInHand
  <2> QED
    BY <2>1, <2>2
<1> QED
  BY <1>4 DEF AllInHand

LEMMA ListInHand ==
  ASSUME IInv, TypeOK', AllInHand, NEW r \in Runs, NEW heard \in BOOLEAN, List(r, heard)
  PROVE  AllInHand'
<1>1. TypeOK /\ OthersStay(r)
  BY OthersStayStep DEF IInv
<1>2. /\ pc[r] = "list" /\ pc'[r] = "prune" /\ kind'[r] = kind[r]
      /\ todo' = todo /\ snaps' = snaps
  BY <1>1 DEF List, Goto, TypeOK
<1>3. /\ Guest(r)' = Guest(r) /\ Guest(r) \in todo[r] /\ Lane(r) \in Lanes
  BY <1>1, <1>2, LaneOK DEF Guest
<1>4. ASSUME NEW l \in Lanes
      PROVE  InHand(l)'
  <2>1. CASE l = Lane(r) /\ heard
    <3>1. Lane(r)' = l
      BY <1>2, <1>3, <2>1 DEF Lane
    <3>2. InHand(Lane(r))'
      BY <1>1, <2>1, ListedInHand
    <3> QED
      BY <3>1, <3>2
  <2>2. CASE l = Lane(r) /\ ~heard
    <3>1. missed'[l]
      BY <1>1, <2>2, Zenon DEF List, TypeOK
    <3> QED
      BY <3>1 DEF InHand
  <2>3. CASE l # Lane(r)
    <3>1. missed[l] => missed'[l]
      BY <1>1, <2>3, Zenon DEF List, TypeOK
    <3>2. WillList(r, l) => WillList(r, l)'
      <4>1. l[1] = Guest(r) => kind[r] # l[2]
        BY <2>3 DEF Lane, Lanes
      <4>2. l[2] \in {"daily", "weekly"} /\ kind[r] \in {"daily", "weekly"}
        BY <1>1 DEF Lanes, Kinds, TypeOK
      <4> QED
        BY <1>2, <1>3, <4>1, <4>2 DEF WillList
    <3>3. Doomed(l) \subseteq Doomed(l)'
      BY <1>1, <1>2 DEF Doomed, OthersStay
    <3> QED
      BY <1>1, <1>2, <3>1, <3>2, <3>3, StillInHand DEF OthersStay, AllInHand
  <2> QED
    BY <2>1, <2>2, <2>3
<1> QED
  BY <1>4 DEF AllInHand

LEMMA DeleteInHand ==
  ASSUME IInv, TypeOK', AllInHand, NEW r \in Runs, NEW s \in dels[r], NEW ok \in BOOLEAN,
         Delete(r, s, ok)
  PROVE  AllInHand'
<1>1. TypeOK /\ OthersStay(r)
  BY OthersStayStep DEF IInv
<1>2. /\ pc[r] = "prune" /\ UNCHANGED <<pc, todo, kind>>
      /\ dels'[r] = dels[r] \ {s}
  BY <1>1 DEF Delete, TypeOK
<1>3. /\ Guest(r)' = Guest(r) /\ Lane(r)' = Lane(r) /\ Lane(r) \in Lanes
  BY <1>1, <1>2, LaneOK DEF Guest, Lane
<1>4. ASSUME NEW l \in Lanes
      PROVE  InHand(l)'
  <2>1. WillList(r, l) => WillList(r, l)'
    BY <1>2, <1>3 DEF WillList
  <2>2. CASE ~ok /\ l = Lane(r)
    <3>1. missed'[l]
      BY <1>1, <2>2 DEF Delete, TypeOK
    <3> QED
      BY <3>1 DEF InHand
  <2>3. CASE l # Lane(r)
    <3>1. snaps'[l] = snaps[l]
      BY <1>1, <2>3 DEF Delete, TypeOK
    <3>2. missed[l] => missed'[l]
      BY <1>1, <2>3 DEF Delete, TypeOK
    <3>3. Doomed(l) \subseteq Doomed(l)'
      BY <1>1, <1>2, <1>3, <2>3, <3>1 DEF Doomed, OthersStay
    <3> QED
      BY <1>1, <2>1, <3>1, <3>2, <3>3, StillInHand DEF OthersStay, AllInHand
  <2>4. CASE ok /\ l = Lane(r)
    <3>1. snaps'[l] = snaps[l] \ {s} /\ missed' = missed
      BY <1>1, <2>4 DEF Delete, TypeOK
    <3>2. Doomed(l) \ {s} \subseteq Doomed(l)'
      BY <1>1, <1>2, <1>3, <3>1 DEF Doomed, OthersStay
    <3> QED
      BY <1>1, <2>1, <3>1, <3>2, StillInHand DEF OthersStay, AllInHand
  <2> QED
    BY <2>2, <2>3, <2>4
<1> QED
  BY <1>4 DEF AllInHand

LEMMA PrunedInHand ==
  ASSUME IInv, TypeOK', AllInHand, NEW r \in Runs, Pruned(r)
  PROVE  AllInHand'
<1>1. TypeOK /\ OthersStay(r)
  BY OthersStayStep DEF IInv
<1>2. /\ pc[r] = "prune" /\ dels[r] = {} /\ UNCHANGED <<missed, snaps>>
      /\ kind[r] = "daily" => pc'[r] = "list" /\ kind'[r] = "weekly" /\ todo' = todo
      /\ kind[r] # "daily" =>
           /\ todo'[r] = todo[r] \ {Guest(r)}
           /\ todo[r] # {Guest(r)} => pc'[r] = "create"
  BY <1>1 DEF Pruned, Goto, TypeOK
<1>3. kind[r] = "daily" => Guest(r)' = Guest(r)
  BY <1>2 DEF Guest
<1>4. ASSUME NEW l \in Lanes
      PROVE  InHand(l)'
  <2>1. WillList(r, l) => WillList(r, l)'
    BY <1>2, <1>3 DEF WillList
  <2>2. Doomed(l) \subseteq Doomed(l)'
    BY <1>1, <1>2 DEF Doomed, OthersStay
  <2> QED
    BY <1>1, <1>2, <2>1, <2>2, StillInHand DEF OthersStay, AllInHand
<1> QED
  BY <1>4 DEF AllInHand

LEMMA KillInHand ==
  ASSUME IInv, TypeOK', AllInHand, NEW r \in Runs, Kill(r)
  PROVE  AllInHand'
<1>1. TypeOK /\ OthersStay(r)
  BY OthersStayStep DEF IInv
<1>2. pc[r] # "idle" /\ snaps' = snaps /\ Guest(r) \in todo[r]
  BY <1>1, LaneOK DEF Kill
<1>3. ASSUME NEW l \in Lanes
      PROVE  InHand(l)'
  <2>1. missed'[l] <=> missed[l] \/ l[1] \in todo[r]
    BY Zenon DEF Kill
  <2>2. CASE l[1] \in todo[r]
    BY <2>1, <2>2 DEF InHand
  <2>3. CASE l[1] \notin todo[r]
    <3>1. Lane(r) # l
      BY <1>2, <2>3 DEF Lane
    <3>2. ~WillList(r, l)
      BY <2>3 DEF WillList
    <3>3. Doomed(l) \subseteq Doomed(l)'
      BY <1>1, <1>2, <3>1 DEF Doomed, OthersStay
    <3> QED
      BY <1>1, <1>2, <2>1, <3>2, <3>3, StillInHand DEF OthersStay, AllInHand
  <2> QED
    BY <2>2, <2>3
<1> QED
  BY <1>3 DEF AllInHand

LEMMA StartInHand ==
  ASSUME IInv, TypeOK', AllInHand, NEW r \in Runs, NEW guests \in SUBSET Guests,
         Start(r, guests)
  PROVE  AllInHand'
<1>1. TypeOK /\ OthersStay(r)
  BY OthersStayStep DEF IInv
<1>2. pc[r] = "idle" /\ todo[r] = {} /\ UNCHANGED <<missed, snaps>>
  BY <1>1 DEF Start, TypeOK
<1>3. ASSUME NEW l \in Lanes
      PROVE  InHand(l)'
  <2>1. ~WillList(r, l)
    BY <1>2 DEF WillList
  <2>2. Doomed(l) \subseteq Doomed(l)'
    BY <1>1, <1>2 DEF Doomed, OthersStay
  <2> QED
    BY <1>1, <1>2, <2>1, <2>2, StillInHand DEF OthersStay, AllInHand
<1> QED
  BY <1>3 DEF AllInHand

LEMMA ReadDayInHand ==
  ASSUME IInv, TypeOK', AllInHand, NEW r \in Runs, ReadDay(r)
  PROVE  AllInHand'
<1>1. TypeOK /\ OthersStay(r)
  BY OthersStayStep DEF IInv
<1>2. /\ pc[r] = "clock" /\ pc'[r] = "create"
      /\ UNCHANGED <<todo, missed, snaps>>
  BY <1>1 DEF ReadDay, Goto, TypeOK
<1>3. Guest(r)' = Guest(r)
  BY <1>2 DEF Guest
<1>4. ASSUME NEW l \in Lanes
      PROVE  InHand(l)'
  <2>1. WillList(r, l) => WillList(r, l)'
    BY <1>2, <1>3 DEF WillList
  <2>2. Doomed(l) \subseteq Doomed(l)'
    BY <1>1, <1>2 DEF Doomed, OthersStay
  <2> QED
    BY <1>1, <1>2, <2>1, <2>2, StillInHand DEF OthersStay, AllInHand
<1> QED
  BY <1>4 DEF AllInHand

LEMMA InHandStep ==
  ASSUME IInv, AllInHand, [Next]_vars
  PROVE  AllInHand'
<1>1. TypeOK'
  BY TypeStep DEF IInv
<1>2. CASE Tick \/ UNCHANGED vars
  <2>1. UNCHANGED <<run, snaps, missed>>
    BY <1>2 DEF Tick, vars
  <2>2. /\ \A r \in Runs : Guest(r)' = Guest(r) /\ Lane(r)' = Lane(r)
        /\ \A r \in Runs, l \in Lanes : WillList(r, l)' <=> WillList(r, l)
    BY <2>1 DEF run, Guest, Lane, WillList
  <2>3. \A l \in Lanes : Doomed(l)' = Doomed(l)
    BY <2>1, <2>2 DEF run, Doomed
  <2> QED
    BY <2>1, <2>2, <2>3 DEF AllInHand, InHand
<1> QED
  BY <1>1, <1>2, CreateInHand, ListInHand, DeleteInHand, PrunedInHand, KillInHand, StartInHand,
     ReadDayInHand
     DEF Next, Step

\* Snapshots do not pile up, however runs overlap: once no run is about a guest it has
\* no more snapshots than are to be kept, unless a run failed there.
THEOREM NonePileUp == Spec => []NoPileUp
<1>1. Init => AllInHand
  <2> SUFFICES ASSUME Init, NEW l \in Lanes
               PROVE  InHand(l)
    BY DEF AllInHand
  <2>1. snaps[l] \ Doomed(l) = {} /\ Keep[l[2]] \in Nat
    BY KeepAssumption DEF Init, Lanes
  <2> QED
    BY <2>1, FS_EmptySet DEF InHand
<1>2. IInv /\ AllInHand => NoPileUp
  <2> SUFFICES ASSUME IInv, AllInHand, NEW l \in Lanes,
                      \A r \in Runs : l[1] \notin todo[r], ~missed[l]
               PROVE  Cardinality(snaps[l]) <= Keep[l[2]]
    BY DEF NoPileUp
  <2>1. \A r \in Runs : ~WillList(r, l)
    BY DEF WillList
  <2>2. ASSUME NEW r \in Runs, pc[r] = "prune"
        PROVE  Lane(r) # l
    BY <2>2, LaneOK DEF IInv, Lane
  <2>3. snaps[l] \ Doomed(l) = snaps[l]
    BY <2>2 DEF Doomed
  <2> QED
    BY <2>1, <2>3 DEF AllInHand, InHand
<1>3. IInv /\ AllInHand /\ [Next]_vars => AllInHand'
  BY InHandStep
<1> QED
  BY Invariance, <1>1, <1>2, <1>3, PTL DEF Spec
=============================================================================
