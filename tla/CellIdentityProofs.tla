-------------------------- MODULE CellIdentityProofs --------------------------
(* What holds of the fleet for every set of Locations and cells and every  *)
(* number of interferences.                                                *)
EXTENDS CellIdentity, FiniteSetTheorems, TLAPS

-----------------------------------------------------------------------------
(* The inductive invariant.                                                *)

\* A cell that nobody touched since the guard let a name go does not stand in
\* the way of that removal now either.
UntouchedInv ==
    \A n \in Names : \A c \in unchanged[n] : ~(c \in ready /\ label[c] \in {n, None})

IInv == TypeOK /\ UntouchedInv

-----------------------------------------------------------------------------
(* The answer.                                                             *)

\* Resolve answers with something: a location, or a reason why there is none.
LEMMA ResolveAnswers ==
    ASSUME NEW names \in SUBSET Names, NEW name \in Names \cup {None}
    PROVE  Resolve(names, name) \in Answers
<1>1. CASE Cardinality(names) = 1
  <2>1. names # {}
    BY <1>1, FS_EmptySet
  <2>2. (CHOOSE n \in names : TRUE) \in Names
    BY <2>1
  <2> DEFINE only == CHOOSE n \in names : TRUE
  <2>3. Resolve(names, name) =
          [source |-> "Delivered", name |-> only, mismatch |-> name \notin {None, only}]
    BY <1>1 DEF Resolve
  <2> HIDE DEF only
  <2> QED
    BY <2>2, <2>3 DEF Answers, only
<1>2. CASE Cardinality(names) # 1 /\ name # None
  BY <1>2 DEF Resolve, FromConfiguration, Answers
<1>3. CASE Cardinality(names) # 1 /\ name = None
  BY <1>3 DEF Resolve, Unresolved, Answers
<1> QED
  BY <1>1, <1>2, <1>3

-----------------------------------------------------------------------------
(* Every action keeps the invariant.                                       *)

LEMMA DisturbType ==
    ASSUME TypeOK, Disturb
    PROVE  budget' \in 0 .. MaxDisturbances
BY BoundAssumption DEF Disturb, TypeOK

\* What was touched is not counted on.
LEMMA TouchedKeeps ==
    ASSUME IInv, NEW c \in Cells, Touched(c),
           \A d \in Cells \ {c} : (d \in ready' <=> d \in ready) /\ label'[d] = label[d]
    PROVE  unchanged' \in [Names -> SUBSET Cells] /\ UntouchedInv'
<1>1. unchanged' = [n \in Names |-> unchanged[n] \ {c}]
  BY DEF Touched
<1>2. unchanged' \in [Names -> SUBSET Cells]
  BY <1>1 DEF IInv, TypeOK
<1>3. ASSUME NEW n \in Names, NEW d \in unchanged'[n]
      PROVE  ~(d \in ready' /\ label'[d] \in {n, None})
  <2>1. d \in unchanged[n] /\ d \in Cells \ {c}
    BY <1>1, <1>3 DEF IInv, TypeOK
  <2> QED
    BY <2>1 DEF IInv, UntouchedInv
<1> QED
  BY <1>2, <1>3 DEF UntouchedInv

LEMMA FleetKeeps ==
    ASSUME IInv, NEW c \in Cells, Relabel(c) \/ ReadyChange(c)
    PROVE  IInv'
<1>1. CASE Relabel(c)
  <2>1. PICK l \in Names \cup {None} : label' = [label EXCEPT ![c] = l]
    BY <1>1 DEF Relabel
  <2>2. \A d \in Cells \ {c} : (d \in ready' <=> d \in ready) /\ label'[d] = label[d]
    BY <1>1, <2>1 DEF Relabel, IInv, TypeOK
  <2>3. unchanged' \in [Names -> SUBSET Cells] /\ UntouchedInv'
    BY <1>1, <2>2, TouchedKeeps DEF Relabel
  <2>4. label' \in [Cells -> Names \cup {None}]
    BY <2>1 DEF IInv, TypeOK
  <2> QED
    BY <1>1, <2>3, <2>4, DisturbType DEF Relabel, IInv, TypeOK, hubVars
<1>2. CASE ReadyChange(c)
  <2>1. \A d \in Cells \ {c} : (d \in ready' <=> d \in ready) /\ label'[d] = label[d]
    BY <1>2 DEF ReadyChange
  <2>2. unchanged' \in [Names -> SUBSET Cells] /\ UntouchedInv'
    BY <1>2, <2>1, TouchedKeeps DEF ReadyChange
  <2> QED
    BY <1>2, <2>2, DisturbType DEF ReadyChange, IInv, TypeOK, hubVars
<1> QED
  BY <1>1, <1>2

LEMMA CondemnKeeps ==
    ASSUME IInv, NEW n \in Names, Condemn(n) \/ CondemnOverridden(n)
    PROVE  IInv'
<1>1. UNCHANGED <<wanted, copies, policies, cellVars, delivered, answer>>
  BY DEF Condemn, CondemnOverridden
<1>2. budget' \in 0 .. MaxDisturbances
  BY DisturbType DEF Condemn, CondemnOverridden, IInv, TypeOK
<1>3. \/ EvaluateRemovalGuard(n) = {} /\ unchanged' = [unchanged EXCEPT ![n] = Cells]
      \/ unchanged' = [unchanged EXCEPT ![n] = {}]
  BY DEF Condemn, CondemnOverridden
<1>4. unchanged' \in [Names -> SUBSET Cells] /\ condemned' \subseteq Names
  BY <1>3 DEF Condemn, CondemnOverridden, IInv, TypeOK
<1>5. ASSUME NEW m \in Names, NEW c \in unchanged'[m]
      PROVE  ~(c \in ready /\ label[c] \in {m, None})
  <2>1. CASE m = n
    BY <1>3, <1>5, <2>1 DEF EvaluateRemovalGuard, IInv, TypeOK
  <2>2. CASE m # n
    BY <1>3, <1>5, <2>2 DEF IInv, TypeOK, UntouchedInv
  <2> QED
    BY <2>1, <2>2
<1>6. UntouchedInv'
  BY <1>1, <1>5 DEF UntouchedInv, cellVars
<1> QED
  BY <1>1, <1>2, <1>4, <1>6 DEF IInv, TypeOK, cellVars

\* A step that touches neither the fleet nor what is counted on.
LEMMA OthersKeep ==
    ASSUME IInv, UNCHANGED <<label, ready, unchanged>>
    PROVE  UntouchedInv'
BY DEF IInv, UntouchedInv

LEMMA Inductive == IInv /\ [Next]_vars => IInv'
<1> SUFFICES ASSUME IInv, [Next]_vars PROVE IInv'
  OBVIOUS
<1> USE DEF hubVars, cellVars
<1>1. CASE UNCHANGED vars
  BY <1>1, OthersKeep DEF vars, IInv, TypeOK
<1>2. ASSUME NEW n \in Names, Declare(n) PROVE IInv'
  BY <1>2, OthersKeep, DisturbType DEF Declare, IInv, TypeOK
<1>8. ASSUME NEW n \in Names, ApplyStale(n) PROVE IInv'
  BY <1>8, OthersKeep, DisturbType DEF ApplyStale, IInv, TypeOK
<1>9. ASSUME NEW n \in Names, CondemnOverridden(n) PROVE IInv'
  BY <1>9, CondemnKeeps
<1>3. CASE Crash
  BY <1>3, OthersKeep, DisturbType DEF Crash, IInv, TypeOK
<1>4. ASSUME NEW n \in Names, Publish(n) PROVE IInv'
  <2>1. CASE ApplyCopy(n)
    BY <2>1, OthersKeep DEF ApplyCopy, IInv, TypeOK
  <2>2. CASE ApplyPolicy(n)
    BY <2>2, OthersKeep DEF ApplyPolicy, IInv, TypeOK
  <2>3. CASE DeleteCopy(n)
    BY <2>3, OthersKeep DEF DeleteCopy, IInv, TypeOK
  <2>4. CASE DeletePropagationPolicy(n)
    BY <2>4, OthersKeep DEF DeletePropagationPolicy, IInv, TypeOK
  <2> QED
    BY <1>4, <2>1, <2>2, <2>3, <2>4, CondemnKeeps DEF Publish
<1>5. ASSUME NEW c \in Cells, Deliver(c) PROVE IInv'
  <2>1. PICK n \in Names : delivered' = [delivered EXCEPT ![c] = @ \cup {n}]
    BY <1>5 DEF Deliver, Due, IInv, TypeOK
  <2>2. delivered' \in [Cells -> SUBSET Names]
    BY <2>1 DEF IInv, TypeOK
  <2> QED
    BY <1>5, <2>2, OthersKeep DEF Deliver, IInv, TypeOK
<1>6. ASSUME NEW c \in Cells, Withdraw(c) PROVE IInv'
  <2>1. PICK n \in Names : delivered' = [delivered EXCEPT ![c] = @ \ {n}]
    BY <1>6 DEF Withdraw, IInv, TypeOK
  <2>2. delivered' \in [Cells -> SUBSET Names]
    BY <2>1 DEF IInv, TypeOK
  <2> QED
    BY <1>6, <2>2, OthersKeep DEF Withdraw, IInv, TypeOK
<1>7. ASSUME NEW c \in Cells, Ask(c) PROVE IInv'
  <2>1. Resolve(delivered[c], configured[c]) \in Answers
    BY ResolveAnswers DEF IInv, TypeOK
  <2> QED
    BY <1>7, <2>1, OthersKeep DEF Ask, IInv, TypeOK
<1> QED
  BY <1>1, <1>2, <1>3, <1>4, <1>5, <1>6, <1>7, <1>8, <1>9, FleetKeeps DEF Next

LEMMA Initial == Init => IInv
<1> SUFFICES ASSUME Init PROVE IInv
  OBVIOUS
<1>1. \A c \in Cells : Resolve({}, configured[c]) \in Answers
  BY ResolveAnswers DEF Init
<1>2. answer \in [Cells -> Answers]
  BY <1>1 DEF Init
<1> QED
  BY <1>2, BoundAssumption DEF Init, IInv, TypeOK, UntouchedInv

\* In every reachable state the types are right, and the guard's answer still
\* holds for the cells nobody touched since.
THEOREM Invariance == Spec => []IInv
BY Initial, Inductive, PTL DEF Spec

\* Every reachable state of the fleet has the declared type; in particular
\* every question of a cell has an answer (Resolve).
THEOREM TypeCorrect == Spec => []TypeOK
BY Invariance, PTL DEF IInv

-----------------------------------------------------------------------------
(* What a cell was delivered.                                              *)

\* A cell that stays Ready and labelled for a location from the moment its
\* removal is allowed never loses the copy by that removal.
THEOREM ServedCopiesAreKept == Spec => ServedCopyKept
<1> DEFINE Kept ==
             \A c \in Cells, n \in Names :
               /\ n \in delivered[c] /\ n \notin delivered'[c]
               /\ label[c] = n /\ n \notin copies
               => c \notin unchanged[n]
<1>1. ASSUME IInv, Next, NEW c \in Cells, NEW n \in Names,
             n \in delivered[c], n \notin delivered'[c], label[c] = n
      PROVE  c \notin unchanged[n]
  <2>1. PICK d \in Cells : Withdraw(d)
    <3>1. delivered' # delivered
      BY <1>1
    <3>2. ASSUME NEW d \in Cells, Deliver(d) PROVE FALSE
      BY <1>1, <3>2 DEF Deliver, IInv, TypeOK
    <3> QED
      BY <1>1, <3>1, <3>2
      DEF Next, Declare, ApplyStale, Publish, ApplyCopy, ApplyPolicy, Condemn,
          CondemnOverridden, DeleteCopy, DeletePropagationPolicy, Crash, Relabel, ReadyChange, Ask
  <2>2. d = c
    BY <1>1, <2>1 DEF Withdraw, IInv, TypeOK
  <2>3. c \in ready
    BY <2>1, <2>2 DEF Withdraw
  <2> QED
    BY <1>1, <2>3 DEF IInv, UntouchedInv
<1>2. IInv /\ [Next]_vars => [Kept]_vars
  BY <1>1
<1>3. Spec => [][Kept]_vars
  <2> HIDE DEF Kept
  <2> QED
    BY <1>2, Invariance, PTL DEF Spec
<1> QED
  BY <1>3 DEF ServedCopyKept
=============================================================================
