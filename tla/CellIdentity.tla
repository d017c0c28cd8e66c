----------------------------- MODULE CellIdentity -----------------------------
(* What a cell answers when it asks which location it serves.              *)
(*                                                                         *)
(* The hub holds a copy and a propagation policy per Location; Karmada     *)
(* carries a copy to the cells labelled with its name and takes it from    *)
(* the others, one object at a time and only on cells it can reach; a      *)
(* service on the cell lists what was delivered and may fall back to the   *)
(* name it was configured with.                                            *)
EXTENDS Integers, FiniteSets

CONSTANTS
    Names,          \* names of Locations
    Cells,          \* the clusters of the fleet
    None,           \* no label, no configured name, no location
    MaxDisturbances \* bound on the number of interferences

ASSUME NoneAssumption == None \notin Names
ASSUME BoundAssumption == MaxDisturbances \in Nat

Answers ==
    [source : {"Delivered", "Configured"}, name : Names, mismatch : BOOLEAN]
    \cup [source : {"NoLocationIdentity", "AmbiguousLocationIdentity"}, name : {None}, mismatch : {FALSE}]

VARIABLES
    wanted,     \* the Locations of the source
    copies,     \* the ServingLocations on the hub
    policies,   \* the names that have a propagation policy
    condemned,  \* the names whose copy the publisher is about to delete
    label,      \* the location label of each cell
    ready,      \* the cells that are Ready, which Karmada can reach
    configured, \* the name each cell falls back to
    delivered,  \* the copies on each cell
    answer,     \* what each cell answered last
    unchanged,  \* history: cells untouched since the guard let a name go
    budget      \* interferences left

hubVars  == <<wanted, copies, policies, condemned>>
cellVars == <<label, ready, configured>>
vars == <<hubVars, cellVars, delivered, answer, unchanged, budget>>

TypeOK ==
    /\ wanted \subseteq Names /\ copies \subseteq Names /\ policies \subseteq Names
    /\ condemned \subseteq Names
    /\ label \in [Cells -> Names \cup {None}]
    /\ ready \subseteq Cells
    /\ configured \in [Cells -> Names \cup {None}]
    /\ delivered \in [Cells -> SUBSET Names]
    /\ answer \in [Cells -> Answers]
    /\ unchanged \in [Names -> SUBSET Cells]
    /\ budget \in 0 .. MaxDisturbances

-----------------------------------------------------------------------------
(* The answer.                                                             *)

Unresolved(reason) == [source |-> reason, name |-> None, mismatch |-> FALSE]
FromConfiguration(name) == [source |-> "Configured", name |-> name, mismatch |-> FALSE]

\* Mutants: the configured name wins; it is answered even if there is none.
ResolveConfigured(names, name) ==
    IF name # None THEN FromConfiguration(name)
    ELSE IF Cardinality(names) = 1
         THEN [source |-> "Delivered", name |-> CHOOSE n \in names : TRUE, mismatch |-> FALSE]
         ELSE Unresolved("NoLocationIdentity")
ResolveEmpty(names, name) == FromConfiguration(name)

\* One delivered copy wins over the configured name; the configured name wins
\* over none, and over several.
Resolve(names, name) ==
    CASE Cardinality(names) = 1 ->
           LET only == CHOOSE n \in names : TRUE IN
             [source |-> "Delivered", name |-> only, mismatch |-> name \notin {None, only}]
      [] Cardinality(names) # 1 /\ name # None -> FromConfiguration(name)
      [] Cardinality(names) > 1 /\ name = None -> Unresolved("AmbiguousLocationIdentity")
      [] OTHER -> Unresolved("NoLocationIdentity")

Init ==
    /\ wanted = {} /\ copies = {} /\ policies = {} /\ condemned = {}
    /\ label \in [Cells -> Names \cup {None}]
    /\ ready = Cells
    /\ configured \in [Cells -> Names \cup {None}]
    /\ delivered = [c \in Cells |-> {}]
    /\ answer = [c \in Cells |-> Resolve({}, configured[c])]
    /\ unchanged = [n \in Names |-> {}]
    /\ budget = MaxDisturbances

-----------------------------------------------------------------------------
(* Locations are declared and deleted, clusters relabelled and lost, and   *)
(* the publisher dies.                                                     *)

Disturb == budget > 0 /\ budget' = budget - 1

Declare(n) ==
    /\ Disturb
    /\ wanted' = IF n \in wanted THEN wanted \ {n} ELSE wanted \cup {n}
    /\ UNCHANGED <<copies, policies, condemned, cellVars, delivered, answer, unchanged>>

Touched(c) == unchanged' = [n \in Names |-> unchanged[n] \ {c}]

Relabel(c) ==
    /\ Disturb
    /\ \E l \in (Names \cup {None}) \ {label[c]} : label' = [label EXCEPT ![c] = l]
    /\ Touched(c)
    /\ UNCHANGED <<hubVars, ready, configured, delivered, answer>>

ReadyChange(c) ==
    /\ Disturb
    /\ ready' = IF c \in ready THEN ready \ {c} ELSE ready \cup {c}
    /\ Touched(c)
    /\ UNCHANGED <<hubVars, label, configured, delivered, answer>>

Crash ==
    /\ Disturb
    /\ condemned' = {}
    /\ UNCHANGED <<wanted, copies, policies, cellVars, delivered, answer, unchanged>>

-----------------------------------------------------------------------------
(* The publisher, as LocationPublisher has it; of its caches only that it  *)
(* may publish, once in a while, a Location that is gone.                  *)

ApplyStale(n) ==
    /\ Disturb
    /\ n \notin wanted \cup condemned
    /\ copies' = copies \cup {n}
    /\ policies' \in {policies, policies \cup {n}}
    /\ UNCHANGED <<wanted, condemned, cellVars, delivered, answer, unchanged>>

ApplyCopy(n) ==
    /\ n \in wanted \ (copies \cup condemned)
    /\ copies' = copies \cup {n}
    /\ UNCHANGED <<wanted, policies, condemned, cellVars, delivered, answer, unchanged, budget>>

ApplyPolicy(n) ==
    /\ n \in (wanted \cap copies) \ (policies \cup condemned)
    /\ policies' = policies \cup {n}
    /\ UNCHANGED <<wanted, copies, condemned, cellVars, delivered, answer, unchanged, budget>>

PruneAllowed == wanted # {}

\* Mutant: the label is compared with the wrong value.
EvaluateUnlabelledOnly(n) == {c \in ready : label[c] = None}

\* The Ready clusters that stand in the way of removing n.
EvaluateRemovalGuard(n) == {c \in ready : label[c] \in {n, None}}

\* The guard is asked, and nothing stands in the way.
Condemn(n) ==
    /\ n \in copies \ (wanted \cup condemned)
    /\ PruneAllowed
    /\ EvaluateRemovalGuard(n) = {}
    /\ condemned' = condemned \cup {n}
    /\ unchanged' = [unchanged EXCEPT ![n] = Cells]
    /\ UNCHANGED <<wanted, copies, policies, cellVars, delivered, answer, budget>>

\* The guard is not asked: somebody has overridden it.
CondemnOverridden(n) ==
    /\ Disturb
    /\ n \in copies \ (wanted \cup condemned)
    /\ PruneAllowed
    /\ condemned' = condemned \cup {n}
    /\ unchanged' = [unchanged EXCEPT ![n] = {}]
    /\ UNCHANGED <<wanted, copies, policies, cellVars, delivered, answer>>

DeleteCopy(n) ==
    /\ n \in condemned \cap copies
    /\ copies' = copies \ {n}
    /\ UNCHANGED <<wanted, policies, condemned, cellVars, delivered, answer, unchanged, budget>>

DeletePropagationPolicy(n) ==
    /\ n \in condemned \ copies
    /\ policies' = policies \ {n}
    /\ condemned' = condemned \ {n}
    /\ UNCHANGED <<wanted, copies, cellVars, delivered, answer, unchanged, budget>>

Publish(n) ==
    ApplyCopy(n) \/ ApplyPolicy(n) \/ Condemn(n) \/ DeleteCopy(n) \/ DeletePropagationPolicy(n)

-----------------------------------------------------------------------------
(* Karmada.                                                                *)

\* The placement of the policy.
Placed(n, c) == label[c] = n

\* The copies that belong on c.
Due(c) == {n \in copies \cap policies : Placed(n, c)}

Deliver(c) ==
    /\ c \in ready
    /\ \E n \in Due(c) \ delivered[c] : delivered' = [delivered EXCEPT ![c] = @ \cup {n}]
    /\ UNCHANGED <<hubVars, cellVars, answer, unchanged, budget>>

Withdraw(c) ==
    /\ c \in ready
    /\ \E n \in delivered[c] \ Due(c) : delivered' = [delivered EXCEPT ![c] = @ \ {n}]
    /\ UNCHANGED <<hubVars, cellVars, answer, unchanged, budget>>

-----------------------------------------------------------------------------

\* A service on the cell asks; services ask again whenever they need to know.
Ask(c) ==
    /\ answer' = [answer EXCEPT ![c] = Resolve(delivered[c], configured[c])]
    /\ UNCHANGED <<hubVars, cellVars, delivered, unchanged, budget>>

Next ==
    \/ \E n \in Names : Declare(n) \/ ApplyStale(n) \/ CondemnOverridden(n) \/ Publish(n)
    \/ Crash
    \/ \E c \in Cells : Relabel(c) \/ ReadyChange(c) \/ Deliver(c) \/ Withdraw(c) \/ Ask(c)

Spec == Init /\ [][Next]_vars

\* The publisher retries, Karmada reaches the cells that are Ready, and
\* services keep asking.
Fairness ==
    /\ \A n \in Names : WF_vars(Publish(n))
    /\ \A c \in Cells : WF_vars(Deliver(c)) /\ WF_vars(Withdraw(c)) /\ WF_vars(Ask(c))

FairSpec == Spec /\ Fairness

-----------------------------------------------------------------------------
(* What the answers must be.                                               *)

\* Once the interference stops, a cell that can be reached answers with the
\* location it is labelled for, if that is declared or still published, and
\* tells when it was configured with another; any other such cell answers with
\* its configured name, or that it has no identity.  No two copies stay on it.
AnswersFollowLabels ==
    \A c \in Cells :
      <>[](c \in ready =>
             IF label[c] \in wanted \cup (copies \cap policies)
             THEN answer[c] = [source |-> "Delivered", name |-> label[c],
                               mismatch |-> configured[c] \notin {None, label[c]}]
             ELSE answer[c] = IF configured[c] # None THEN FromConfiguration(configured[c])
                              ELSE Unresolved("NoLocationIdentity"))

\* A cell that is labelled for a location whose copy is gone from the hub, and
\* has been Ready and so labelled since the guard was asked, never loses the
\* copy it was delivered: the removal of a Location and the label of a cell
\* cannot cross, overrides apart (evaluateRemovalGuard).
ServedCopyKept ==
    [][\A c \in Cells, n \in Names :
         /\ n \in delivered[c] /\ n \notin delivered'[c]
         /\ label[c] = n /\ n \notin copies
         => c \notin unchanged[n]]_vars

-----------------------------------------------------------------------------
(* What the repository says and the code does not always keep: README.md,  *)
(* section 3.                                                              *)

\* "A cell that has been delivered two of them refuses to guess between them."
RefusesToGuess ==
    [][\A c \in Cells :
         Ask(c) /\ Cardinality(delivered[c]) > 1 => answer'[c].name = None]_vars
=============================================================================
