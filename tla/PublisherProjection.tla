------------------------- MODULE PublisherProjection -------------------------
(* The publisher implements Projection.  Three history variables remember  *)
(* what the abstract specification speaks of and the system forgets: what  *)
(* was declared, whose the last write of a copy was, and which guards were *)
(* ever overridden.                                                        *)
EXTENDS LocationPublisher

VARIABLES
    declared,  \* all the versions of each Location there have been
    foreign,   \* the copies that somebody else wrote last
    overridden \* the names whose copy ever carried the override

recorded == <<declared, foreign, overridden>>
allVars == <<vars, recorded>>

RecordedTypeOK ==
    /\ declared \in [Names -> SUBSET Location]
    /\ foreign \subseteq Names
    /\ overridden \subseteq Names

RInit ==
    /\ Init
    /\ declared = [n \in Names |-> {}] /\ foreign = {} /\ overridden = {}

Said(object) == IF object = Absent THEN Absent ELSE Content(object)

\* What is remembered of any step.
Remember ==
    /\ declared' = [n \in Names |-> declared[n] \cup ({source'[n]} \ {Absent})]
    /\ overridden' = overridden \cup {n \in Names : hub'[n] # Absent /\ hub'[n].override}

\* Whose step it was.
TheirStep == foreign' = foreign \cup {n \in Names : Said(hub'[n]) # Said(hub[n])}
OurStep == foreign' = IF step \in {"apply", "delete"} THEN foreign \ {request} ELSE foreign

RNext ==
    /\ \/ Interference /\ TheirStep
       \/ PublisherCall /\ OurStep
       \/ /\ \/ DeliverSource \/ DeliverHub \/ DeliverPolicy
             \/ \E n \in Names : BeginReconcile(n)
             \/ CallFails \/ Restart
          /\ UNCHANGED foreign
    /\ Remember

RSpec == RInit /\ [][RNext]_allVars

-----------------------------------------------------------------------------

\* The refinement mapping: the copies say what is in their spec, and a removal
\* is cleared while the worker is about to delete.
Promise ==
    INSTANCE Projection WITH
        Versions <- [topology : Topologies, generation : 0 .. MaxGeneration],
        None     <- Absent,
        copies   <- [n \in Names |-> Said(hub[n])],
        fleet    <- clusters,
        cleared  <- IF step = "delete" THEN {request} ELSE {}

\* The publisher keeps its promise: it publishes only what was declared, and
\* each removal it makes was cleared for it, by a fleet that did not need the
\* copy or by an override that somebody set.
KeepsPromise == Promise!Spec

\* What the caches, the watches and the worker hold of a Location was once
\* declared, and of an override, once set.
Known(n, object) == object = Absent \/ object \in declared[n]
Permitted(n, object) == object # Absent /\ object.override => n \in overridden

KnownEvents ==
    {e \in [name : Names, object : Location \cup {Absent}] : Known(e.name, e.object)}
PermittedEvents ==
    {e \in [name : Names, object : Copy \cup {Absent}] : Permitted(e.name, e.object)}

RememberedInv ==
    /\ \A n \in Names : /\ Known(n, source[n]) /\ Known(n, srcCache[n])
                        /\ Permitted(n, hub[n]) /\ Permitted(n, hubCache[n])
    /\ srcWatch \in Seq(KnownEvents) /\ hubWatch \in Seq(PermittedEvents)
    /\ step # "idle" => Known(request, location) /\ Permitted(request, published)
=============================================================================
