-------------------------------- MODULE Watches --------------------------------
(* What every cache of this program has in common: it trails its server by *)
(* the events still in flight, oldest first, each of which carries a name  *)
(* and the object the server had under it when the event was sent.         *)
EXTENDS Naturals, Sequences

\* An event of n is on its way.
InFlight(watch, n) == \E i \in 1 .. Len(watch) : watch[i].name = n

\* No later event is about the same name.
Latest(watch, i) == \A j \in i + 1 .. Len(watch) : watch[j].name # watch[i].name

\* The cache is right about every name no event of which is in flight, and will
\* be about the others: the last event of each carries what the server has.
CatchesUp(cache, watch, server) ==
    /\ \A n \in DOMAIN server : ~InFlight(watch, n) => cache[n] = server[n]
    /\ \A i \in 1 .. Len(watch) : Latest(watch, i) => watch[i].object = server[watch[i].name]
=============================================================================
