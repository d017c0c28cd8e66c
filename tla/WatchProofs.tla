------------------------------ MODULE WatchProofs ------------------------------
(* A write that sends its event, and a delivery, keep a cache catching up. *)
EXTENDS Watches, SequenceTheorems, WellFoundedInduction, TLAPS

\* Events are of names, and carry objects.
Events(Names, Objects) == [name : Names, object : Objects]

LEMMA SendKeepsInFlight ==
    ASSUME NEW Names, NEW Objects, NEW watch \in Seq(Events(Names, Objects)),
           NEW e \in Events(Names, Objects)
    PROVE  /\ InFlight(Append(watch, e), e.name)
           /\ \A n : InFlight(watch, n) => InFlight(Append(watch, e), n)
           /\ \A n : n # e.name /\ InFlight(Append(watch, e), n) => InFlight(watch, n)
<1>1. /\ Len(Append(watch, e)) = Len(watch) + 1 /\ Len(watch) \in Nat
      /\ \A i \in 1 .. Len(watch) : Append(watch, e)[i] = watch[i]
      /\ Append(watch, e)[Len(watch) + 1] = e
  BY AppendProperties, LenProperties
<1> QED
  BY <1>1 DEF InFlight

LEMMA DeliveryInFlight ==
    ASSUME NEW Names, NEW Objects, NEW watch \in Seq(Events(Names, Objects)), watch # <<>>
    PROVE  /\ \A n : InFlight(Tail(watch), n) => InFlight(watch, n)
           /\ \A n : InFlight(watch, n) => InFlight(Tail(watch), n) \/ n = Head(watch).name
<1>1. /\ Len(watch) \in Nat \ {0} /\ Len(Tail(watch)) = Len(watch) - 1
      /\ \A i \in 1 .. Len(Tail(watch)) : Tail(watch)[i] = watch[i + 1]
      /\ Head(watch) = watch[1]
  BY HeadTailProperties, EmptySeq
<1>2. ASSUME NEW n, NEW i \in 1 .. Len(watch), watch[i].name = n, n # Head(watch).name
      PROVE  InFlight(Tail(watch), n)
  <2>1. i - 1 \in 1 .. Len(Tail(watch)) /\ Tail(watch)[i - 1] = watch[i]
    BY <1>1, <1>2
  <2> QED
    BY <1>2, <2>1 DEF InFlight
<1> QED
  BY <1>1, <1>2 DEF InFlight

\* The server changes, and sends the event of it.
LEMMA SendCatchesUp ==
    ASSUME NEW Names, NEW Objects, NEW watch \in Seq(Events(Names, Objects)),
           NEW cache, NEW server \in [Names -> Objects],
           CatchesUp(cache, watch, server),
           NEW e \in Events(Names, Objects)
    PROVE  CatchesUp(cache, Append(watch, e), [server EXCEPT ![e.name] = e.object])
<1> DEFINE n == e.name
           object == e.object
           sent == Append(watch, e)
           after == [server EXCEPT ![n] = object]
<1>1. n \in Names /\ object \in Objects
  BY DEF Events
<1>2. /\ Len(sent) = Len(watch) + 1 /\ Len(watch) \in Nat
      /\ \A i \in 1 .. Len(watch) : sent[i] = watch[i]
      /\ sent[Len(watch) + 1] = e
  BY AppendProperties, LenProperties
<1>3. DOMAIN after = DOMAIN server /\ DOMAIN server = Names
  OBVIOUS
<1>4. ASSUME NEW m \in Names, ~InFlight(sent, m) PROVE cache[m] = after[m]
  <2>1. m # n /\ ~InFlight(watch, m)
    BY <1>1, <1>4, SendKeepsInFlight
  <2> QED
    BY <1>3, <2>1 DEF CatchesUp
<1>5. ASSUME NEW i \in 1 .. Len(sent), Latest(sent, i)
      PROVE  sent[i].object = after[sent[i].name]
  <2>1. CASE i = Len(watch) + 1
    BY <1>1, <1>2, <2>1
  <2>2. CASE i # Len(watch) + 1
    <3>1. i \in 1 .. Len(watch) /\ sent[i] = watch[i] /\ Len(watch) + 1 \in i + 1 .. Len(sent)
      BY <1>2, <2>2
    <3>2. watch[i].name # n
      <4>1. sent[Len(watch) + 1].name # sent[i].name
        BY <1>5, <3>1 DEF Latest
      <4> QED
        BY <1>1, <1>2, <3>1, <4>1
    <3>3. watch[i].name \in Names
      <4>1. watch[i] \in Events(Names, Objects)
        BY <3>1, ElementOfSeq
      <4> QED
        BY <4>1 DEF Events
    <3>4. Latest(watch, i)
      BY <1>2, <1>5, <3>1 DEF Latest
    <3> QED
      BY <1>3, <3>1, <3>2, <3>3, <3>4 DEF CatchesUp
  <2> QED
    BY <2>1, <2>2
<1> HIDE DEF sent, after
<1>6. CatchesUp(cache, sent, after)
  BY <1>3, <1>4, <1>5 DEF CatchesUp
<1> QED
  BY <1>6 DEF sent, after

\* The oldest event arrives.
LEMMA DeliveryCatchesUp ==
    ASSUME NEW Names, NEW Objects, NEW watch \in Seq(Events(Names, Objects)), watch # <<>>,
           NEW cache \in [Names -> Objects], NEW server \in [Names -> Objects],
           CatchesUp(cache, watch, server)
    PROVE  CatchesUp([cache EXCEPT ![Head(watch).name] = Head(watch).object], Tail(watch), server)
<1> DEFINE e == Head(watch)
           rest == Tail(watch)
           after == [cache EXCEPT ![e.name] = e.object]
<1>1. /\ Len(watch) \in Nat \ {0} /\ Len(rest) = Len(watch) - 1
      /\ \A i \in 1 .. Len(rest) : rest[i] = watch[i + 1]
      /\ e = watch[1] /\ e \in Events(Names, Objects)
  BY HeadTailProperties, EmptySeq
<1>2. ASSUME NEW n \in Names, ~InFlight(rest, n) PROVE after[n] = server[n]
  <2>1. CASE n # e.name
    <3>1. ~InFlight(watch, n)
      BY <1>2, <2>1, DeliveryInFlight
    <3> QED
      BY <2>1, <3>1 DEF CatchesUp
  <2>2. CASE n = e.name
    <3>1. ASSUME NEW j \in 2 .. Len(watch) PROVE watch[j].name # n
      <4>1. j - 1 \in 1 .. Len(rest) /\ rest[j - 1] = watch[j]
        BY <1>1, <3>1
      <4> QED
        BY <1>2, <4>1 DEF InFlight
    <3>2. Latest(watch, 1) /\ 1 \in 1 .. Len(watch)
      BY <1>1, <2>2, <3>1 DEF Latest
    <3>3. e.object = server[n]
      BY <1>1, <2>2, <3>2 DEF CatchesUp
    <3> QED
      BY <2>2, <3>3
  <2> QED
    BY <2>1, <2>2
<1>3. ASSUME NEW i \in 1 .. Len(rest), Latest(rest, i)
      PROVE  rest[i].object = server[rest[i].name]
  <2>1. i + 1 \in 1 .. Len(watch) /\ rest[i] = watch[i + 1]
    BY <1>1
  <2>2. Latest(watch, i + 1)
    <3> SUFFICES ASSUME NEW j \in i + 2 .. Len(watch) PROVE watch[j].name # watch[i + 1].name
      BY DEF Latest
    <3>1. j - 1 \in i + 1 .. Len(rest) /\ j - 1 \in 1 .. Len(rest) /\ rest[j - 1] = watch[j]
      BY <1>1
    <3> QED
      BY <1>3, <2>1, <3>1 DEF Latest
  <2> QED
    BY <2>1, <2>2 DEF CatchesUp
<1> HIDE DEF rest, after
<1> QED
  BY <1>2, <1>3 DEF CatchesUp, rest, after

\* Of the events of a name there is a last one.
LEMMA LastEvent ==
    ASSUME NEW Names, NEW Objects, NEW watch \in Seq(Events(Names, Objects)),
           NEW n, InFlight(watch, n)
    PROVE  \E i \in 1 .. Len(watch) : watch[i].name = n /\ Latest(watch, i)
<1> DEFINE since == {k \in 0 .. Len(watch) - 1 : watch[Len(watch) - k].name = n}
           before == OpToRel(<, Nat)
<1>1. Len(watch) \in Nat
  BY LenProperties
<1>2. PICK i \in 1 .. Len(watch) : watch[i].name = n
  BY DEF InFlight
<1>3. Len(watch) - (Len(watch) - i) = i /\ Len(watch) - i \in 0 .. Len(watch) - 1
  BY <1>1
<1>4. since \subseteq Nat /\ since # {}
  <2>1. 0 .. Len(watch) - 1 \subseteq Nat
    BY <1>1
  <2>2. Len(watch) - i \in since
    BY <1>2, <1>3
  <2> QED
    BY <2>1, <2>2
<1>5. IsWellFoundedOn(before, Nat)
  BY NatLessThanWellFounded
<1> HIDE DEF before
<1>6. PICK k \in since : \A l \in since : <<l, k>> \notin before
  <2> HIDE DEF since
  <2> QED
    BY <1>4, <1>5, WFMin
<1>7. ASSUME NEW j \in Len(watch) - k + 1 .. Len(watch) PROVE watch[j].name # n
  <2>1. /\ Len(watch) - j \in 0 .. Len(watch) - 1 /\ Len(watch) - (Len(watch) - j) = j
        /\ k \in Nat /\ Len(watch) - j < k
    BY <1>1, <1>7
  <2>2. <<Len(watch) - j, k>> \in before
    BY <2>1 DEF before, OpToRel
  <2> QED
    BY <1>6, <2>1, <2>2
<1>8. Len(watch) - k \in 1 .. Len(watch) /\ watch[Len(watch) - k].name = n
  BY <1>1
<1> QED
  BY <1>7, <1>8 DEF Latest

\* A list of what the server has, with no event in flight.
LEMMA ListCatchesUp ==
    ASSUME NEW server
    PROVE  CatchesUp(server, <<>>, server)
BY DEF CatchesUp, InFlight
=============================================================================
