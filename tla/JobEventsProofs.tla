--------------------------- MODULE JobEventsProofs ---------------------------
(***************************************************************************)
(* How an application learns what became of its job, for any number of     *)
(* versions, publishers, lost connections and any capacities.              *)
(*                                                                         *)
(* Two things the code relies on are hypotheses: the system clock gives    *)
(* every version a later updated_at than the one before, and no event is   *)
(* dropped at a full outbound queue.  A request for the job may fail at    *)
(* any time.                                                               *)
(***************************************************************************)
EXTENDS JobEvents, FiniteSetTheorems, TLAPS

\* The clock of the agent goes forward between two versions of the job.
ClockAdvances == \A v, w \in Versions : v < w => UpdatedAt[v] < UpdatedAt[w]

\* Outbound::event finds room whenever the session forwards something.
NothingDropped == [][ForwardEvent \/ ForwardLag => Len(out) < OutCap]_vars

-----------------------------------------------------------------------------
(* The invariant.                                                          *)

\* The channels carry versions that were committed.
Past ==
  /\ \A i \in 1..Len(ring) : ring[i] <= ver
  /\ \A i \in 1..Len(out) : out[i].version <= ver

\* TypeOK without the Boolean variables and the count of failed requests.
Shape ==
  /\ ver \in 0..Last
  /\ unpub \in SUBSET (1..ver) /\ Cardinality(unpub) <= Publishers
  /\ ring \in Seq(Versions) /\ Len(ring) <= RingCap
  /\ missed \in Nat
  /\ out \in Seq(Items) /\ Len(out) <= OutCap
  /\ asked \in Nat
  /\ answering \in SUBSET (1..ver)
  /\ known \in 0..ver
  /\ watch \in Watches
  /\ losses \in 0..MaxLosses

Flags == up \in BOOLEAN /\ gaveUp \in BOOLEAN
Failures == refusals \in 0..MaxRefusals

InRing == \E i \in 1..Len(ring) : ring[i] = ver
InOut == \E i \in 1..Len(out) : out[i].version = ver
LagInOut == \E i \in 1..Len(out) : out[i] = Lagged

\* The latest version, or a reason to fetch it, is on its way.
OnItsWay ==
  \/ ver \in unpub \/ InRing \/ InOut \/ ver \in answering
  \/ missed > 0 \/ LagInOut \/ asked > 0

WaiterIsServed == up /\ watch = "waiting" /\ ~gaveUp => known = ver \/ OnItsWay

EventsInv == Shape /\ Flags /\ Failures /\ Past

LEMMA TypeParts == TypeOK <=> Shape /\ Flags /\ Failures
BY Zenon DEF TypeOK, Shape, Flags, Failures

LEMMA ItemKinds ==
  /\ Lagged \in Items /\ Lagged.version = 0
  /\ \A k \in {"event", "response"}, v \in Versions : Item(k, v) \in Items /\ Item(k, v).version = v
  /\ \A m \in Items : m # Lagged => m.version \in Versions
  /\ \A m \in Items : m.version \in Nat
<1>1. Lagged \in Items /\ Lagged.version = 0
  BY DEF Items, Item, Lagged
<1>2. \A k, v : Item(k, v).version = v
  BY DEF Item
<1>3. \A k \in {"event", "response"}, v \in Versions : Item(k, v) \in Items
  BY DEF Items
<1>4. \A m \in Items : m # Lagged => m.version \in Versions
  BY <1>2 DEF Items
<1>5. Versions \subseteq Nat
  BY EventsAssumption DEF Versions
<1>6. \A m \in Items : m.version \in Nat
  <2> TAKE m \in Items
  <2>1. CASE m = Lagged
    BY <1>1, <2>1
  <2>2. CASE m # Lagged
    BY <1>4, <1>5, <2>2, Zenon
  <2> QED BY <2>1, <2>2
<1> QED BY <1>1, <1>2, <1>3, <1>4, <1>6, Zenon

LEMMA AppendIs ==
  ASSUME NEW S, NEW s \in Seq(S), NEW m \in S
  PROVE /\ Append(s, m) \in Seq(S) /\ Len(Append(s, m)) = Len(s) + 1 /\ Len(s) \in Nat
        /\ \A i \in 1..Len(s) : Append(s, m)[i] = s[i]
        /\ Append(s, m)[Len(s) + 1] = m
OBVIOUS

LEMMA TailIs ==
  ASSUME NEW S, NEW s \in Seq(S), s # <<>>
  PROVE /\ Tail(s) \in Seq(S) /\ Len(Tail(s)) = Len(s) - 1 /\ Len(s) \in Nat \ {0}
        /\ \A i \in 1..Len(s) - 1 : Tail(s)[i] = s[i + 1]
        /\ Head(s) = s[1] /\ Head(s) \in S
OBVIOUS

LEMMA UnpubIsFinite ==
  ASSUME Shape
  PROVE  /\ IsFiniteSet(unpub) /\ IsFiniteSet(answering)
         /\ Cardinality(unpub) \in Nat /\ Cardinality(answering) \in Nat
<1>1. ver \in Int /\ 1 \in Int
  BY EventsAssumption DEF Shape
<1>2. IsFiniteSet(1..ver)
  BY <1>1, FS_Interval
<1>3. IsFiniteSet(unpub) /\ IsFiniteSet(answering)
  BY <1>2, FS_Subset DEF Shape
<1> QED BY <1>3, FS_CardinalityType

LEMMA EventsInit == ASSUME Init PROVE EventsInv
<1>1. Cardinality(unpub) = 0 /\ unpub = {} /\ answering = {} /\ ring = <<>> /\ out = <<>>
  BY FS_EmptySet DEF Init
<1>2. /\ ver = 0 /\ missed = 0 /\ asked = 1 /\ known = 0 /\ watch = "no" /\ losses = 0
  BY DEF Init
<1>3. Shape
  BY <1>1, <1>2, EventsAssumption DEF Shape, Watches
<1>4. Flags
  BY Zenon DEF Init, Flags
<1>5. Past
  BY <1>1 DEF Past
<1>6. Failures
  BY EventsAssumption DEF Init, Failures
<1> QED BY <1>3, <1>4, <1>5, <1>6 DEF EventsInv

-----------------------------------------------------------------------------
(* The steps keep the types and carry only what was committed.             *)

\* The connection's state and the history are Booleans whatever happens.
LEMMA FlagsStep == ASSUME Flags, [Next]_vars PROVE Flags'
<1> USE DEF Flags, envVars
<1>1. CASE Commit \/ ForwardLag \/ ForwardEvent \/ ReadJob
  BY <1>1, Zenon DEF Commit, ForwardLag, ForwardEvent, ReadJob
<1>2. CASE \E v \in Versions : Publish(v) \/ Respond(v)
  BY <1>2, Zenon DEF Publish, Respond
<1>3. CASE ReceiveLagged \/ ReceiveJob \/ WaitForJob \/ WaitTimesOut
  BY <1>3, Zenon DEF ReceiveLagged, ReceiveJob, WaitForJob, WaitTimesOut
<1>4. CASE Lose \/ Reconnect \/ RefreshFails
  BY <1>4, Zenon DEF Lose, Reconnect, RefreshFails
<1>5. CASE UNCHANGED vars
  BY <1>5, Zenon DEF vars
<1> QED BY <1>1, <1>2, <1>3, <1>4, <1>5 DEF Next

LEMMA FailuresStep == ASSUME Failures, [Next]_vars PROVE Failures'
<1>1. CASE RefreshFails
  BY <1>1, EventsAssumption DEF RefreshFails, Failures
<1>2. CASE ~RefreshFails
  <2>1. refusals' = refusals
    BY <1>2 DEF Next, Commit, ForwardLag, ForwardEvent, ReadJob, Publish, Respond,
                ReceiveLagged, ReceiveJob, WaitForJob, WaitTimesOut, Lose, Reconnect,
                envVars, vars
  <2> QED BY <2>1 DEF Failures
<1> QED BY <1>1, <1>2

LEMMA CommitInv == ASSUME EventsInv, Commit PROVE Shape' /\ Past'
<1>1. /\ Shape /\ Past /\ IsFiniteSet(unpub) /\ Cardinality(unpub) \in Nat
  BY UnpubIsFinite DEF EventsInv
<1>2. /\ ver < Last /\ Cardinality(unpub) < Publishers /\ ver' = ver + 1
      /\ unpub' = unpub \cup {ver + 1}
      /\ ring' = ring /\ missed' = missed /\ out' = out /\ asked' = asked
      /\ answering' = answering /\ known' = known /\ watch' = watch /\ losses' = losses
  BY DEF Commit, streamVars, envVars
<1>3. Cardinality(unpub') <= Publishers
  BY <1>1, <1>2, FS_AddElement, EventsAssumption
<1>4. ver' \in 0..Last /\ unpub' \in SUBSET (1..ver') /\ answering' \in SUBSET (1..ver') /\ known' \in 0..ver'
  BY <1>1, <1>2, EventsAssumption DEF Shape
<1>5. Shape'
  BY <1>1, <1>2, <1>3, <1>4 DEF Shape
<1>6. Past'
  <2>1. \A i \in 1..Len(ring) : ring[i] <= ver + 1
    <3> TAKE i \in 1..Len(ring)
    <3>1. ring[i] \in Versions
      BY <1>1 DEF Shape
    <3>2. ring[i] \in Nat /\ ring[i] <= ver /\ ver \in Nat
      BY <1>1, <3>1, EventsAssumption DEF Shape, Past, Versions
    <3> QED BY <3>2
  <2>2. \A i \in 1..Len(out) : out[i].version <= ver + 1
    <3> TAKE i \in 1..Len(out)
    <3>1. out[i] \in Items
      BY <1>1 DEF Shape
    <3>2. out[i].version \in Nat /\ out[i].version <= ver /\ ver \in Nat
      BY <1>1, <3>1, ItemKinds, EventsAssumption DEF Shape, Past
    <3> QED BY <3>2
  <2> QED BY <1>2, <2>1, <2>2 DEF Past
<1> QED BY <1>5, <1>6

LEMMA PublishInv == ASSUME EventsInv, NEW v \in Versions, Publish(v) PROVE Shape' /\ Past'
<1>1. /\ Shape /\ Past /\ IsFiniteSet(unpub) /\ Cardinality(unpub) \in Nat
  BY UnpubIsFinite DEF EventsInv
<1>2. /\ v \in unpub /\ unpub' = unpub \ {v} /\ ver' = ver
      /\ out' = out /\ asked' = asked
      /\ answering' = answering /\ known' = known /\ watch' = watch /\ losses' = losses
  BY DEF Publish, envVars
<1>3. Cardinality(unpub') <= Publishers
  <2>1. Cardinality(unpub') = Cardinality(unpub) - 1
    BY <1>1, <1>2, FS_RemoveElement
  <2>2. Publishers \in Nat /\ Cardinality(unpub) <= Publishers
    BY <1>1, EventsAssumption DEF Shape
  <2> QED BY <1>1, <2>1, <2>2
<1>4. \/ ring' = ring /\ missed' = missed
      \/ Len(ring) < RingCap /\ ring' = Append(ring, v) /\ missed' = missed
      \/ Len(ring) = RingCap /\ ring' = Append(Tail(ring), v) /\ missed' = missed + 1
  BY Zenon DEF Publish
<1>5. /\ RingCap \in Nat /\ RingCap > 0 /\ ring \in Seq(Versions) /\ Len(ring) <= RingCap /\ ver \in Nat
      /\ missed \in Nat /\ v <= ver /\ Len(ring) \in Nat
      /\ \A i \in 1..Len(ring) : ring[i] <= ver
  BY <1>1, <1>2, EventsAssumption DEF Shape, Past
<1>6. /\ ring' \in Seq(Versions) /\ Len(ring') <= RingCap /\ missed' \in Nat
      /\ \A i \in 1..Len(ring') : ring'[i] <= ver
  <2>1. CASE ring' = ring /\ missed' = missed
    BY <1>5, <2>1
  <2>2. CASE Len(ring) < RingCap /\ ring' = Append(ring, v) /\ missed' = missed
    BY <1>5, <2>2, AppendIs
  <2>3. CASE Len(ring) = RingCap /\ ring' = Append(Tail(ring), v) /\ missed' = missed + 1
    <3> DEFINE t == Tail(ring)
    <3>1. /\ t \in Seq(Versions) /\ Len(t) = Len(ring) - 1
          /\ \A i \in 1..Len(ring) - 1 : t[i] = ring[i + 1]
      BY <1>5, <2>3, TailIs
    <3>2. /\ Append(t, v) \in Seq(Versions) /\ Len(Append(t, v)) = Len(t) + 1
          /\ \A i \in 1..Len(t) : Append(t, v)[i] = t[i]
          /\ Append(t, v)[Len(t) + 1] = v
      BY <3>1, AppendIs
    <3>3. \A i \in 1..Len(t) : t[i] <= ver
      BY <1>5, <3>1
    <3> HIDE DEF t
    <3>4. \A i \in 1..Len(Append(t, v)) : Append(t, v)[i] <= ver
      BY <1>5, <3>1, <3>2, <3>3
    <3>5. ring' = Append(t, v) /\ missed' = missed + 1
      BY <2>3 DEF t
    <3> QED BY <1>5, <2>3, <3>1, <3>2, <3>4, <3>5
  <2> QED BY <1>4, <2>1, <2>2, <2>3
<1>7. Shape'
  BY <1>1, <1>2, <1>3, <1>6 DEF Shape
<1>8. Past'
  BY <1>1, <1>2, <1>6 DEF Past
<1> QED BY <1>7, <1>8

\* An item put into the outbound queue, if there is room.
LEMMA QueuesItem ==
  ASSUME Shape, Past, NEW item \in Items, item.version <= ver,
         \/ Len(out) < OutCap /\ out' = Append(out, item)
         \/ out' = out
  PROVE  /\ out' \in Seq(Items) /\ Len(out') <= OutCap
         /\ \A i \in 1..Len(out') : out'[i].version <= ver
<1>1. /\ OutCap \in Nat /\ out \in Seq(Items) /\ Len(out) \in Nat /\ Len(out) <= OutCap
      /\ \A i \in 1..Len(out) : out[i].version <= ver
  BY EventsAssumption DEF Shape, Past
<1>2. CASE out' = out
  BY <1>1, <1>2
<1>3. CASE Len(out) < OutCap /\ out' = Append(out, item)
  <2>1. /\ out' \in Seq(Items) /\ Len(out') = Len(out) + 1
        /\ \A i \in 1..Len(out) : out'[i] = out[i]
        /\ out'[Len(out) + 1] = item
    BY <1>1, <1>3, AppendIs
  <2>2. ASSUME NEW i \in 1..Len(out') PROVE out'[i].version <= ver
    <3>1. i \in 1..Len(out) \/ i = Len(out) + 1
      BY <1>1, <2>1
    <3>2. CASE i \in 1..Len(out)
      BY <1>1, <2>1, <3>2, Zenon
    <3>3. CASE i = Len(out) + 1
      BY <2>1, <3>3, Zenon
    <3> QED BY <3>1, <3>2, <3>3
  <2> QED BY <1>1, <1>3, <2>1, <2>2
<1> QED BY <1>2, <1>3

LEMMA ForwardInv == ASSUME EventsInv, ForwardLag \/ ForwardEvent PROVE Shape' /\ Past'
<1>1. Shape /\ Past /\ ver \in Nat
  BY EventsAssumption DEF EventsInv, Shape
<1>2. /\ ver' = ver /\ unpub' = unpub /\ asked' = asked /\ answering' = answering
      /\ known' = known /\ watch' = watch /\ losses' = losses
  BY DEF ForwardLag, ForwardEvent, agentVars, envVars
<1>3. PICK item \in Items :
        /\ item.version <= ver
        /\ \/ Len(out) < OutCap /\ out' = Append(out, item)
           \/ out' = out
  <2>1. CASE ForwardLag
    <3>1. Lagged \in Items /\ Lagged.version <= ver
      BY <1>1, ItemKinds
    <3>2. \/ Len(out) < OutCap /\ out' = Append(out, Lagged)
          \/ out' = out
      BY <2>1 DEF ForwardLag, TryEvent
    <3> QED BY <3>1, <3>2
  <2>2. CASE ForwardEvent
    <3>1. Head(ring) \in Versions /\ Head(ring) <= ver
      <4>1. ring # <<>> /\ ring \in Seq(Versions)
        BY <1>1, <2>2 DEF ForwardEvent, Shape
      <4>2. Head(ring) = ring[1] /\ Head(ring) \in Versions /\ 1 \in 1..Len(ring)
        BY <4>1, TailIs
      <4> QED BY <1>1, <4>2 DEF Past
    <3>2. Item("event", Head(ring)) \in Items /\ Item("event", Head(ring)).version = Head(ring)
      BY <3>1, ItemKinds, Zenon
    <3>3. \/ Len(out) < OutCap /\ out' = Append(out, Item("event", Head(ring)))
          \/ out' = out
      BY <2>2 DEF ForwardEvent, TryEvent
    <3> QED BY <3>1, <3>2, <3>3
  <2> QED BY <2>1, <2>2
<1>4. /\ out' \in Seq(Items) /\ Len(out') <= OutCap
      /\ \A i \in 1..Len(out') : out'[i].version <= ver
  BY <1>1, <1>3, QueuesItem
<1>5. /\ ring' \in Seq(Versions) /\ Len(ring') <= RingCap /\ missed' \in Nat
      /\ \A i \in 1..Len(ring') : ring'[i] <= ver
  <2>0. /\ RingCap \in Nat /\ ring \in Seq(Versions) /\ Len(ring) <= RingCap /\ missed \in Nat
        /\ \A i \in 1..Len(ring) : ring[i] <= ver
    BY <1>1, EventsAssumption DEF Shape, Past
  <2>1. CASE ForwardLag
    <3>1. ring' = ring /\ missed' = 0
      BY <2>1 DEF ForwardLag
    <3> QED BY <2>0, <3>1
  <2>2. CASE ForwardEvent
    <3>1. ring # <<>> /\ ring' = Tail(ring) /\ missed' = missed
      BY <2>2 DEF ForwardEvent
    <3>2. /\ ring' \in Seq(Versions) /\ Len(ring') = Len(ring) - 1 /\ Len(ring) \in Nat
          /\ \A i \in 1..Len(ring) - 1 : ring'[i] = ring[i + 1]
      BY <2>0, <3>1, TailIs
    <3> QED BY <2>0, <3>1, <3>2
  <2> QED BY <2>1, <2>2
<1>6. Shape'
  BY <1>1, <1>2, <1>4, <1>5 DEF Shape
<1> QED BY <1>2, <1>4, <1>5, <1>6 DEF Past

LEMMA AnswerInv ==
  ASSUME EventsInv, ReadJob \/ \E v \in Versions : Respond(v)
  PROVE  Shape' /\ Past'
<1>1. Shape /\ Past /\ ver \in Nat
  BY EventsAssumption DEF EventsInv, Shape
<1>2. CASE ReadJob
  <2>1. /\ asked > 0 /\ ver > 0 /\ asked' = asked - 1 /\ answering' = answering \cup {ver}
        /\ ver' = ver /\ unpub' = unpub /\ ring' = ring /\ missed' = missed /\ out' = out
        /\ known' = known /\ watch' = watch /\ losses' = losses
    BY <1>2 DEF ReadJob, agentVars, streamVars, envVars
  <2>2. asked' \in Nat /\ answering' \in SUBSET (1..ver)
    BY <1>1, <2>1 DEF Shape
  <2>3. Shape'
    BY <1>1, <2>1, <2>2 DEF Shape
  <2> QED BY <1>1, <2>1, <2>3 DEF Past
<1>3. ASSUME NEW v \in Versions, Respond(v) PROVE Shape' /\ Past'
  <2>1. /\ v \in answering /\ Len(out) < OutCap /\ answering' = answering \ {v}
        /\ out' = Append(out, Item("response", v))
        /\ ver' = ver /\ unpub' = unpub /\ ring' = ring /\ missed' = missed /\ asked' = asked
        /\ known' = known /\ watch' = watch /\ losses' = losses
    BY <1>3 DEF Respond, agentVars, envVars
  <2>2. Item("response", v) \in Items /\ Item("response", v).version = v
    BY ItemKinds, Zenon
  <2>3. v <= ver
    BY <1>1, <2>1 DEF Shape
  <2>4. /\ out' \in Seq(Items) /\ Len(out') <= OutCap
        /\ \A i \in 1..Len(out') : out'[i].version <= ver
    BY <1>1, <2>1, <2>2, <2>3, QueuesItem
  <2>5. Shape'
    BY <1>1, <2>1, <2>4 DEF Shape
  <2> QED BY <1>1, <2>1, <2>4, <2>5 DEF Past
<1> QED BY <1>2, <1>3

\* The client takes the oldest item of the outbound queue.
LEMMA TakesItem ==
  ASSUME Shape, Past, out # <<>>, out' = Tail(out)
  PROVE  /\ out' \in Seq(Items) /\ Len(out') <= OutCap
         /\ \A i \in 1..Len(out') : out'[i].version <= ver
         /\ Head(out) \in Items /\ Head(out).version <= ver
<1>1. /\ OutCap \in Nat /\ out \in Seq(Items) /\ Len(out) <= OutCap
      /\ \A i \in 1..Len(out) : out[i].version <= ver
  BY EventsAssumption DEF Shape, Past
<1>2. /\ out' \in Seq(Items) /\ Len(out') = Len(out) - 1 /\ Len(out) \in Nat \ {0}
      /\ \A i \in 1..Len(out) - 1 : out'[i] = out[i + 1]
      /\ Head(out) = out[1] /\ Head(out) \in Items
  BY <1>1, TailIs
<1>3. ASSUME NEW i \in 1..Len(out') PROVE out'[i].version <= ver
  <2>1. i + 1 \in 1..Len(out) /\ out'[i] = out[i + 1]
    BY <1>2
  <2> QED BY <1>1, <2>1, Zenon
<1>4. 1 \in 1..Len(out)
  BY <1>2
<1>5. Head(out).version <= ver
  BY <1>1, <1>2, <1>4, Zenon
<1> QED BY <1>1, <1>2, <1>3, <1>5

LEMMA ReceiveInv == ASSUME EventsInv, ReceiveLagged \/ ReceiveJob PROVE Shape' /\ Past'
<1>1. Shape /\ Past /\ ver \in Nat
  BY EventsAssumption DEF EventsInv, Shape
<1>2. /\ ver' = ver /\ unpub' = unpub /\ ring' = ring /\ missed' = missed
      /\ answering' = answering /\ losses' = losses /\ out # <<>> /\ out' = Tail(out)
  BY DEF ReceiveLagged, ReceiveJob, agentVars, envVars
<1>3. /\ out' \in Seq(Items) /\ Len(out') <= OutCap
      /\ \A i \in 1..Len(out') : out'[i].version <= ver
      /\ Head(out) \in Items /\ Head(out).version <= ver
  BY <1>1, <1>2, TakesItem
<1>4. asked' \in Nat /\ known' \in 0..ver /\ watch' \in Watches
  <2>1. CASE ReceiveLagged
    <3>1. asked' \in {asked, asked + 1} /\ known' = known /\ watch' = watch
      BY <2>1 DEF ReceiveLagged
    <3> QED BY <1>1, <3>1 DEF Shape
  <2>2. CASE ReceiveJob
    <3>1. /\ asked' = asked /\ known' \in {known, Head(out).version}
          /\ watch' \in {watch, "resolved"}
      BY <2>2 DEF ReceiveJob, RecordJob
    <3>2. Head(out).version \in Nat
      BY <1>3, ItemKinds, Zenon
    <3> QED BY <1>1, <1>3, <3>1, <3>2 DEF Shape, Watches
  <2> QED BY <2>1, <2>2
<1>5. Shape'
  BY <1>1, <1>2, <1>3, <1>4 DEF Shape
<1> QED BY <1>1, <1>2, <1>3, <1>5 DEF Past

LEMMA WaitInv == ASSUME EventsInv, WaitForJob \/ WaitTimesOut PROVE Shape' /\ Past'
<1>1. Shape /\ Past
  BY DEF EventsInv
<1>2. /\ ver' = ver /\ unpub' = unpub /\ ring' = ring /\ missed' = missed /\ out' = out
      /\ answering' = answering /\ known' = known /\ losses' = losses
  BY DEF WaitForJob, WaitTimesOut, agentVars, streamVars, envVars
<1>3. asked' \in {asked, asked + 1} /\ watch' \in Watches
  BY DEF WaitForJob, WaitTimesOut, Watches
<1>4. asked' \in Nat
  BY <1>1, <1>3 DEF Shape
<1>5. Shape'
  BY <1>1, <1>2, <1>3, <1>4 DEF Shape
<1> QED BY <1>1, <1>2, <1>5 DEF Past

LEMMA ConnectionInv == ASSUME EventsInv, Lose \/ Reconnect PROVE Shape' /\ Past'
<1>1. Shape /\ Past /\ Cardinality(answering) \in Nat
  BY UnpubIsFinite DEF EventsInv
<1>2. CASE Lose
  <2> DEFINE R == {i \in 1..Len(out) : IsResponse(out[i])}
  <2>1. /\ losses < MaxLosses /\ losses' = losses + 1
        /\ asked' = asked + Cardinality(answering) + Cardinality(R)
        /\ answering' = {} /\ ring' = <<>> /\ missed' = 0 /\ out' = <<>>
        /\ ver' = ver /\ unpub' = unpub /\ known' = known /\ watch' = watch
    BY <1>2, Zenon DEF Lose, agentVars
  <2>2. Cardinality(R) \in Nat
    <3>1. Len(out) \in Int /\ 1 \in Int
      BY <1>1 DEF Shape
    <3>2. IsFiniteSet(1..Len(out))
      BY <3>1, FS_Interval
    <3>3. R \in SUBSET (1..Len(out))
      OBVIOUS
    <3> HIDE DEF R
    <3>4. IsFiniteSet(R)
      BY <3>2, <3>3, FS_Subset
    <3> QED BY <3>4, FS_CardinalityType
  <2> HIDE DEF R
  <2>3. asked' \in Nat /\ losses' \in 0..MaxLosses
    BY <1>1, <2>1, <2>2, EventsAssumption DEF Shape
  <2>4. ring' \in Seq(Versions) /\ Len(ring') <= RingCap /\ out' \in Seq(Items) /\ Len(out') <= OutCap
    BY <2>1, EventsAssumption
  <2>5. Shape'
    BY <1>1, <2>1, <2>3, <2>4 DEF Shape
  <2> QED BY <2>1, <2>5 DEF Past
<1>3. CASE Reconnect
  <2>1. /\ ver' = ver /\ unpub' = unpub /\ ring' = ring /\ missed' = missed /\ out' = out
        /\ answering' = answering /\ known' = known /\ watch' = watch /\ losses' = losses
        /\ asked' \in {asked, asked + 1}
    BY <1>3 DEF Reconnect, agentVars, streamVars, envVars
  <2>2. asked' \in Nat
    BY <1>1, <2>1 DEF Shape
  <2>3. Shape'
    BY <1>1, <2>1, <2>2 DEF Shape
  <2> QED BY <1>1, <2>1, <2>3 DEF Past
<1> QED BY <1>2, <1>3

LEMMA FailInv == ASSUME EventsInv, RefreshFails PROVE Shape' /\ Past'
<1>1. Shape /\ Past
  BY DEF EventsInv
<1>2. /\ ver' = ver /\ unpub' = unpub /\ ring' = ring /\ missed' = missed
      /\ answering' = answering /\ known' = known /\ watch' = watch /\ losses' = losses
  BY DEF RefreshFails, agentVars
<1>3. CASE asked > 0 /\ asked' = asked - 1 /\ out' = out
  <2>1. asked' \in Nat
    BY <1>1, <1>3 DEF Shape
  <2>2. Shape'
    BY <1>1, <1>2, <1>3, <2>1 DEF Shape
  <2> QED BY <1>1, <1>2, <1>3, <2>2 DEF Past
<1>4. CASE out # <<>> /\ out' = Tail(out) /\ asked' = asked
  <2>1. /\ out' \in Seq(Items) /\ Len(out') <= OutCap
        /\ \A i \in 1..Len(out') : out'[i].version <= ver
    BY <1>1, <1>4, TakesItem
  <2>2. Shape'
    BY <1>1, <1>2, <1>4, <2>1 DEF Shape
  <2> QED BY <1>1, <1>2, <2>1, <2>2 DEF Past
<1> QED BY <1>3, <1>4 DEF RefreshFails

LEMMA EventsStep == EventsInv /\ [Next]_vars => EventsInv'
<1> SUFFICES ASSUME EventsInv, [Next]_vars PROVE EventsInv'
  OBVIOUS
<1>1. Flags' /\ Failures'
  BY FlagsStep, FailuresStep DEF EventsInv
<1>2. CASE Commit
  BY <1>1, <1>2, CommitInv DEF EventsInv
<1>3. CASE ForwardLag \/ ForwardEvent
  BY <1>1, <1>3, ForwardInv DEF EventsInv
<1>4. CASE ReadJob \/ \E v \in Versions : Respond(v)
  BY <1>1, <1>4, AnswerInv DEF EventsInv
<1>5. CASE \E v \in Versions : Publish(v)
  BY <1>1, <1>5, PublishInv DEF EventsInv
<1>6. CASE ReceiveLagged \/ ReceiveJob
  BY <1>1, <1>6, ReceiveInv DEF EventsInv
<1>7. CASE WaitForJob \/ WaitTimesOut
  BY <1>1, <1>7, WaitInv DEF EventsInv
<1>8. CASE Lose \/ Reconnect
  BY <1>1, <1>8, ConnectionInv DEF EventsInv
<1>10. CASE RefreshFails
  BY <1>1, <1>10, FailInv DEF EventsInv
<1>9. CASE UNCHANGED vars
  BY <1>1, <1>9 DEF EventsInv, Shape, Past, vars, agentVars, streamVars, envVars
<1> QED BY <1>2, <1>3, <1>4, <1>5, <1>6, <1>7, <1>8, <1>9, <1>10 DEF Next

LEMMA EventsHold == Spec => []EventsInv
<1>1. Init => EventsInv
  BY EventsInit
<1> QED BY <1>1, EventsStep, PTL DEF Spec

-----------------------------------------------------------------------------
(* What the client knows.                                                  *)

\* What the cache takes is later than what it has: #recordJob trusts updated_at
\* alone, which is enough as long as the clock of the agent goes forward.
LEMMA TakesLater ==
  ASSUME ClockAdvances, EventsInv, ReceiveJob
  PROVE  /\ known' >= known
         /\ Head(out).version = ver => known' = ver
         /\ known = ver => known' = ver
<1> DEFINE v == Head(out).version
<1>1. /\ out # <<>> /\ Head(out) # Lagged /\ out' = Tail(out) /\ RecordJob(v)
      /\ Shape /\ Past
  BY DEF ReceiveJob, EventsInv
<1>2. /\ Head(out) \in Items /\ v <= ver
  BY <1>1, TakesItem
<1>3. v \in Versions
  BY <1>1, <1>2, ItemKinds, Zenon
<1> HIDE DEF v
<1>4. /\ Last \in Nat /\ ver \in 0..Last /\ known \in 0..ver /\ v \in 1..Last /\ v <= ver
  BY <1>1, <1>2, <1>3, EventsAssumption DEF Shape, Versions
<1>5. known \in Versions /\ v < known => UpdatedAt[v] < UpdatedAt[known]
  BY <1>3 DEF ClockAdvances
<1>6. known \in Versions /\ known < v => UpdatedAt[known] < UpdatedAt[v]
  BY <1>3 DEF ClockAdvances
<1>7. /\ UpdatedAt[v] \in Nat
      /\ known \in Versions => UpdatedAt[known] \in Nat
  BY <1>3, EventsAssumption
<1>8. known # 0 => known \in Versions
  BY <1>4 DEF Versions
<1>9. known' = IF Stale(v) THEN known ELSE v
  BY <1>1 DEF RecordJob
<1>10. CASE known = 0
  BY <1>4, <1>9, <1>10 DEF Stale, v
<1>11. CASE known # 0 /\ v < known
  BY <1>4, <1>5, <1>7, <1>8, <1>9, <1>11 DEF Stale, v
<1>12. CASE known # 0 /\ v = known
  BY <1>4, <1>9, <1>12 DEF Stale, v
<1>13. CASE known # 0 /\ known < v
  <2>1. known # Last /\ ~(UpdatedAt[known] > UpdatedAt[v])
    BY <1>4, <1>6, <1>7, <1>8, <1>13
  <2> QED BY <1>4, <1>9, <1>13, <2>1 DEF Stale, v
<1> QED BY <1>4, <1>10, <1>11, <1>12, <1>13

\* Listeners never see a job go back (#recordJob), however events and responses
\* overtake each other, as long as the clock of the agent goes forward.
THEOREM ListenersNeverGoBack ==
  ASSUME ClockAdvances PROVE Spec => KnownNeverGoesBack
<1>1. EventsInv /\ [Next]_vars => [known' >= known]_vars
  <2> SUFFICES ASSUME EventsInv, Next PROVE known' >= known
    BY Zenon
  <2>1. known \in Nat
    BY EventsAssumption DEF EventsInv, Shape
  <2>2. CASE ReceiveJob
    BY <2>2, TakesLater
  <2>3. CASE ~ReceiveJob
    <3>1. known' = known
      BY <2>3 DEF Next, Commit, ForwardLag, ForwardEvent, ReadJob, Publish, Respond,
                  ReceiveLagged, WaitForJob, WaitTimesOut, Lose, Reconnect, RefreshFails
    <3> QED BY <2>1, <3>1
  <2> QED BY <2>2, <2>3
<1> QED BY <1>1, EventsHold, PTL DEF Spec, KnownNeverGoesBack

-----------------------------------------------------------------------------
(* An application that waits is served.                                    *)

ServedInv == EventsInv /\ WaiterIsServed

LEMMA ServedByAgent ==
  ASSUME ServedInv, up', watch' = "waiting", ~gaveUp',
         Commit \/ (\E v \in Versions : Publish(v)) \/ ReadJob
  PROVE  known' = ver' \/ OnItsWay'
<1>1. Shape /\ Past /\ WaiterIsServed
  BY DEF ServedInv, EventsInv
<1>2. CASE Commit
  <2>1. ver' \in unpub'
    BY <1>2 DEF Commit
  <2> QED BY <2>1 DEF OnItsWay
<1>3. CASE ReadJob
  <2>1. ver' \in answering'
    BY <1>3 DEF ReadJob, agentVars
  <2> QED BY <2>1 DEF OnItsWay
<1>4. ASSUME NEW v \in Versions, Publish(v) PROVE known' = ver' \/ OnItsWay'
  <2>1. /\ v \in unpub /\ unpub' = unpub \ {v} /\ UNCHANGED <<ver, out, asked, answering, known, watch>>
    BY <1>4 DEF Publish
  <2>2. up /\ ~gaveUp
    BY <1>4, Zenon DEF Publish, envVars
  <2>3. known = ver \/ OnItsWay
    BY <1>1, <2>1, <2>2 DEF WaiterIsServed
  <2>4. \/ Len(ring) < RingCap /\ ring' = Append(ring, v) /\ missed' = missed
        \/ Len(ring) = RingCap /\ ring' = Append(Tail(ring), v) /\ missed' = missed + 1
    BY <1>4, <2>2, Zenon DEF Publish
  <2>5. ring \in Seq(Versions) /\ missed \in Nat
    BY <1>1 DEF Shape
  <2>6. CASE Len(ring) = RingCap /\ ring' = Append(Tail(ring), v) /\ missed' = missed + 1
    <3>1. missed' > 0
      BY <2>5, <2>6
    <3> QED BY <3>1 DEF OnItsWay
  <2>7. CASE Len(ring) < RingCap /\ ring' = Append(ring, v) /\ missed' = missed
    <3>1. /\ Len(ring') = Len(ring) + 1 /\ Len(ring) \in Nat
          /\ \A i \in 1..Len(ring) : ring'[i] = ring[i]
          /\ ring'[Len(ring) + 1] = v
      BY <2>5, <2>7, AppendIs
    <3>2. InRing => InRing'
      BY <2>1, <3>1 DEF InRing
    <3>3. ver = v => InRing'
      BY <2>1, <3>1 DEF InRing
    <3>4. (InOut' <=> InOut) /\ (LagInOut' <=> LagInOut)
      BY <2>1 DEF InOut, LagInOut
    <3> QED BY <2>1, <2>3, <2>7, <3>2, <3>3, <3>4 DEF OnItsWay
  <2> QED BY <2>4, <2>6, <2>7
<1> QED BY <1>2, <1>3, <1>4

\* What is in the queue stays in it when an item is appended.
LEMMA AppendKeeps ==
  ASSUME Shape, NEW item \in Items, out' = Append(out, item), ver' = ver
  PROVE  /\ InOut => InOut'
         /\ LagInOut => LagInOut'
         /\ item.version = ver => InOut'
         /\ item = Lagged => LagInOut'
<1>1. out \in Seq(Items)
  BY DEF Shape
<1>2. /\ Len(out') = Len(out) + 1 /\ Len(out) \in Nat
      /\ \A i \in 1..Len(out) : out'[i] = out[i]
      /\ out'[Len(out) + 1] = item
  BY <1>1, AppendIs
<1>3. Len(out) + 1 \in 1..Len(out') /\ \A i \in 1..Len(out) : i \in 1..Len(out')
  BY <1>2
<1>4. item.version = ver => InOut'
  BY <1>2, <1>3, Zenon DEF InOut
<1>5. item = Lagged => LagInOut'
  BY <1>2, <1>3, Zenon DEF LagInOut
<1>6. InOut => InOut'
  BY <1>2, <1>3, Zenon DEF InOut
<1>7. LagInOut => LagInOut'
  BY <1>2, <1>3, Zenon DEF LagInOut
<1> QED BY <1>4, <1>5, <1>6, <1>7

LEMMA ServedBySession ==
  ASSUME ServedInv, up', watch' = "waiting", ~gaveUp',
         \/ (ForwardLag \/ ForwardEvent) /\ Len(out) < OutCap
         \/ \E v \in Versions : Respond(v)
  PROVE  known' = ver' \/ OnItsWay'
<1>1. Shape /\ Past /\ WaiterIsServed
  BY DEF ServedInv, EventsInv
<1>2. UNCHANGED <<ver, unpub, asked, known, watch>>
  BY DEF ForwardLag, ForwardEvent, Respond, agentVars
<1>3. up /\ ~gaveUp
  <2>1. CASE ForwardLag
    BY <2>1, Zenon DEF ForwardLag, envVars
  <2>3. CASE ForwardEvent
    BY <2>3, Zenon DEF ForwardEvent, envVars
  <2>2. ASSUME NEW v \in Versions, Respond(v) PROVE up /\ ~gaveUp
    BY <2>2, Zenon DEF Respond, envVars
  <2> QED BY <2>1, <2>2, <2>3
<1>4. known = ver \/ OnItsWay
  BY <1>1, <1>2, <1>3 DEF WaiterIsServed
<1>5. CASE ForwardLag /\ Len(out) < OutCap
  <2>1. out' = Append(out, Lagged) /\ Lagged \in Items
    BY <1>5, ItemKinds DEF ForwardLag, TryEvent
  <2>2. LagInOut'
    BY <1>1, <1>2, <2>1, AppendKeeps
  <2> QED BY <2>2 DEF OnItsWay
<1>6. CASE ForwardEvent /\ Len(out) < OutCap
  <2> DEFINE item == Item("event", Head(ring))
  <2>1. /\ missed' = missed /\ answering' = answering /\ ring # <<>> /\ ring' = Tail(ring)
        /\ out' = Append(out, item) /\ ring \in Seq(Versions)
    BY <1>1, <1>6 DEF ForwardEvent, TryEvent, Shape
  <2>2. /\ Len(ring') = Len(ring) - 1 /\ Len(ring) \in Nat \ {0}
        /\ \A i \in 1..Len(ring) - 1 : ring'[i] = ring[i + 1]
        /\ Head(ring) = ring[1] /\ Head(ring) \in Versions
    BY <2>1, TailIs
  <2>3. item \in Items /\ item.version = Head(ring)
    BY <2>2, ItemKinds, Zenon
  <2> HIDE DEF item
  <2>4. (InOut => InOut') /\ (LagInOut => LagInOut') /\ (item.version = ver => InOut')
    BY <1>1, <1>2, <2>1, <2>3, AppendKeeps
  <2>5. InRing => InRing' \/ InOut'
    <3> SUFFICES ASSUME NEW i \in 1..Len(ring), ring[i] = ver PROVE InRing' \/ InOut'
      BY Zenon DEF InRing
    <3>1. CASE i = 1
      BY <2>2, <2>3, <2>4, <3>1
    <3>2. CASE i # 1
      <4>1. i - 1 \in 1..Len(ring') /\ ring'[i - 1] = ver'
        BY <1>2, <2>2, <3>2
      <4> QED BY <4>1 DEF InRing
    <3> QED BY <3>1, <3>2
  <2> QED BY <1>2, <1>4, <2>1, <2>4, <2>5 DEF OnItsWay
<1>7. ASSUME NEW v \in Versions, Respond(v) PROVE known' = ver' \/ OnItsWay'
  <2> DEFINE item == Item("response", v)
  <2>1. /\ missed' = missed /\ ring' = ring /\ answering' = answering \ {v}
        /\ out' = Append(out, item)
    BY <1>7 DEF Respond
  <2>3. item \in Items /\ item.version = v
    BY ItemKinds, Zenon
  <2> HIDE DEF item
  <2>4. (InOut => InOut') /\ (LagInOut => LagInOut') /\ (item.version = ver => InOut')
    BY <1>1, <1>2, <2>1, <2>3, AppendKeeps
  <2>5. InRing' <=> InRing
    BY <1>2, <2>1 DEF InRing
  <2> QED BY <1>2, <1>4, <2>1, <2>3, <2>4, <2>5 DEF OnItsWay
<1> QED BY <1>5, <1>6, <1>7

LEMMA ServedByClient ==
  ASSUME ClockAdvances, ServedInv, up', watch' = "waiting", ~gaveUp',
         ReceiveLagged \/ ReceiveJob \/ WaitForJob \/ WaitTimesOut \/ Lose \/ Reconnect
  PROVE  known' = ver' \/ OnItsWay'
<1>1. Shape /\ Past /\ WaiterIsServed
  BY DEF ServedInv, EventsInv
<1>2. asked \in Nat
  BY <1>1 DEF Shape
<1>3. CASE ReceiveLagged \/ WaitForJob \/ Reconnect
  <2>1. asked' = asked + 1
    BY <1>3 DEF ReceiveLagged, WaitForJob, Reconnect
  <2>2. asked' > 0
    BY <1>2, <2>1
  <2> QED BY <2>2 DEF OnItsWay
<1>4. CASE WaitTimesOut \/ Lose
  <2>1. CASE WaitTimesOut
    BY <2>1 DEF WaitTimesOut
  <2>2. CASE Lose
    BY <2>2, Zenon DEF Lose
  <2> QED BY <1>4, <2>1, <2>2
<1>5. CASE ReceiveJob
  <2>1. /\ UNCHANGED <<ver, unpub, ring, missed, asked, answering>>
        /\ out # <<>> /\ Head(out) # Lagged /\ out' = Tail(out) /\ out \in Seq(Items)
    BY <1>1, <1>5 DEF ReceiveJob, agentVars, Shape
  <2>2. up /\ ~gaveUp /\ watch = "waiting"
    <3>1. up /\ ~gaveUp
      BY <1>5, Zenon DEF ReceiveJob, envVars
    <3>2. watch = "waiting"
      BY <1>5 DEF ReceiveJob, RecordJob
    <3> QED BY <3>1, <3>2
  <2>3. known = ver \/ OnItsWay
    BY <1>1, <2>2 DEF WaiterIsServed
  <2>4. /\ Head(out).version = ver => known' = ver
        /\ known = ver => known' = ver
    BY <1>5, TakesLater DEF ServedInv
  <2>5. /\ Len(out') = Len(out) - 1 /\ Len(out) \in Nat \ {0}
        /\ \A i \in 1..Len(out) - 1 : out'[i] = out[i + 1]
        /\ Head(out) = out[1]
    BY <2>1, TailIs
  <2>6. \A i \in 1..Len(out) : i = 1 \/ (i - 1 \in 1..Len(out') /\ out'[i - 1] = out[i])
    BY <2>5
  <2>7. InOut => InOut' \/ Head(out).version = ver
    BY <2>1, <2>5, <2>6, Zenon DEF InOut
  <2>8. LagInOut => LagInOut'
    BY <2>1, <2>5, <2>6, Zenon DEF LagInOut
  <2>9. InRing' <=> InRing
    BY <2>1 DEF InRing
  <2> QED BY <2>1, <2>3, <2>4, <2>7, <2>8, <2>9 DEF OnItsWay
<1> QED BY <1>3, <1>4, <1>5

\* Whatever was overwritten in the channel, published out of order or lost with
\* a connection, an application that waits for a job ends up with its latest
\* version, and the channels keep their bounds: for any number of versions,
\* publishers and losses, as long as the agent's clock goes forward, no event
\* meets a full outbound queue and the last request for the job did not fail.
THEOREM WaitersAreServed ==
  ASSUME ClockAdvances PROVE Spec /\ NothingDropped => []NothingIsMissed
<1>1. Init => ServedInv
  <2>1. Init => EventsInv
    BY EventsInit
  <2>2. Init => WaiterIsServed
    BY DEF Init, WaiterIsServed
  <2> QED BY <2>1, <2>2 DEF ServedInv
<1>2. ServedInv /\ [Next]_vars /\ [ForwardEvent \/ ForwardLag => Len(out) < OutCap]_vars => ServedInv'
  <2> SUFFICES ASSUME ServedInv, [Next]_vars,
                      [ForwardEvent \/ ForwardLag => Len(out) < OutCap]_vars
               PROVE  ServedInv'
    OBVIOUS
  <2>1. EventsInv'
    BY EventsStep DEF ServedInv
  <2>2. ASSUME Next, ForwardEvent \/ ForwardLag => Len(out) < OutCap PROVE WaiterIsServed'
    <3> SUFFICES ASSUME up', watch' = "waiting", ~gaveUp' PROVE known' = ver' \/ OnItsWay'
      BY Zenon DEF WaiterIsServed
    <3>1. CASE Commit \/ (\E v \in Versions : Publish(v)) \/ ReadJob
      BY <3>1, ServedByAgent
    <3>2. CASE \/ (ForwardLag \/ ForwardEvent) /\ Len(out) < OutCap
               \/ \E v \in Versions : Respond(v)
      BY <3>2, ServedBySession
    <3>3. CASE ReceiveLagged \/ ReceiveJob \/ WaitForJob \/ WaitTimesOut \/ Lose \/ Reconnect
      BY <3>3, ServedByClient
    <3>4. CASE RefreshFails
      BY <3>4, Zenon DEF RefreshFails
    <3> QED BY <2>2, <3>1, <3>2, <3>3, <3>4 DEF Next
  <2>3. CASE UNCHANGED vars
    <3>1. /\ UNCHANGED <<ver, unpub, ring, missed, out, asked, answering, known, watch>>
          /\ (up' <=> up) /\ (gaveUp' <=> gaveUp)
      BY <2>3, Zenon DEF vars, agentVars, streamVars, envVars
    <3>2. OnItsWay' <=> OnItsWay
      BY <3>1 DEF OnItsWay, InRing, InOut, LagInOut
    <3>3. WaiterIsServed'
      BY <3>1, <3>2 DEF WaiterIsServed, ServedInv
    <3> QED BY <2>1, <3>3 DEF ServedInv
  <2> QED BY <2>1, <2>2, <2>3 DEF ServedInv
<1>3. ServedInv => NothingIsMissed
  <2> SUFFICES ASSUME ServedInv PROVE NothingIsMissed
    OBVIOUS
  <2>1. TypeOK
    BY TypeParts DEF ServedInv, EventsInv
  <2>2. ASSUME Quiet, watch = "waiting", ~gaveUp PROVE known = ver
    <3>1. known = ver \/ OnItsWay
      BY <2>2 DEF ServedInv, WaiterIsServed, Quiet
    <3>2. ~OnItsWay
      BY <2>2 DEF Quiet, OnItsWay, InRing, InOut, LagInOut
    <3> QED BY <3>1, <3>2
  <2> QED BY <2>1, <2>2 DEF NothingIsMissed, QuietIsCurrent
<1> QED BY <1>1, <1>2, <1>3, PTL DEF Spec, NothingDropped
=============================================================================
