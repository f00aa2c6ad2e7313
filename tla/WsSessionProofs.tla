--------------------------- MODULE WsSessionProofs ---------------------------
(***************************************************************************)
(* One WebSocket connection, for any queue, number of permits, guard and   *)
(* number of requests: every request has its one response, and an id is    *)
(* not dispatched again as long as the guard remembers it.                 *)
(***************************************************************************)
EXTENDS WsSession, FiniteSetTheorems, TLAPS

InTodo(n) == \E i \in 1..Len(todo) : todo[i] = Response(n)
InOut(n) == \E i \in 1..Len(out) : out[i] = Response(n)

\* The response to n is in one place, once; there is none before the request
\* arrived, and it is not lost while the session lasts.
Apart(n) ==
  /\ \A i, k \in 1..Len(out) : out[i] = Response(n) /\ out[k] = Response(n) => i = k
  /\ InTodo(n) => ~InOut(n) /\ n \notin answered /\ n \notin tasks
  /\ InOut(n) => n \notin answered /\ n \notin tasks
  /\ n \in answered => n \notin tasks
  /\ ~(n <= Len(frames)) => ~InTodo(n) /\ ~InOut(n)
  /\ phase = "run" /\ writer = "on" /\ n <= Len(frames) =>
       InTodo(n) \/ InOut(n) \/ n \in answered \/ n \in tasks

\* TypeOK without the Boolean variables.
Shape ==
  /\ phase \in Phases
  /\ todo \in Seq(Messages) /\ Len(todo) <= 1
  /\ out \in Seq(Messages) /\ Len(out) <= Capacity
  /\ writer \in {"on", "done"}
  /\ frames \in Seq(Ids) /\ Len(frames) <= MaxFrames
  /\ recent \in Seq(Ids) /\ Len(recent) <= Recent
  /\ dispatched \in SUBSET (1..Len(frames))
  /\ tasks \in SUBSET dispatched /\ Cardinality(tasks) <= InFlight
  /\ silent \in 0..SilentTicks + 1
  /\ events \in 0..MaxEvents
  /\ answered \in SUBSET (1..Len(frames))

Flags == leaving \in BOOLEAN /\ {stopping, open, reads, mute} \subseteq BOOLEAN

LEMMA TypeParts == TypeOK <=> Shape /\ Flags
BY Zenon DEF TypeOK, Shape, Flags

\* Nothing has been sent or received in the handshake.
HandshakeIsQuiet == phase = "handshake" => out = <<>> /\ todo = <<>> /\ frames = <<>>

ExchangeInv ==
  /\ Shape /\ Flags
  /\ HandshakeIsQuiet
  /\ \A n \in 1..MaxFrames : Apart(n)

\* A message that is a response is one of its request; no other message is.
LEMMA MessageKinds ==
  /\ \A n : Response(n).kind = "response" /\ Response(n).frame = n
  /\ \A m, n : Response(m) = Response(n) => m = n
  /\ \A n : Response(n) \notin {Hello, Event, Ping, Close}
  /\ \A n \in 1..MaxFrames : Response(n) \in Messages
  /\ {Hello, Event, Ping, Close} \subseteq Messages
  /\ \A m \in Messages : m.kind = "response" => \E n \in 1..MaxFrames : m = Response(n)
<1>1. \A n : Response(n).kind = "response" /\ Response(n).frame = n
  BY DEF Response
<1>2. \A m \in {Hello, Event, Ping, Close} : m.kind # "response"
  BY DEF Hello, Event, Ping, Close
<1>3. \A m, n : Response(m) = Response(n) => m = n
  BY <1>1
<1>4. \A n : Response(n) \notin {Hello, Event, Ping, Close}
  BY <1>1, <1>2
<1> QED BY <1>1, <1>2, <1>3, <1>4 DEF Messages

\* What a longer and a shorter queue hold.
LEMMA AppendHas ==
  ASSUME NEW s \in Seq(Messages), NEW m \in Messages
  PROVE /\ Append(s, m) \in Seq(Messages) /\ Len(Append(s, m)) = Len(s) + 1 /\ Len(s) \in Nat
        /\ \A i \in 1..Len(s) : Append(s, m)[i] = s[i]
        /\ Append(s, m)[Len(s) + 1] = m
OBVIOUS

LEMMA TailHas ==
  ASSUME NEW s \in Seq(Messages), s # <<>>
  PROVE /\ Tail(s) \in Seq(Messages) /\ Len(Tail(s)) = Len(s) - 1 /\ Len(s) \in Nat \ {0}
        /\ \A i \in 1..Len(s) - 1 : Tail(s)[i] = s[i + 1]
        /\ Head(s) = s[1] /\ Head(s) \in Messages
OBVIOUS

LEMMA ExchangeInitInv == ASSUME Init PROVE ExchangeInv
<1>1. Shape
  <2>1. Cardinality(tasks) = 0
    BY FS_EmptySet DEF Init
  <2>2. tasks \in SUBSET dispatched /\ dispatched \in SUBSET (1..Len(frames))
    BY DEF Init
  <2>3. todo \in Seq(Messages) /\ out \in Seq(Messages) /\ frames \in Seq(Ids) /\ recent \in Seq(Ids)
    BY DEF Init
  <2>4. /\ Len(todo) <= 1 /\ Len(out) <= Capacity /\ Len(frames) <= MaxFrames /\ Len(recent) <= Recent
        /\ Cardinality(tasks) <= InFlight /\ silent \in 0..SilentTicks + 1 /\ events \in 0..MaxEvents
    BY <2>1, WsAssumption DEF Init
  <2> QED BY <2>2, <2>3, <2>4 DEF Init, Shape, Phases
<1>2. HandshakeIsQuiet /\ Flags
  BY Zenon DEF Init, HandshakeIsQuiet, Flags
<1>3. \A n \in 1..MaxFrames : Apart(n)
  BY WsAssumption DEF Init, Apart, InTodo, InOut
<1> QED BY <1>1, <1>2, <1>3 DEF ExchangeInv

\* A step that adds nothing but other messages to the queues.
LEMMA OthersQueue ==
  ASSUME ExchangeInv, Shape', Flags', HandshakeIsQuiet',
         UNCHANGED <<frames, tasks, answered>>,
         \A n \in 1..MaxFrames : InTodo(n)' <=> InTodo(n),
         \A i \in 1..Len(out') : \/ i \in 1..Len(out) /\ out'[i] = out[i]
                                 \/ out'[i] \in {Hello, Event, Ping, Close},
         \A n \in 1..MaxFrames : InOut(n) => InOut(n)',
         phase' = "run" /\ writer' = "on" => frames = <<>> \/ (phase = "run" /\ writer = "on")
  PROVE ExchangeInv'
<1> SUFFICES ASSUME NEW n \in 1..MaxFrames PROVE Apart(n)'
  BY Zenon DEF ExchangeInv
<1>0. Apart(n) /\ Len(frames) \in Nat /\ n \in Nat /\ n > 0
  BY WsAssumption DEF ExchangeInv, Shape
<1>1. \A i \in 1..Len(out') : out'[i] = Response(n) => i \in 1..Len(out) /\ out[i] = Response(n)
  BY MessageKinds
<1>2. InOut(n)' <=> InOut(n)
  BY <1>1 DEF InOut
<1>3. \A i, k \in 1..Len(out') : out'[i] = Response(n) /\ out'[k] = Response(n) => i = k
  BY <1>0, <1>1 DEF Apart
<1>4. frames = <<>> => ~(n <= Len(frames))
  BY <1>0
<1> QED BY <1>0, <1>2, <1>3, <1>4 DEF Apart

\* The Boolean variables stay Boolean.
LEMMA FlagsStep == ASSUME Flags, [Next]_vars PROVE Flags'
<1> USE DEF Flags, clientVars, sessionVars
<1>1. CASE HelloAccepted \/ HelloRefused \/ HelloTimesOut
  BY <1>1, Zenon DEF HelloAccepted, HelloRefused, HelloTimesOut
<1>2. CASE StreamEnds \/ OtherMessage \/ EngineEvent \/ SeesShutdown \/ Push
  <2>1. CASE StreamEnds \/ OtherMessage \/ EngineEvent
    BY <2>1, Zenon DEF StreamEnds, OtherMessage, EngineEvent
  <2>2. CASE SeesShutdown \/ Push
    BY <2>2, Zenon DEF SeesShutdown, Push
  <2> QED BY <1>2, <2>1, <2>2
<1>3. CASE Tick
  <2>1. leaving' = leaving \/ leaving' = TRUE
    BY <1>3, Zenon DEF Tick
  <2>2. UNCHANGED <<stopping, open, reads, mute>>
    BY <1>3, Zenon DEF Tick
  <2> QED BY <2>1, <2>2, Zenon
<1>4. CASE \E id \in Ids : RequestRefused(id) \/ RequestDispatched(id)
  BY <1>4, Zenon DEF RequestRefused, RequestDispatched, Receives
<1>5. CASE \E n \in 1..MaxFrames : TaskAnswers(n)
  BY <1>5, Zenon DEF TaskAnswers
<1>6. CASE Write \/ WriteFails \/ WriterEnds \/ SessionEnds
  BY <1>6, Zenon DEF Write, WriteFails, WriterEnds, SessionEnds
<1>7. CASE ClientCloses \/ ClientGoesMute
  <2>1. CASE ClientCloses
    BY <2>1, Zenon DEF ClientCloses
  <2>2. CASE ClientGoesMute
    BY <2>2, Zenon DEF ClientGoesMute
  <2> QED BY <1>7, <2>1, <2>2
<1>8. CASE ClientStalls \/ AgentStops
  BY <1>8, Zenon DEF ClientStalls, AgentStops
<1>9. CASE UNCHANGED vars
  BY <1>9, Zenon DEF vars
<1> QED BY <1>1, <1>2, <1>3, <1>4, <1>5, <1>6, <1>7, <1>8, <1>9, Zenon DEF Next

\* A step that queues another message, or none, and concerns no request.
LEMMA QueuesOther ==
  ASSUME ExchangeInv, Flags', HandshakeIsQuiet',
         NEW m \in {Hello, Event, Ping, Close}, NEW s \in Seq(Messages), s = Append(out, m),
         out' = out \/ (out' = s /\ Len(s) <= Capacity) ,
         UNCHANGED <<frames, recent, tasks, dispatched, answered>>,
         todo' = todo \/ (todo = <<>> /\ todo' = <<Close>>),
         phase' \in Phases, writer' \in {"on", "done"},
         silent' \in 0..SilentTicks + 1, events' \in 0..MaxEvents,
         phase' = "run" /\ writer' = "on" => frames = <<>> \/ (phase = "run" /\ writer = "on")
  PROVE ExchangeInv'
<1>0. Shape /\ Flags /\ m \in Messages
  BY MessageKinds DEF ExchangeInv
<1>1. out' \in Seq(Messages) /\ Len(out') <= Capacity
  BY <1>0 DEF Shape
<1>2. todo' \in Seq(Messages) /\ Len(todo') <= 1
  <2>1. \A c \in Messages : <<c>> \in Seq(Messages) /\ Len(<<c>>) <= 1
    OBVIOUS
  <2>2. Close \in Messages
    BY MessageKinds
  <2>3. CASE todo' = todo
    BY <1>0, <2>3 DEF Shape
  <2>4. CASE todo' = <<Close>>
    BY <2>1, <2>2, <2>4, Zenon
  <2> QED BY <2>3, <2>4
<1>3. Shape'
  BY <1>0, <1>1, <1>2 DEF Shape
<1>4. \A n \in 1..MaxFrames : InTodo(n)' <=> InTodo(n)
  <2>1. CASE todo' = todo
    BY <2>1 DEF InTodo
  <2>2. CASE todo = <<>> /\ todo' = <<Close>>
    <3>1. Len(todo) = 0 /\ Len(todo') = 1 /\ todo'[1] = Close
      BY <2>2
    <3> QED BY <3>1, MessageKinds DEF InTodo
  <2> QED BY <2>1, <2>2
<1>5. \A i \in 1..Len(out') : \/ i \in 1..Len(out) /\ out'[i] = out[i]
                              \/ out'[i] \in {Hello, Event, Ping, Close}
  <2>1. CASE out' = out
    BY <2>1
  <2>2. CASE out' = s
    <3>1. out \in Seq(Messages)
      BY <1>0 DEF Shape
    <3> QED BY <1>0, <2>2, <3>1, AppendHas
  <2> QED BY <2>1, <2>2
<1>6. \A n \in 1..MaxFrames : InOut(n) => InOut(n)'
  <2>1. CASE out' = out
    BY <2>1 DEF InOut
  <2>2. CASE out' = s
    <3>1. out \in Seq(Messages)
      BY <1>0 DEF Shape
    <3>2. Len(out') = Len(out) + 1 /\ Len(out) \in Nat /\ \A i \in 1..Len(out) : out'[i] = out[i]
      BY <1>0, <2>2, <3>1, AppendHas
    <3>3. \A i \in 1..Len(out) : i \in 1..Len(out')
      BY <3>2
    <3> QED BY <3>2, <3>3 DEF InOut
  <2> QED BY <2>1, <2>2
<1> QED BY <1>3, <1>4, <1>5, <1>6, OthersQueue

\* The handshake.
LEMMA HandshakeSteps ==
  ASSUME ExchangeInv, Flags', HelloAccepted \/ HelloRefused \/ HelloTimesOut
  PROVE ExchangeInv'
<1>0. /\ Shape /\ phase = "handshake" /\ out = <<>> /\ frames = <<>>
      /\ UNCHANGED <<frames, recent, tasks, dispatched, answered, todo, writer, silent, events>>
  BY Zenon DEF ExchangeInv, HandshakeIsQuiet, HelloAccepted, HelloRefused, HelloTimesOut, requestVars
<1>1. phase' \in {"run", "closing"} /\ HandshakeIsQuiet'
  BY Zenon DEF HelloAccepted, HelloRefused, HelloTimesOut, HandshakeIsQuiet
<1>2. phase' \in Phases /\ Len(out) = 0 /\ out \in Seq(Messages)
  BY <1>0, <1>1 DEF Phases
<1>3. \A m \in Messages : /\ Append(out, m) \in Seq(Messages) /\ Len(Append(out, m)) <= Capacity
  BY <1>2, WsAssumption, AppendHas
<1>4. CASE \E m \in {Hello, Close} : out' = Append(out, m)
  <2>1. PICK m \in {Hello, Close} : out' = Append(out, m)
    BY <1>4
  <2>2. m \in {Hello, Event, Ping, Close} /\ m \in Messages
    BY MessageKinds
  <2> QED BY <1>0, <1>1, <1>2, <1>3, <2>1, <2>2, QueuesOther DEF Shape
<1>5. CASE out' = out \o <<Hello, Close>>
  <2>1. PICK h \in Messages, c \in Messages : h = Hello /\ c = Close
    BY MessageKinds
  <2>2. out' = <<h, c>>
    BY <1>0, <1>5, <2>1
  <2>3. out' \in Seq(Messages) /\ Len(out') = 2 /\ out'[1] = Hello /\ out'[2] = Close
    BY <2>1, <2>2
  <2>4. Shape'
    BY <1>0, <1>2, <2>3, WsAssumption DEF Shape
  <2>5. \A n \in 1..MaxFrames : ~InOut(n) /\ (InTodo(n)' <=> InTodo(n))
    BY <1>0, <1>2 DEF InOut, InTodo
  <2>6. \A i \in 1..Len(out') : out'[i] \in {Hello, Event, Ping, Close}
    BY <2>3
  <2> QED BY <1>0, <1>1, <2>4, <2>5, <2>6, OthersQueue
<1> QED BY <1>4, <1>5, Zenon DEF HelloAccepted, HelloRefused, HelloTimesOut

\* The select loop, the end of the session and the client, where no request is
\* concerned.
LEMMA LoopSteps ==
  ASSUME ExchangeInv, Flags',
         \/ StreamEnds \/ OtherMessage \/ EngineEvent \/ Tick \/ SeesShutdown
         \/ WriterEnds \/ SessionEnds
         \/ ClientCloses \/ ClientGoesMute \/ ClientStalls \/ AgentStops \/ UNCHANGED vars
  PROVE ExchangeInv'
<1> USE DEF requestVars, queueVars, sessionVars, clientVars
<1>0. Shape /\ HandshakeIsQuiet
  BY DEF ExchangeInv
<1>1. UNCHANGED <<frames, recent, tasks, dispatched, answered>>
  <2>1. CASE StreamEnds \/ OtherMessage \/ EngineEvent \/ Tick \/ SeesShutdown
    BY <2>1, Zenon DEF StreamEnds, OtherMessage, EngineEvent, Tick, SeesShutdown
  <2>2. CASE WriterEnds \/ SessionEnds
    BY <2>2, Zenon DEF WriterEnds, SessionEnds
  <2>3. CASE ClientCloses \/ ClientGoesMute \/ ClientStalls \/ AgentStops
    BY <2>3, Zenon DEF ClientCloses, ClientGoesMute, ClientStalls, AgentStops
  <2>4. CASE UNCHANGED vars
    BY <2>4, Zenon DEF vars
  <2> QED BY <2>1, <2>2, <2>3, <2>4, Zenon
<1>2. PICK m \in {Event, Ping} : out' = out \/ (out' = Append(out, m) /\ Len(out) < Capacity /\ phase = "run")
  <2>1. CASE EngineEvent
    BY <2>1, Zenon DEF EngineEvent, TrySend, AtSelect
  <2>2. CASE Tick
    BY <2>2, Zenon DEF Tick, TrySend, AtSelect
  <2>3. CASE StreamEnds \/ OtherMessage \/ SeesShutdown
    BY <2>3, Zenon DEF StreamEnds, OtherMessage, SeesShutdown
  <2>4. CASE WriterEnds \/ SessionEnds
    BY <2>4, Zenon DEF WriterEnds, SessionEnds
  <2>5. CASE ClientCloses \/ ClientGoesMute \/ ClientStalls \/ AgentStops
    BY <2>5, Zenon DEF ClientCloses, ClientGoesMute, ClientStalls, AgentStops
  <2>6. CASE UNCHANGED vars
    BY <2>6, Zenon DEF vars
  <2> QED BY <2>1, <2>2, <2>3, <2>4, <2>5, <2>6, Zenon
<1>3. todo' = todo \/ (todo = <<>> /\ todo' = <<Close>> /\ phase = "run")
  <2>1. CASE Tick
    BY <2>1, Zenon DEF Tick, AtSelect
  <2>2. CASE EngineEvent \/ StreamEnds \/ OtherMessage \/ SeesShutdown
    BY <2>2, Zenon DEF EngineEvent, StreamEnds, OtherMessage, SeesShutdown, AtSelect
  <2>3. CASE WriterEnds \/ SessionEnds
    BY <2>3, Zenon DEF WriterEnds, SessionEnds
  <2>4. CASE ClientCloses \/ ClientGoesMute \/ ClientStalls \/ AgentStops
    BY <2>4, Zenon DEF ClientCloses, ClientGoesMute, ClientStalls, AgentStops
  <2>5. CASE UNCHANGED vars
    BY <2>5, Zenon DEF vars
  <2> QED BY <2>1, <2>2, <2>3, <2>4, <2>5, Zenon
<1>4. /\ phase' = phase \/ phase' \in {"closing", "gone"}
      /\ writer' = writer \/ writer' = "done"
  <2>1. CASE StreamEnds \/ OtherMessage \/ EngineEvent \/ Tick \/ SeesShutdown
    BY <2>1, Zenon DEF StreamEnds, OtherMessage, EngineEvent, Tick, SeesShutdown
  <2>2. CASE WriterEnds \/ SessionEnds
    BY <2>2, Zenon DEF WriterEnds, SessionEnds
  <2>3. CASE ClientCloses \/ ClientGoesMute \/ ClientStalls \/ AgentStops
    BY <2>3, Zenon DEF ClientCloses, ClientGoesMute, ClientStalls, AgentStops
  <2>4. CASE UNCHANGED vars
    BY <2>4, Zenon DEF vars
  <2> QED BY <2>1, <2>2, <2>3, <2>4, Zenon
<1>5. silent' \in 0..SilentTicks + 1
  <2>1. CASE Tick
    <3>1. silent' = silent \/ (silent <= SilentTicks /\ silent' = silent + 1)
      BY <2>1, Zenon DEF Tick
    <3> QED BY <1>0, <3>1, WsAssumption DEF Shape
  <2>2. CASE OtherMessage
    <3>1. silent' = 0
      BY <2>2, Zenon DEF OtherMessage
    <3> QED BY <3>1, WsAssumption
  <2>3. CASE silent' = silent
    BY <1>0, <2>3 DEF Shape
  <2>4. silent' = silent \/ Tick \/ OtherMessage
    <3>1. CASE StreamEnds \/ EngineEvent \/ SeesShutdown \/ WriterEnds \/ SessionEnds
      BY <3>1, Zenon DEF StreamEnds, EngineEvent, SeesShutdown, WriterEnds, SessionEnds
    <3>2. CASE ClientCloses \/ ClientGoesMute \/ ClientStalls \/ AgentStops
      BY <3>2, Zenon DEF ClientCloses, ClientGoesMute, ClientStalls, AgentStops
    <3>3. CASE UNCHANGED vars
      BY <3>3, Zenon DEF vars
    <3> QED BY <3>1, <3>2, <3>3, Zenon
  <2> QED BY <2>1, <2>2, <2>3, <2>4
<1>6. events' \in 0..MaxEvents
  <2>1. CASE EngineEvent
    <3>1. events < MaxEvents /\ events' = events + 1
      BY <2>1, Zenon DEF EngineEvent
    <3> QED BY <1>0, <3>1, WsAssumption DEF Shape
  <2>2. CASE events' = events
    BY <1>0, <2>2 DEF Shape
  <2>3. events' = events \/ EngineEvent
    <3>1. CASE StreamEnds \/ OtherMessage \/ Tick \/ SeesShutdown \/ WriterEnds \/ SessionEnds
      BY <3>1, Zenon DEF StreamEnds, OtherMessage, Tick, SeesShutdown, WriterEnds, SessionEnds
    <3>2. CASE ClientCloses \/ ClientGoesMute \/ ClientStalls \/ AgentStops
      BY <3>2, Zenon DEF ClientCloses, ClientGoesMute, ClientStalls, AgentStops
    <3>3. CASE UNCHANGED vars
      BY <3>3, Zenon DEF vars
    <3> QED BY <3>1, <3>2, <3>3, Zenon
  <2> QED BY <2>1, <2>2, <2>3
<1>7. /\ phase' \in Phases /\ writer' \in {"on", "done"}
      /\ phase' = "run" /\ writer' = "on" => phase = "run" /\ writer = "on"
      /\ phase' = "handshake" => phase = "handshake"
  BY <1>0, <1>4 DEF Shape, Phases
<1>8. HandshakeIsQuiet'
  BY <1>0, <1>1, <1>2, <1>3, <1>7 DEF HandshakeIsQuiet
<1>9. PICK s \in Seq(Messages) : s = Append(out, m) /\ Len(s) = Len(out) + 1
  <2>1. m \in Messages /\ out \in Seq(Messages)
    BY <1>0, MessageKinds DEF Shape
  <2> QED BY <2>1, AppendHas
<1>10. out' = out \/ (out' = s /\ Len(s) <= Capacity)
  BY <1>0, <1>2, <1>9, WsAssumption DEF Shape
<1> QED BY <1>1, <1>3, <1>5, <1>6, <1>7, <1>8, <1>9, <1>10, QueuesOther

\* The guard takes an id and forgets the oldest one when it is full.
LEMMA RememberIs ==
  ASSUME Shape, NEW id \in Ids
  PROVE /\ Remember(id) \in Seq(Ids) /\ Len(Remember(id)) <= Recent
        /\ Len(recent) \in Nat /\ Len(Remember(id)) \in Nat \ {0}
        /\ Remember(id)[Len(Remember(id))] = id
        /\ Len(recent) < Recent =>
             /\ Len(Remember(id)) = Len(recent) + 1
             /\ \A p \in 1..Len(recent) : Remember(id)[p] = recent[p]
        /\ Len(recent) >= Recent =>
             /\ Len(Remember(id)) = Len(recent) /\ Len(recent) = Recent
             /\ \A p \in 1..Len(recent) : p # 1 => Remember(id)[p - 1] = recent[p]
<1>1. PICK ids : ids = Append(recent, id)
  OBVIOUS
<1>2. recent \in Seq(Ids) /\ Len(recent) <= Recent /\ Recent \in Nat \ {0} /\ Len(recent) \in Nat
  BY WsAssumption DEF Shape
<1>3. /\ ids \in Seq(Ids) /\ Len(ids) = Len(recent) + 1 /\ ids[Len(recent) + 1] = id
      /\ \A p \in 1..Len(recent) : ids[p] = recent[p]
  BY <1>1, <1>2
<1>4. CASE Len(recent) < Recent
  <2>1. Remember(id) = ids
    BY <1>1, <1>2, <1>3, <1>4 DEF Remember
  <2> QED BY <1>2, <1>3, <1>4, <2>1
<1>5. CASE ~(Len(recent) < Recent)
  <2>1. Remember(id) = Tail(ids) /\ Len(recent) = Recent
    BY <1>1, <1>2, <1>3, <1>5 DEF Remember
  <2>2. /\ Tail(ids) \in Seq(Ids) /\ Len(Tail(ids)) = Len(recent)
        /\ \A p \in 1..Len(recent) : Tail(ids)[p] = ids[p + 1]
    BY <1>2, <1>3
  <2>3. \A p \in 1..Len(recent) : p # 1 => Tail(ids)[p - 1] = recent[p]
    BY <1>2, <1>3, <2>2
  <2>4. Tail(ids)[Len(recent)] = id
    BY <1>2, <1>3, <2>1, <2>2
  <2> QED BY <1>2, <1>5, <2>1, <2>2, <2>3, <2>4
<1> QED BY <1>4, <1>5

\* Requests are numbered, so there are finitely many.
LEMMA TasksAreFinite ==
  ASSUME Shape PROVE IsFiniteSet(tasks) /\ Cardinality(tasks) \in Nat
<1>1. Len(frames) \in Nat /\ tasks \subseteq 1..Len(frames)
  BY DEF Shape
<1>2. IsFiniteSet(1..Len(frames))
  BY <1>1, FS_Interval
<1> QED BY <1>1, <1>2, FS_Subset, FS_CardinalityType

\* A request is answered at once or given to a task.
LEMMA RequestSteps ==
  ASSUME ExchangeInv, Flags', NEW id \in Ids, RequestRefused(id) \/ RequestDispatched(id)
  PROVE ExchangeInv'
<1>0. Shape /\ Len(frames) \in Nat
  BY DEF ExchangeInv, Shape
<1>1. /\ phase = "run" /\ todo = <<>> /\ Len(frames) < MaxFrames
      /\ frames' = Append(frames, id) /\ silent' = 0
      /\ UNCHANGED <<phase, out, writer, answered, events>>
  BY Zenon DEF RequestRefused, RequestDispatched, Receives, AtSelect, queueVars
<1>2. PICK N : N = Len(frames) + 1
  OBVIOUS
<1>3. /\ N \in 1..MaxFrames /\ Len(frames') = N /\ frames' \in Seq(Ids)
      /\ 1..Len(frames) \subseteq 1..Len(frames') /\ N \in 1..Len(frames') /\ N \notin 1..Len(frames)
  BY <1>0, <1>1, <1>2, WsAssumption DEF Shape
<1>4. recent' \in {recent, Remember(id)}
  BY Zenon DEF RequestRefused, RequestDispatched
<1>5. recent' \in Seq(Ids) /\ Len(recent') <= Recent
  BY <1>0, <1>4, RememberIs DEF Shape
<1>6. \/ todo' = <<Response(N)>> /\ tasks' = tasks /\ dispatched' = dispatched
      \/ /\ todo' = todo /\ tasks' = tasks \cup {N} /\ dispatched' = dispatched \cup {N}
         /\ Cardinality(tasks) < InFlight
  <2>1. CASE RequestRefused(id)
    BY <1>3, <2>1, Zenon DEF RequestRefused
  <2>2. CASE RequestDispatched(id)
    BY <1>3, <2>2, Zenon DEF RequestDispatched
  <2> QED BY <2>1, <2>2
<1>7. todo' \in Seq(Messages) /\ Len(todo') <= 1
  <2>1. \A c \in Messages : <<c>> \in Seq(Messages) /\ Len(<<c>>) <= 1
    OBVIOUS
  <2>2. Response(N) \in Messages
    BY <1>3, MessageKinds
  <2>3. CASE todo' = <<Response(N)>>
    BY <2>1, <2>2, <2>3, Zenon
  <2>4. CASE todo' = todo
    BY <1>0, <2>4 DEF Shape
  <2> QED BY <1>6, <2>3, <2>4
<1>8. Cardinality(tasks') <= InFlight
  <2>1. IsFiniteSet(tasks) /\ Cardinality(tasks) \in Nat
    BY <1>0, TasksAreFinite
  <2>2. CASE tasks' = tasks
    BY <1>0, <2>2 DEF Shape
  <2>3. CASE tasks' = tasks \cup {N} /\ Cardinality(tasks) < InFlight
    <3>1. Cardinality(tasks \cup {N}) \in {Cardinality(tasks), Cardinality(tasks) + 1}
      BY <2>1, FS_AddElement
    <3> QED BY <2>1, <2>3, <3>1, WsAssumption
  <2> QED BY <1>6, <2>2, <2>3
<1>9. Shape'
  <2>1. dispatched' \in SUBSET (1..Len(frames')) /\ tasks' \in SUBSET dispatched'
    BY <1>0, <1>3, <1>6 DEF Shape
  <2>2. answered' \in SUBSET (1..Len(frames')) /\ Len(frames') <= MaxFrames /\ silent' \in 0..SilentTicks + 1
    BY <1>0, <1>1, <1>3, WsAssumption DEF Shape
  <2> QED BY <1>0, <1>1, <1>3, <1>5, <1>7, <1>8, <2>1, <2>2 DEF Shape
<1>10. ASSUME NEW n \in 1..MaxFrames PROVE Apart(n)'
  <2>0. Apart(n) /\ ~InTodo(n) /\ (InOut(n)' <=> InOut(n))
    <3>1. Len(todo) = 0
      BY <1>1
    <3> QED BY <1>1, <3>1 DEF ExchangeInv, InTodo, InOut
  <2>1. \A i, k \in 1..Len(out') : out'[i] = Response(n) /\ out'[k] = Response(n) => i = k
    BY <1>1, <2>0 DEF Apart
  <2>2. InTodo(n)' <=> (n = N /\ todo' = <<Response(N)>>)
    <3>1. CASE todo' = <<Response(N)>>
      <4>1. Len(todo') = 1 /\ todo'[1] = Response(N)
        BY <3>1
      <4> QED BY <3>1, <4>1, MessageKinds DEF InTodo
    <3>2. CASE todo' = todo /\ tasks' = tasks \cup {N}
      <4>1. Len(todo') = 0
        BY <1>1, <3>2
      <4>2. ~InTodo(n)'
        BY <4>1 DEF InTodo
      <4>3. todo' # <<Response(N)>>
        BY <4>1
      <4> QED BY <4>2, <4>3
    <3> QED BY <1>6, <3>1, <3>2
  <2>3. CASE n = N
    <3>1. n \notin answered /\ n \notin tasks /\ ~InOut(n)
      <4>1. ~(n <= Len(frames))
        BY <1>0, <1>2, <2>3
      <4>2. n \notin 1..Len(frames)
        BY <1>3, <2>3
      <4> QED BY <1>0, <2>0, <4>1, <4>2 DEF Apart, Shape
    <3>2. n <= Len(frames')
      BY <1>0, <1>2, <1>3, <2>3
    <3>3. \/ InTodo(n)' /\ n \notin tasks'
          \/ ~InTodo(n)' /\ n \in tasks'
      <4>1. CASE todo' = <<Response(N)>> /\ tasks' = tasks
        BY <2>2, <2>3, <3>1, <4>1
      <4>2. CASE todo' = todo /\ tasks' = tasks \cup {N}
        <5>1. Len(todo') = 0
          BY <1>1, <4>2
        <5> QED BY <2>3, <4>2, <5>1 DEF InTodo
      <4> QED BY <1>6, <4>1, <4>2
    <3> QED BY <1>1, <2>0, <2>1, <3>1, <3>2, <3>3 DEF Apart
  <2>4. CASE n # N
    <3>1. ~InTodo(n)' /\ (n \in tasks' <=> n \in tasks)
      BY <1>6, <2>2, <2>4
    <3>2. n <= Len(frames') <=> n <= Len(frames)
      BY <1>0, <1>2, <1>3, <2>4
    <3> QED BY <1>1, <2>0, <2>1, <3>1, <3>2 DEF Apart
  <2> QED BY <2>3, <2>4
<1>11. HandshakeIsQuiet'
  BY <1>1 DEF HandshakeIsQuiet
<1> QED BY <1>9, <1>10, <1>11, Zenon DEF ExchangeInv

\* A message goes from the session task or a request's task to the queue, or is
\* dropped after the writer has ended.
LEMMA SendsOne ==
  ASSUME ExchangeInv, Flags', NEW m \in Messages, CanSend, Send(m),
         UNCHANGED <<frames, recent, dispatched, answered, writer, silent, events>>,
         phase' \in {phase, "closing"}, phase = "handshake" => phase' # "handshake",
         todo' \in Seq(Messages), Len(todo') <= 1,
         tasks' \in SUBSET tasks, Cardinality(tasks') <= InFlight,
         \A n \in 1..MaxFrames :
           /\ InTodo(n)' => InTodo(n)
           /\ m = Response(n) => (InTodo(n) \/ n \in tasks) /\ ~InTodo(n)' /\ n \notin tasks'
           /\ m # Response(n) => (InTodo(n) => InTodo(n)') /\ (n \in tasks => n \in tasks')
  PROVE ExchangeInv'
<1>0. Shape /\ HandshakeIsQuiet /\ out \in Seq(Messages) /\ Len(out) \in Nat /\ Len(frames) \in Nat
  BY DEF ExchangeInv, Shape
<1>1. \/ writer = "done" /\ out' = out
      \/ writer = "on" /\ out' = Append(out, m) /\ Len(out) < Capacity
  BY <1>0, Zenon DEF Shape, CanSend, Send
<1>2. \/ writer = "done" /\ out' = out
      \/ /\ writer = "on" /\ out' \in Seq(Messages) /\ Len(out') = Len(out) + 1 /\ Len(out') <= Capacity
         /\ \A i \in 1..Len(out) : out'[i] = out[i]
         /\ out'[Len(out) + 1] = m
  <2>1. CASE writer = "done" /\ out' = out
    BY <2>1
  <2>2. CASE writer = "on" /\ out' = Append(out, m) /\ Len(out) < Capacity
    <3>1. Len(out) + 1 <= Capacity
      BY <1>0, <2>2, WsAssumption
    <3> QED BY <1>0, <2>2, <3>1, AppendHas
  <2> QED BY <1>1, <2>1, <2>2
<1>3. Shape'
  <2>1. out' \in Seq(Messages) /\ Len(out') <= Capacity
    BY <1>0, <1>2 DEF Shape
  <2>2. phase' \in Phases
    BY <1>0 DEF Shape, Phases
  <2> QED BY <1>0, <2>1, <2>2 DEF Shape
<1>4. HandshakeIsQuiet'
  BY <1>0 DEF HandshakeIsQuiet
<1>5. ASSUME NEW n \in 1..MaxFrames PROVE Apart(n)'
  <2>0. Apart(n) /\ (n <= Len(frames') <=> n <= Len(frames))
    BY DEF ExchangeInv
  <2>1. CASE writer = "done" /\ out' = out
    <3>1. InOut(n)' <=> InOut(n)
      BY <2>1 DEF InOut
    <3>2. \A i, k \in 1..Len(out') : out'[i] = Response(n) /\ out'[k] = Response(n) => i = k
      BY <2>0, <2>1 DEF Apart
    <3> QED BY <2>0, <2>1, <3>1, <3>2 DEF Apart
  <2>2. CASE writer = "on" /\ Len(out') = Len(out) + 1
             /\ (\A i \in 1..Len(out) : out'[i] = out[i]) /\ out'[Len(out) + 1] = m
    <3>1. \A i \in 1..Len(out') : i \in 1..Len(out) \/ i = Len(out) + 1
      BY <1>0, <2>2
    <3>2. (\A i \in 1..Len(out) : i \in 1..Len(out')) /\ Len(out) + 1 \in 1..Len(out')
      BY <1>0, <2>2
    <3>3. InOut(n)' <=> InOut(n) \/ m = Response(n)
      BY <2>2, <3>1, <3>2 DEF InOut
    <3>4. CASE m = Response(n)
      <4>1. ~InOut(n) /\ n \notin answered
        BY <2>0, <3>4 DEF Apart
      <4>2. \A i \in 1..Len(out') : out'[i] = Response(n) => i = Len(out) + 1
        BY <2>2, <3>1, <4>1 DEF InOut
      <4>3. n <= Len(frames)
        BY <1>0, <2>0, <3>4 DEF Apart, Shape
      <4> QED BY <2>0, <3>3, <3>4, <4>1, <4>2, <4>3 DEF Apart
    <3>5. CASE m # Response(n)
      <4>1. \A i \in 1..Len(out') : out'[i] = Response(n) => i \in 1..Len(out) /\ out[i] = Response(n)
        BY <2>2, <3>1, <3>5
      <4>2. \A i, k \in 1..Len(out') : out'[i] = Response(n) /\ out'[k] = Response(n) => i = k
        BY <2>0, <4>1 DEF Apart
      <4> QED BY <2>0, <3>3, <3>5, <4>2 DEF Apart
    <3> QED BY <3>4, <3>5
  <2> QED BY <1>2, <2>1, <2>2
<1> QED BY <1>3, <1>4, <1>5, Zenon DEF ExchangeInv

LEMMA SendSteps ==
  ASSUME ExchangeInv, Flags', Push \/ \E n \in 1..MaxFrames : TaskAnswers(n)
  PROVE ExchangeInv'
<1>0. Shape /\ HandshakeIsQuiet
  BY DEF ExchangeInv
<1>1. CASE Push
  <2>1. /\ todo # <<>> /\ CanSend /\ Send(Head(todo)) /\ todo' = Tail(todo)
        /\ UNCHANGED <<frames, recent, tasks, dispatched, answered, writer, silent, events>>
        /\ phase' \in {phase, "closing"}
    BY <1>1, Zenon DEF Push, requestVars
  <2>2. todo \in Seq(Messages) /\ Len(todo) <= 1
    BY <1>0 DEF Shape
  <2>3. Len(todo) = 1 /\ Head(todo) = todo[1] /\ Head(todo) \in Messages /\ todo' \in Seq(Messages) /\ Len(todo') = 0
    BY <2>1, <2>2
  <2>4. \A n \in 1..MaxFrames : ~InTodo(n)' /\ (InTodo(n) <=> Head(todo) = Response(n))
    BY <2>3 DEF InTodo
  <2>5. \A n \in 1..MaxFrames : InTodo(n) => n \notin tasks
    BY DEF ExchangeInv, Apart
  <2>6. phase # "handshake"
    BY <1>0, <2>1 DEF HandshakeIsQuiet
  <2> QED BY <1>0, <2>1, <2>3, <2>4, <2>5, <2>6, SendsOne DEF Shape
<1>2. CASE \E n \in 1..MaxFrames : TaskAnswers(n)
  <2>0. PICK n \in 1..MaxFrames : TaskAnswers(n)
    BY <1>2
  <2>1. /\ n \in tasks /\ CanSend /\ Send(Response(n)) /\ tasks' = tasks \ {n}
        /\ UNCHANGED <<phase, todo, frames, recent, dispatched, answered, writer, silent, events>>
    BY <2>0, Zenon DEF TaskAnswers, sessionVars
  <2>2. Response(n) \in Messages /\ \A k : Response(n) = Response(k) => k = n
    BY MessageKinds
  <2>3. Cardinality(tasks') <= InFlight
    <3>1. IsFiniteSet(tasks) /\ Cardinality(tasks) \in Nat
      BY <1>0, TasksAreFinite
    <3>2. Cardinality(tasks \ {n}) = Cardinality(tasks) - 1
      BY <2>1, <3>1, FS_RemoveElement
    <3> QED BY <1>0, <2>1, <3>1, <3>2, WsAssumption DEF Shape
  <2>4. \A k \in 1..MaxFrames : InTodo(k)' <=> InTodo(k)
    BY <2>1 DEF InTodo
  <2>5. ~InTodo(n)
    BY <2>1 DEF ExchangeInv, Apart
  <2>6. phase # "handshake"
    BY <1>0, <2>1 DEF HandshakeIsQuiet, Shape
  <2>7. \A k \in 1..MaxFrames :
           /\ InTodo(k)' => InTodo(k)
           /\ Response(n) = Response(k) => (InTodo(k) \/ k \in tasks) /\ ~InTodo(k)' /\ k \notin tasks'
           /\ Response(n) # Response(k) => (InTodo(k) => InTodo(k)') /\ (k \in tasks => k \in tasks')
    BY <2>1, <2>2, <2>4, <2>5
  <2> QED BY <1>0, <2>1, <2>2, <2>3, <2>6, <2>7, SendsOne DEF Shape
<1> QED BY <1>1, <1>2

\* The writer gives a response to the client, or ends.
LEMMA WriterSteps ==
  ASSUME ExchangeInv, Flags', Write \/ WriteFails
  PROVE ExchangeInv'
<1>0. Shape /\ HandshakeIsQuiet /\ out \in Seq(Messages) /\ Len(frames) \in Nat
  BY DEF ExchangeInv, Shape
<1>1. /\ out # <<>> /\ writer = "on"
      /\ UNCHANGED <<phase, todo, silent, frames, recent, tasks, dispatched, events>>
  BY Zenon DEF Write, WriteFails, sessionVars, requestVars
<1>2. HandshakeIsQuiet' /\ phase # "handshake"
  BY <1>0, <1>1 DEF HandshakeIsQuiet
<1>3. \A n \in 1..MaxFrames : InTodo(n)' <=> InTodo(n)
  BY <1>1 DEF InTodo
<1>4. CASE WriteFails
  <2>1. writer' = "done" /\ out' = <<>> /\ answered' = answered
    BY <1>4, Zenon DEF WriteFails
  <2>2. Len(out') = 0 /\ out' \in Seq(Messages)
    BY <2>1
  <2>3. Shape'
    BY <1>0, <1>1, <2>1, <2>2, WsAssumption DEF Shape
  <2>4. \A n \in 1..MaxFrames : ~InOut(n)' /\ Apart(n)
    BY <2>2 DEF InOut, ExchangeInv
  <2>5. \A n \in 1..MaxFrames : Apart(n)'
    BY <1>1, <1>3, <2>1, <2>2, <2>4 DEF Apart
  <2> QED BY <1>2, <2>3, <2>5, Zenon DEF ExchangeInv
<1>5. CASE Write
  <2>1. /\ out' = Tail(out) /\ writer' \in {"on", "done"}
        /\ answered' = IF Head(out).kind = "response" THEN answered \cup {Head(out).frame} ELSE answered
    BY <1>5, Zenon DEF Write
  <2>2. /\ out' \in Seq(Messages) /\ Len(out') = Len(out) - 1 /\ Len(out) \in Nat \ {0}
        /\ \A i \in 1..Len(out) - 1 : out'[i] = out[i + 1]
        /\ Head(out) = out[1] /\ Head(out) \in Messages
    BY <1>0, <1>1, <2>1, TailHas
  <2>3. ASSUME NEW n \in 1..MaxFrames
        PROVE /\ n \in answered' <=> n \in answered \/ Head(out) = Response(n)
              /\ Head(out) = Response(n) => InOut(n)
    <3>1. Head(out) = Response(n) => Head(out).kind = "response" /\ Head(out).frame = n
      BY MessageKinds
    <3>2. Head(out).kind = "response" /\ Head(out).frame = n => Head(out) = Response(n)
      BY <2>2, MessageKinds
    <3>3. Head(out) = Response(n) => InOut(n)
      BY <2>2 DEF InOut
    <3> QED BY <2>1, <3>1, <3>2, <3>3
  <2>4. answered' \subseteq 1..Len(frames)
    <3>1. CASE Head(out).kind # "response"
      BY <1>0, <2>1, <3>1 DEF Shape
    <3>2. CASE Head(out).kind = "response"
      <4>1. PICK n \in 1..MaxFrames : Head(out) = Response(n)
        BY <2>2, <3>2, MessageKinds
      <4>2. n <= Len(frames) /\ Head(out).frame = n
        BY <2>3, <4>1, MessageKinds DEF ExchangeInv, Apart
      <4>3. n \in 1..Len(frames)
        BY <1>0, <4>2, WsAssumption
      <4> QED BY <1>0, <2>1, <3>2, <4>2, <4>3 DEF Shape
    <3> QED BY <3>1, <3>2
  <2>5. Shape'
    <3>1. Len(out') <= Capacity
      BY <1>0, <2>2, WsAssumption DEF Shape
    <3> QED BY <1>0, <1>1, <2>1, <2>2, <2>4, <3>1 DEF Shape
  <2>6. ASSUME NEW n \in 1..MaxFrames PROVE Apart(n)'
    <3>0. Apart(n) /\ (n <= Len(frames') <=> n <= Len(frames))
      BY <1>1 DEF ExchangeInv
    <3>1. \A i \in 1..Len(out') : i + 1 \in 1..Len(out) /\ out'[i] = out[i + 1] /\ i + 1 # 1
      BY <2>2
    <3>2. \A i, k \in 1..Len(out') : out'[i] = Response(n) /\ out'[k] = Response(n) => i = k
      <4>1. ASSUME NEW i \in 1..Len(out'), NEW k \in 1..Len(out'),
                   out'[i] = Response(n), out'[k] = Response(n)
            PROVE i = k
        <5>1. i + 1 = k + 1
          BY <3>0, <3>1, <4>1 DEF Apart
        <5> QED BY <2>2, <5>1
      <4> QED BY <4>1
    <3>3. InOut(n)' => InOut(n) /\ Head(out) # Response(n)
      <4> SUFFICES ASSUME NEW i \in 1..Len(out'), out'[i] = Response(n)
                   PROVE InOut(n) /\ Head(out) # Response(n)
        BY DEF InOut
      <4>1. i + 1 \in 1..Len(out) /\ out[i + 1] = Response(n) /\ i + 1 # 1
        BY <3>1
      <4>2. 1 \in 1..Len(out)
        BY <2>2
      <4> QED BY <2>2, <3>0, <4>1, <4>2 DEF Apart, InOut
    <3>4. InOut(n) => InOut(n)' \/ Head(out) = Response(n)
      <4> SUFFICES ASSUME NEW i \in 1..Len(out), out[i] = Response(n), i # 1
                   PROVE InOut(n)'
        BY <2>2 DEF InOut
      <4>1. i - 1 \in 1..Len(out') /\ out'[i - 1] = out[i]
        BY <2>2
      <4> QED BY <4>1 DEF InOut
    <3>5. n \in answered' <=> n \in answered \/ Head(out) = Response(n)
      BY <2>3
    <3>6. Head(out) = Response(n) => InOut(n)
      BY <2>3
    <3> HIDE DEF InTodo, InOut
    <3> QED BY <1>1, <1>3, <3>0, <3>2, <3>3, <3>4, <3>5, <3>6 DEF Apart
  <2> QED BY <1>2, <2>5, <2>6, Zenon DEF ExchangeInv
<1> QED BY <1>4, <1>5

LEMMA ExchangeStep == ExchangeInv /\ [Next]_vars => ExchangeInv'
<1> SUFFICES ASSUME ExchangeInv, [Next]_vars PROVE ExchangeInv'
  OBVIOUS
<1>1. Flags'
  BY FlagsStep DEF ExchangeInv
<1> QED BY <1>1, HandshakeSteps, LoopSteps, RequestSteps, SendSteps, WriterSteps, Zenon DEF Next

\* A set of at most one element has at most one element.
LEMMA AtMostOne ==
  ASSUME NEW S, \A i, k \in S : i = k
  PROVE Cardinality(S) = IF S = {} THEN 0 ELSE 1
<1>1. CASE S = {}
  BY <1>1, FS_EmptySet
<1>2. CASE S # {}
  <2>1. PICK i \in S : TRUE
    BY <1>2
  <2>2. S = {i}
    BY <2>1
  <2> QED BY <1>2, <2>2, FS_Singleton
<1> QED BY <1>1, <1>2

\* For any capacity, number of permits and number of requests, and a client that
\* stalls, falls silent or closes at any time: the queues keep their bounds and a
\* request that arrived has one response, refused or dispatched, queued or read;
\* none is lost while the session runs (handle_text, dispatch, the writer).
THEOREM OneResponseEach == Spec => []ExchangeIsSound
<1>1. Init => ExchangeInv
  BY ExchangeInitInv
<1>2. ExchangeInv => ExchangeIsSound
  <2> SUFFICES ASSUME ExchangeInv PROVE ExchangeIsSound
    OBVIOUS
  <2>1. TypeOK
    BY TypeParts DEF ExchangeInv
  <2>2. ASSUME NEW n \in 1..Len(frames)
        PROVE Responses(n) <= 1 /\ (phase = "run" /\ writer = "on" => Responses(n) = 1)
    <3>0. Shape /\ Len(frames) \in Nat /\ Len(todo) \in Nat /\ Len(todo) <= 1
      BY DEF ExchangeInv, Shape
    <3>1. n \in 1..MaxFrames /\ n <= Len(frames)
      BY <3>0, WsAssumption DEF Shape
    <3>2. Apart(n)
      BY <3>1 DEF ExchangeInv
    <3> DEFINE T == {i \in 1..Len(todo) : todo[i] = Response(n)}
               Q == {i \in 1..Len(out) : out[i] = Response(n)}
    <3>3. \A i, k \in T : i = k
      BY <3>0
    <3>4. \A i, k \in Q : i = k
      BY <3>2 DEF Apart
    <3>5. (T # {} <=> InTodo(n)) /\ (Q # {} <=> InOut(n))
      BY DEF InTodo, InOut
    <3>6. Responses(n) = Cardinality(T) + Cardinality(Q) + (IF n \in answered THEN 1 ELSE 0) + (IF n \in tasks THEN 1 ELSE 0)
      BY DEF Responses
    <3> HIDE DEF T, Q
    <3>7. Cardinality(T) = (IF InTodo(n) THEN 1 ELSE 0) /\ Cardinality(Q) = (IF InOut(n) THEN 1 ELSE 0)
      BY <3>3, <3>4, <3>5, AtMostOne
    <3> QED BY <3>1, <3>2, <3>6, <3>7 DEF Apart
  <2> QED BY <2>1, <2>2 DEF ExchangeIsSound, OneResponse
<1> QED BY <1>1, <1>2, ExchangeStep, PTL DEF Spec

-----------------------------------------------------------------------------
(* The guard against repeated ids.                                         *)

\* The guard holds no id twice.
Distinct == \A p, q \in 1..Len(recent) : recent[p] = recent[q] => p = q

\* The id of a dispatched request is in the guard, and every younger one there
\* was used by a later request; or enough other ids were used since.
InGuard(m) ==
  \E p \in 1..Len(recent) :
    /\ recent[p] = frames[m]
    /\ \A q \in (p + 1)..Len(recent) : \E k \in (m + 1)..Len(frames) : frames[k] = recent[q]
Remembered == \A m \in dispatched : InGuard(m) \/ OthersBetween(m, Len(frames) + 1)

WindowInv == Distinct /\ Remembered /\ ReplayWindow

\* Ids used between two requests stay used, and a longer stretch has them too.
LEMMA OthersStay ==
  ASSUME Shape, NEW id \in Ids, frames' = Append(frames, id),
         NEW m \in 1..Len(frames), NEW n \in 1..(Len(frames) + 1), OthersBetween(m, n)
  PROVE \A o \in n..(Len(frames) + 2) : OthersBetween(m, o)'
<1>1. Len(frames) \in Nat /\ \A k \in 1..Len(frames) : frames'[k] = frames[k]
  BY DEF Shape
<1>2. PICK s \in [1..Recent -> Ids] :
        /\ \A i, k \in 1..Recent : s[i] = s[k] => i = k
        /\ \A i \in 1..Recent : s[i] # frames[m] /\ \E k \in (m + 1)..(n - 1) : frames[k] = s[i]
  BY DEF OthersBetween
<1>3. SUFFICES ASSUME NEW o \in n..(Len(frames) + 2), NEW i \in 1..Recent
               PROVE s[i] # frames'[m] /\ \E k \in (m + 1)..(o - 1) : frames'[k] = s[i]
  BY <1>2 DEF OthersBetween
<1>4. PICK k \in (m + 1)..(n - 1) : frames[k] = s[i]
  BY <1>2
<1>5. k \in 1..Len(frames) /\ k \in (m + 1)..(o - 1)
  BY <1>1
<1> QED BY <1>1, <1>2, <1>4, <1>5

\* The guard still knows request m, or has just let go of its id: what it then
\* holds are the other ids.
LEMMA GuardKeepsOrHasOthers ==
  ASSUME Shape, Distinct, NEW id \in Ids, frames' = Append(frames, id),
         recent' = Remember(id), \A p \in 1..Len(recent) : recent[p] # id,
         NEW m \in 1..Len(frames), InGuard(m), NEW N \in Nat, N = Len(frames) + 1
  PROVE InGuard(m)' \/ OthersBetween(m, N + 1)'
<1>0. N = Len(frames) + 1
  OBVIOUS
<1>1. /\ Len(frames) \in Nat /\ Len(frames') = N /\ frames'[N] = id /\ N \in Nat
      /\ \A k \in 1..Len(frames) : frames'[k] = frames[k]
  BY <1>0 DEF Shape
<1>2. /\ Recent \in Nat \ {0} /\ Len(recent) \in Nat /\ recent' \in Seq(Ids)
      /\ Len(recent') \in Nat \ {0} /\ recent'[Len(recent')] = id
  BY RememberIs, WsAssumption
<1>3. PICK p \in 1..Len(recent) :
        /\ recent[p] = frames[m]
        /\ \A q \in (p + 1)..Len(recent) : \E k \in (m + 1)..Len(frames) : frames[k] = recent[q]
  BY DEF InGuard
<1>4. \A q \in (p + 1)..Len(recent) : \E k \in (m + 1)..N : frames'[k] = recent[q]
  <2> SUFFICES ASSUME NEW q \in (p + 1)..Len(recent)
               PROVE \E k \in (m + 1)..N : frames'[k] = recent[q]
    OBVIOUS
  <2>1. PICK k \in (m + 1)..Len(frames) : frames[k] = recent[q]
    BY <1>3
  <2>2. k \in 1..Len(frames) /\ k \in (m + 1)..N
    BY <1>0, <1>1
  <2> QED BY <1>1, <2>1, <2>2
<1>5. N \in (m + 1)..N /\ frames'[m] = frames[m]
  BY <1>0, <1>1
<1>6. CASE Len(recent) < Recent
  <2>1. Len(recent') = Len(recent) + 1 /\ \A q \in 1..Len(recent) : recent'[q] = recent[q]
    BY <1>6, RememberIs
  <2>2. \A q \in (p + 1)..Len(recent') : q \in (p + 1)..Len(recent) \/ q = Len(recent')
    <3>1. PICK L \in Nat : L = Len(recent)
      BY <1>2
    <3>2. Len(recent') = L + 1 /\ p \in Nat
      BY <2>1, <3>1
    <3> QED BY ONLY <3>1, <3>2, L \in Nat
  <2>3. p \in 1..Len(recent') /\ \A q \in (p + 1)..Len(recent) : recent'[q] = recent[q]
    BY <1>2, <2>1
  <2>4. \A q \in (p + 1)..Len(recent') : \E k \in (m + 1)..N : frames'[k] = recent'[q]
    BY <1>1, <1>2, <1>4, <1>5, <2>2, <2>3
  <2> QED BY <1>1, <1>3, <1>5, <2>1, <2>3, <2>4 DEF InGuard
<1>7. CASE ~(Len(recent) < Recent)
  <2>0. Len(recent) >= Recent
    BY <1>2, <1>7
  <2>1. /\ Len(recent) = Recent /\ Len(recent') = Recent
        /\ \A q \in 1..Recent : q # 1 => recent'[q - 1] = recent[q]
    <3>1. /\ Len(Remember(id)) = Len(recent) /\ Len(recent) = Recent
          /\ \A q \in 1..Len(recent) : q # 1 => Remember(id)[q - 1] = recent[q]
      BY <2>0, RememberIs
    <3> QED BY <3>1, Zenon
  <2>2. \A q \in 1..Recent : q # Recent => q + 1 \in 1..Recent /\ recent'[q] = recent[q + 1]
    <3> SUFFICES ASSUME NEW q \in 1..Recent, q # Recent
                 PROVE q + 1 \in 1..Recent /\ recent'[q] = recent[q + 1]
      OBVIOUS
    <3>1. q + 1 \in 1..Recent /\ q + 1 # 1 /\ (q + 1) - 1 = q
      BY <1>2
    <3> QED BY <2>1, <3>1
  <2>3. \A q \in 1..Recent : q >= p => \E k \in (m + 1)..N : frames'[k] = recent'[q]
    <3> SUFFICES ASSUME NEW q \in 1..Recent, q >= p
                 PROVE \E k \in (m + 1)..N : frames'[k] = recent'[q]
      OBVIOUS
    <3>1. CASE q = Recent
      BY <1>1, <1>2, <1>5, <2>1, <3>1
    <3>2. CASE q # Recent
      <4>1. recent'[q] = recent[q + 1] /\ q + 1 \in (p + 1)..Len(recent)
        BY <1>2, <2>1, <2>2, <3>2
      <4> QED BY <1>4, <4>1
    <3> QED BY <3>1, <3>2
  <2>4. CASE p # 1
    <3>1. p - 1 \in 1..Len(recent') /\ recent'[p - 1] = frames'[m]
      BY <1>2, <1>3, <1>5, <2>1, <2>4
    <3>2. \A q \in ((p - 1) + 1)..Len(recent') : q \in 1..Recent /\ q >= p
      <4>1. Recent \in Nat /\ p \in Nat /\ p >= 1 /\ Len(recent') = Recent
        BY <1>2, <2>1
      <4>2. \A q \in ((p - 1) + 1)..Recent : q \in 1..Recent /\ q >= p
        BY ONLY <4>1
      <4> QED BY <4>1, <4>2
    <3>3. \A q \in ((p - 1) + 1)..Len(recent') : \E k \in (m + 1)..Len(frames') : frames'[k] = recent'[q]
      BY <1>1, <2>3, <3>2, Zenon
    <3> QED BY <3>1, <3>3, Zenon DEF InGuard
  <2>5. CASE p = 1
    <3>1. recent' \in [1..Recent -> Ids]
      BY <1>2, <2>1
    <3>2. \A q \in 1..Recent : recent'[q] # frames'[m]
      <4> SUFFICES ASSUME NEW q \in 1..Recent PROVE recent'[q] # recent[1]
        BY <1>3, <1>5, <2>5
      <4>1. 1 \in 1..Len(recent) /\ recent[1] # id
        BY <1>2, <2>1
      <4>2. CASE q = Recent
        BY <1>2, <2>1, <4>1, <4>2
      <4>3. CASE q # Recent
        <5>1. recent'[q] = recent[q + 1] /\ q + 1 \in 1..Len(recent) /\ q + 1 # 1
          BY <1>2, <2>1, <2>2, <4>3
        <5> QED BY <4>1, <5>1 DEF Distinct
      <4> QED BY <4>2, <4>3
    <3>3. \A q, r \in 1..Recent : recent'[q] = recent'[r] => q = r
      <4> SUFFICES ASSUME NEW q \in 1..Recent, NEW r \in 1..Recent, recent'[q] = recent'[r]
                   PROVE q = r
        OBVIOUS
      <4>1. CASE q # Recent /\ r # Recent
        <5>1. recent[q + 1] = recent[r + 1] /\ q + 1 \in 1..Len(recent) /\ r + 1 \in 1..Len(recent)
          BY <2>1, <2>2, <4>1
        <5>2. q + 1 = r + 1
          BY <5>1 DEF Distinct
        <5> QED BY <1>2, <5>2
      <4>2. CASE q # Recent /\ r = Recent
        BY <1>2, <2>1, <2>2, <4>2
      <4>3. CASE q = Recent /\ r # Recent
        <5>1. recent'[q] = id
          BY <1>2, <2>1, <4>3
        <5>2. recent'[r] = recent[r + 1] /\ r + 1 \in 1..Len(recent)
          BY <2>1, <2>2, <4>3
        <5> QED BY <5>1, <5>2
      <4> QED BY <4>1, <4>2, <4>3
    <3>4. \A q \in 1..Recent : q >= p
      BY <2>5
    <3>5. (N + 1) - 1 = N
      BY <1>0, <1>1
    <3>6. \A q \in 1..Recent : recent'[q] # frames'[m]
                             /\ \E k \in (m + 1)..((N + 1) - 1) : frames'[k] = recent'[q]
      BY <2>3, <3>2, <3>4, <3>5
    <3> QED BY <3>1, <3>3, <3>6 DEF OthersBetween
  <2> QED BY <2>4, <2>5
<1> QED BY <1>6, <1>7

\* A request leaves the guard without repetition.
LEMMA GuardStaysDistinct ==
  ASSUME Shape, Distinct, NEW id \in Ids, recent' = Remember(id),
         \A p \in 1..Len(recent) : recent[p] # id
  PROVE Distinct'
<1>1. Recent \in Nat \ {0} /\ Len(recent) \in Nat /\ Len(recent') \in Nat \ {0}
      /\ recent'[Len(recent')] = id
  BY RememberIs, WsAssumption
<1>2. PICK d \in {0, 1} : \A p \in 1..Len(recent') :
        p # Len(recent') => p + d \in 1..Len(recent) /\ recent'[p] = recent[p + d]
  <2>1. CASE Len(recent) < Recent
    <3>1. Len(recent') = Len(recent) + 1 /\ \A q \in 1..Len(recent) : recent'[q] = recent[q]
      BY <2>1, RememberIs
    <3>2. \A p \in 1..Len(recent') :
            p # Len(recent') => p + 0 \in 1..Len(recent) /\ recent'[p] = recent[p + 0]
      BY <1>1, <3>1
    <3> QED BY <3>2
  <2>2. CASE ~(Len(recent) < Recent)
    <3>0. Len(recent) >= Recent
      BY <1>1, <2>2
    <3>1. /\ Len(recent') = Len(recent)
          /\ \A q \in 1..Len(recent) : q # 1 => recent'[q - 1] = recent[q]
      <4>1. /\ Len(Remember(id)) = Len(recent)
            /\ \A q \in 1..Len(recent) : q # 1 => Remember(id)[q - 1] = recent[q]
        BY <3>0, RememberIs
      <4> QED BY <4>1, Zenon
    <3>2. ASSUME NEW p \in 1..Len(recent'), p # Len(recent')
          PROVE p + 1 \in 1..Len(recent) /\ recent'[p] = recent[p + 1]
      <4>1. p + 1 \in 1..Len(recent) /\ p + 1 # 1 /\ (p + 1) - 1 = p
        BY <1>1, <3>1, <3>2
      <4> QED BY <3>1, <4>1
    <3> QED BY <3>2
  <2> QED BY <2>1, <2>2
<1> SUFFICES ASSUME NEW p \in 1..Len(recent'), NEW q \in 1..Len(recent'), recent'[p] = recent'[q]
             PROVE p = q
  BY DEF Distinct
<1>3. CASE p # Len(recent') /\ q # Len(recent')
  <2>1. p + d = q + d
    BY <1>2, <1>3 DEF Distinct
  <2> QED BY <1>1, <2>1
<1>4. CASE p = Len(recent') \/ q = Len(recent')
  BY <1>1, <1>2, <1>4
<1> QED BY <1>3, <1>4

\* What a request of this id does to the guard.
LEMMA GuardSteps ==
  ASSUME ExchangeInv, WindowInv, NEW id \in Ids, RequestRefused(id) \/ RequestDispatched(id)
  PROVE WindowInv'
<1>0. Shape /\ Len(frames) \in Nat /\ Len(recent) \in Nat
  BY DEF ExchangeInv, Shape
<1>1. frames' = Append(frames, id)
  BY Zenon DEF RequestRefused, RequestDispatched, Receives
<1>2. PICK N : N = Len(frames) + 1
  OBVIOUS
<1>3. /\ Len(frames') = N /\ frames'[N] = id /\ N \in Nat
      /\ \A m \in 1..Len(frames) : frames'[m] = frames[m]
  BY <1>0, <1>1, <1>2 DEF Shape
<1>4. dispatched \subseteq 1..Len(frames)
  BY <1>0 DEF Shape
<1>5. /\ \/ dispatched' = dispatched
         \/ dispatched' = dispatched \cup {N} /\ recent' = Remember(id)
      /\ \/ recent' = recent
         \/ recent' = Remember(id) /\ \A p \in 1..Len(recent) : recent[p] # id
      /\ dispatched' = dispatched \/ \A p \in 1..Len(recent) : recent[p] # id
  <2>1. CASE RequestRefused(id)
    <3>1. dispatched' = dispatched
      BY <2>1, Zenon DEF RequestRefused
    <3>2. recent' = recent \/ (~Contains(recent, id) /\ recent' = Remember(id))
      <4>1. recent' \in {recent} \cup (IF Contains(recent, id) THEN {} ELSE {Remember(id)})
        BY <2>1, Zenon DEF RequestRefused
      <4>2. PICK S : S = (IF Contains(recent, id) THEN {} ELSE {Remember(id)})
        OBVIOUS
      <4>3. recent' = recent \/ recent' \in S
        BY <4>1, <4>2, Zenon
      <4>4. CASE Contains(recent, id)
        <5>1. S = {}
          BY <4>2, <4>4, Zenon
        <5>2. recent' = recent
          BY ONLY <4>3, <5>1
        <5> QED BY <5>2, Zenon
      <4>5. CASE ~Contains(recent, id)
        <5>1. S = {Remember(id)}
          BY <4>2, <4>5, Zenon
        <5>2. recent' = recent \/ recent' = Remember(id)
          BY ONLY <4>3, <5>1
        <5> QED BY <4>5, <5>2, Zenon
      <4> QED BY <4>4, <4>5, Zenon
    <3>3. ~Contains(recent, id) => \A p \in 1..Len(recent) : recent[p] # id
      BY Zenon DEF Contains
    <3> QED BY <3>1, <3>2, <3>3, Zenon
  <2>2. CASE RequestDispatched(id)
    BY <1>3, <2>2, Zenon DEF RequestDispatched, Contains
  <2> QED BY <2>1, <2>2
<1>6. Distinct'
  <2>1. CASE recent' = recent
    BY <2>1 DEF Distinct, WindowInv
  <2>2. CASE recent' = Remember(id) /\ \A p \in 1..Len(recent) : recent[p] # id
    BY <1>0, <2>2, GuardStaysDistinct DEF WindowInv
  <2> QED BY <1>5, <2>1, <2>2
<1>7. ASSUME NEW m \in dispatched
      PROVE InGuard(m)' \/ OthersBetween(m, N + 1)'
  <2>0. m \in 1..Len(frames)
    BY <1>4
  <2>1. CASE OthersBetween(m, Len(frames) + 1)
    <3>1. N \in 1..(Len(frames) + 1) /\ N + 1 \in N..(Len(frames) + 2) /\ OthersBetween(m, N)
      BY <1>0, <1>2, <2>1
    <3> QED BY <1>0, <1>1, <2>0, <3>1, OthersStay
  <2>2. CASE InGuard(m) /\ recent' = recent
    <3>1. PICK p \in 1..Len(recent) :
            /\ recent[p] = frames[m]
            /\ \A q \in (p + 1)..Len(recent) : \E k \in (m + 1)..Len(frames) : frames[k] = recent[q]
      BY <2>2 DEF InGuard
    <3>2. ASSUME NEW q \in (p + 1)..Len(recent)
          PROVE \E k \in (m + 1)..N : frames'[k] = recent[q]
      <4>1. PICK k \in (m + 1)..Len(frames) : frames[k] = recent[q]
        BY <3>1
      <4>2. k \in 1..Len(frames) /\ k \in (m + 1)..N
        BY <1>0, <1>2, <2>0
      <4> QED BY <1>3, <4>1, <4>2
    <3> QED BY <1>3, <2>0, <2>2, <3>1, <3>2 DEF InGuard
  <2>3. CASE InGuard(m) /\ recent' = Remember(id) /\ \A p \in 1..Len(recent) : recent[p] # id
    BY <1>0, <1>1, <1>2, <1>3, <2>0, <2>3, GuardKeepsOrHasOthers DEF WindowInv
  <2> QED BY <1>5, <2>1, <2>2, <2>3 DEF WindowInv, Remembered
<1>8. Remembered'
  <2>2. ASSUME dispatched' = dispatched \cup {N}, recent' = Remember(id)
        PROVE InGuard(N)'
    <3>1. Len(recent') \in Nat \ {0} /\ recent'[Len(recent')] = id
      BY <1>0, <2>2, RememberIs
    <3>2. Len(recent') \in 1..Len(recent') /\ (Len(recent') + 1)..Len(recent') = {}
      BY <3>1
    <3> QED BY <1>3, <3>1, <3>2 DEF InGuard
  <2>3. \A m \in dispatched : InGuard(m)' \/ OthersBetween(m, Len(frames) + 1)'
    BY <1>3, <1>7
  <2> QED BY <1>5, <2>2, <2>3 DEF Remembered
<1>9. ReplayWindow'
  <2>1. ASSUME NEW m \in dispatched, NEW n \in dispatched, m < n, frames'[m] = frames'[n]
        PROVE OthersBetween(m, n)'
    <3>1. m \in 1..Len(frames) /\ n \in 1..Len(frames) /\ n \in n..(Len(frames) + 2)
          /\ n \in 1..(Len(frames) + 1)
      BY <1>0, <1>4
    <3>2. OthersBetween(m, n)
      BY <1>3, <2>1, <3>1 DEF WindowInv, ReplayWindow
    <3> QED BY <1>0, <1>1, <3>1, <3>2, OthersStay
  <2>2. ASSUME NEW m \in dispatched, dispatched' # dispatched, frames'[m] = id
        PROVE OthersBetween(m, N)'
    <3>1. m \in 1..Len(frames) /\ frames[m] = id
      BY <1>3, <1>4, <2>2
    <3>2. ~InGuard(m)
      BY <1>5, <2>2, <3>1 DEF InGuard
    <3>3. OthersBetween(m, N)
      BY <1>2, <3>2 DEF WindowInv, Remembered
    <3>4. N \in 1..(Len(frames) + 1) /\ N \in N..(Len(frames) + 2)
      BY <1>0, <1>2
    <3> QED BY <1>0, <1>1, <3>1, <3>3, <3>4, OthersStay
  <2>3. \A m \in dispatched : m \in Nat /\ m < N
    BY <1>0, <1>2, <1>4
  <2>4. ASSUME NEW m \in dispatched', NEW n \in dispatched', m < n, frames'[m] = frames'[n]
        PROVE OthersBetween(m, n)'
    <3>1. CASE n \in dispatched
      <4>1. m \in dispatched
        BY <1>3, <1>5, <2>3, <2>4, <3>1
      <4> QED BY <2>1, <2>4, <3>1, <4>1
    <3>2. CASE n \notin dispatched
      <4>1. n = N /\ dispatched' # dispatched /\ m \in dispatched
        BY <1>3, <1>5, <2>4, <3>2
      <4> QED BY <1>3, <2>2, <2>4, <4>1
    <3> QED BY <3>1, <3>2
  <2> QED BY <2>4 DEF ReplayWindow
<1> QED BY <1>6, <1>8, <1>9 DEF WindowInv

LEMMA WindowStep ==
  ExchangeInv /\ WindowInv /\ [Next]_vars => WindowInv'
<1> SUFFICES ASSUME ExchangeInv, WindowInv, [Next]_vars PROVE WindowInv'
  OBVIOUS
<1>1. CASE \E id \in Ids : RequestRefused(id) \/ RequestDispatched(id)
  BY <1>1, GuardSteps
<1>2. CASE UNCHANGED <<frames, recent, dispatched>>
  BY <1>2 DEF WindowInv, Distinct, Remembered, ReplayWindow, InGuard, OthersBetween
<1>3. \/ UNCHANGED <<frames, recent, dispatched>>
      \/ \E id \in Ids : RequestRefused(id) \/ RequestDispatched(id)
  <2> USE DEF requestVars
  <2>1. CASE HelloAccepted \/ HelloRefused \/ HelloTimesOut
    BY <2>1, Zenon DEF HelloAccepted, HelloRefused, HelloTimesOut
  <2>2. CASE StreamEnds \/ OtherMessage \/ EngineEvent \/ SeesShutdown
    BY <2>2, Zenon DEF StreamEnds, OtherMessage, EngineEvent, SeesShutdown
  <2>3. CASE Tick \/ Push
    BY <2>3, Zenon DEF Tick, Push
  <2>4. CASE \E n \in 1..MaxFrames : TaskAnswers(n)
    BY <2>4, Zenon DEF TaskAnswers
  <2>5. CASE Write \/ WriteFails \/ WriterEnds \/ SessionEnds
    BY <2>5, Zenon DEF Write, WriteFails, WriterEnds, SessionEnds
  <2>6. CASE ClientCloses \/ ClientGoesMute \/ ClientStalls \/ AgentStops
    BY <2>6, Zenon DEF ClientCloses, ClientGoesMute, ClientStalls, AgentStops
  <2>7. CASE UNCHANGED vars
    BY <2>7, Zenon DEF vars
  <2> QED BY <2>1, <2>2, <2>3, <2>4, <2>5, <2>6, <2>7, Zenon DEF Next
<1> QED BY <1>1, <1>2, <1>3

\* For any guard, ids and number of requests: an id is dispatched again only after
\* as many different other ids as the guard holds, whichever requests were refused,
\* repeated or rate limited in between (handle_text, RECENT_REQUEST_IDS).
THEOREM ReplaysAreRefused == Spec => []ReplayWindow
<1>1. Init => ExchangeInv /\ WindowInv
  <2> SUFFICES ASSUME Init PROVE WindowInv
    BY ExchangeInitInv
  <2>1. recent = <<>> /\ dispatched = {}
    BY DEF Init
  <2> QED BY <2>1 DEF WindowInv, Distinct, Remembered, ReplayWindow
<1>2. WindowInv => ReplayWindow
  BY DEF WindowInv
<1> QED BY <1>1, <1>2, ExchangeStep, WindowStep, PTL DEF Spec
=============================================================================
