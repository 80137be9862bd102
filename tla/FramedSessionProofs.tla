------------------------- MODULE FramedSessionProofs -------------------------
(***************************************************************************)
(* Theorems about FramedSession, for any number of concurrent CallHost     *)
(* goroutines, any pipe capacity and any output limit.                     *)
(***************************************************************************)
EXTENDS FramedSession, TLAPS

(***************************************************************************)
(* Steps that leave the plugin's frameHostClient alone.                    *)
(***************************************************************************)
OtherStep ==
    \/ Accept \/ Reject \/ Respond \/ Exit \/ Faults \/ invokeFramed \/ Handler \/ Deadline

\* The host, Serve and the faults touch no variable of frameHostClient.
LEMMA OtherKeepsClient == OtherStep => UNCHANGED client
  <1>1. (Accept \/ Reject \/ Respond \/ Exit \/ Deadline) => UNCHANGED client
    BY DEF Accept, Reject, Respond, Exit, Deadline
  <1>2. Faults => UNCHANGED client
    BY DEF Faults, Crash, PrintNoise, FloodStderr
  <1>3. invokeFramed => UNCHANGED client
    BY DEF invokeFramed, SendRoot, RootWritten, TakeRequest, TakeEvent, TakeRoot, TakeStray,
           TakeGarbage, TakeOverLimit, TakeEOF, Wait
  <1>4. Handler => UNCHANGED client
    BY DEF Handler, HandlerStarts, HandlerEnds, HandlerReplies
  <1>5. QED
    BY <1>1, <1>2, <1>3, <1>4 DEF OtherStep

(***************************************************************************)
(* The part of the type invariant the ownership argument needs.            *)
(***************************************************************************)
ClientOK ==
    /\ nextID \in Nat
    /\ id \in [Calls -> Nat]
    /\ pc \in [Calls -> {"idle", "numbered", "registered", "unsent", "waiting", "done"}]
    /\ DOMAIN chan = Calls
    /\ waiters \subseteq [id : Nat, call : Calls]
    /\ reader \in {"off", "reading", "routing", "closing", "gone"}
    /\ closing \subseteq Calls
    /\ readErr \in BOOLEAN

(***************************************************************************)
(* OneOwner, spelled out: exactly one of four facts holds.                 *)
(***************************************************************************)
Owned(c) ==
    \/ Registered(c) /\ ~Routed(c) /\ c \notin closing /\ chan[c] = Empty
    \/ ~Registered(c) /\ Routed(c) /\ c \notin closing /\ chan[c] = Empty
    \/ ~Registered(c) /\ ~Routed(c) /\ c \in closing /\ chan[c] = Empty
    \/ ~Registered(c) /\ ~Routed(c) /\ c \notin closing /\ chan[c] # Empty

\* Owned says what Owners being a singleton says.
LEMMA OwnedIff ==
    ASSUME NEW c \in Calls
    PROVE  (\E o \in Parties : Owners(c) = {o}) <=> Owned(c)
  <1>1. ASSUME Owned(c) PROVE \E o \in Parties : Owners(c) = {o}
    <2>1. CASE Registered(c) /\ ~Routed(c) /\ c \notin closing /\ chan[c] = Empty
      <3>1. Owners(c) = {"map"}
        BY <2>1 DEF Owners, Parties
      <3>2. QED BY <3>1 DEF Parties
    <2>2. CASE ~Registered(c) /\ Routed(c) /\ c \notin closing /\ chan[c] = Empty
      <3>1. Owners(c) = {"reader"}
        BY <2>2 DEF Owners, Parties
      <3>2. QED BY <3>1 DEF Parties
    <2>3. CASE ~Registered(c) /\ ~Routed(c) /\ c \in closing /\ chan[c] = Empty
      <3>1. Owners(c) = {"closer"}
        BY <2>3 DEF Owners, Parties
      <3>2. QED BY <3>1 DEF Parties
    <2>4. CASE ~Registered(c) /\ ~Routed(c) /\ c \notin closing /\ chan[c] # Empty
      <3>1. Owners(c) = {"settled"}
        BY <2>4 DEF Owners, Parties
      <3>2. QED BY <3>1 DEF Parties
    <2>5. QED
      BY <1>1, <2>1, <2>2, <2>3, <2>4 DEF Owned
  <1>2. ASSUME NEW o \in Parties, Owners(c) = {o} PROVE Owned(c)
    <2>1. \A q \in Parties : q \in Owners(c) <=> q = o
      BY <1>2
    <2>2. /\ Registered(c) <=> "map" = o
          /\ Routed(c) <=> "reader" = o
          /\ c \in closing <=> "closer" = o
          /\ chan[c] # Empty <=> "settled" = o
      BY <2>1 DEF Owners, Parties
    <2>3. QED
      BY <2>2 DEF Parties, Owned
  <1>3. QED
    BY <1>1, <1>2

AllOwned == \A c \in Calls : InFlight(c) => Owned(c)

\* So does it for all calls together.
LEMMA OneOwnerIff == OneOwner <=> AllOwned
  BY OwnedIff DEF OneOwner, AllOwned

Ind == ClientOK /\ IdsUnique /\ WaitersSound /\ Private /\ ReaderSound /\ AllOwned

\* No call has started.
LEMMA InitInd == Init => Ind
  <1> SUFFICES ASSUME Init PROVE  Ind
    OBVIOUS
  <1>1. ClientOK
    BY DEF Init, ClientOK, Empty
  <1>2. IdsUnique /\ WaitersSound /\ Private /\ ReaderSound /\ AllOwned
    BY DEF Init, IdsUnique, WaitersSound, Private, ReaderSound, AllOwned, InFlight, Routed
  <1>3. QED
    BY <1>1, <1>2 DEF Ind

\* A call gets an id nobody has.
LEMMA BeginInd == ASSUME NEW d \in Calls, Ind, Begin(d) PROVE Ind'
  <1> USE DEF Ind
  <1>1. ClientOK'
    BY DEF ClientOK, Begin
  <1>2. IdsUnique'
    BY DEF ClientOK, IdsUnique, Begin
  <1>3. WaitersSound' /\ Private' /\ ReaderSound'
    BY DEF ClientOK, WaitersSound, Private, ReaderSound, InFlight, Routed, Begin
  <1>4. AllOwned'
    BY DEF ClientOK, AllOwned, Owned, InFlight, Registered, Routed, Begin
  <1>5. QED
    BY <1>1, <1>2, <1>3, <1>4

\* A call registers only while the reader can still find its channel.
LEMMA RegisterInd == ASSUME NEW d \in Calls, Ind, Register(d) PROVE Ind'
  <1> USE DEF Ind
  <1>1. ClientOK'
    BY DEF ClientOK, Register
  <1>2. IdsUnique'
    BY DEF ClientOK, IdsUnique, Register
  <1>3. WaitersSound' /\ Private' /\ ReaderSound'
    BY DEF ClientOK, WaitersSound, Private, ReaderSound, InFlight, Routed, Register
  <1>4. ASSUME NEW c \in Calls, InFlight(c)' PROVE Owned(c)'
    <2>1. CASE c = d
      <3>1. ~readErr /\ [id |-> id[d], call |-> d] \in waiters'
        BY <1>4, <2>1 DEF ClientOK, InFlight, Register
      <3>2. Registered(d)'
        BY <3>1 DEF Registered, Register
      <3>3. ~Routed(d)' /\ d \notin closing' /\ chan'[d] = Empty
        BY DEF Private, Routed, Register
      <3>4. QED
        BY <2>1, <3>2, <3>3 DEF Owned
    <2>2. CASE c # d
      <3>1. InFlight(c)
        BY <1>4, <2>2 DEF ClientOK, InFlight, Register
      <3>2. Registered(c)' <=> Registered(c)
        BY <2>2 DEF Registered, Register
      <3>3. QED
        BY <3>1, <3>2 DEF AllOwned, Owned, Routed, Register
    <2>3. QED
      BY <2>1, <2>2
  <1>5. QED
    BY <1>1, <1>2, <1>3, <1>4 DEF AllOwned

\* Writing the request moves nothing but the call itself.
LEMMA SendInd == ASSUME NEW d \in Calls, Ind, Send(d) PROVE Ind'
  <1> USE DEF Ind
  <1>1. ClientOK'
    BY DEF ClientOK, Send
  <1>2. \A c \in Calls : /\ (InFlight(c)' <=> InFlight(c))
                        /\ (pc'[c] = "idle" <=> pc[c] = "idle")
                        /\ (pc'[c] \in {"idle", "numbered"} <=> pc[c] \in {"idle", "numbered"})
    BY DEF ClientOK, InFlight, Send
  <1>3. IdsUnique' /\ ReaderSound'
    BY <1>2 DEF IdsUnique, ReaderSound, Send
  <1>4. WaitersSound' /\ Private'
    BY <1>2 DEF ClientOK, WaitersSound, Private, Routed, Send
  <1>5. AllOwned'
    BY <1>2 DEF AllOwned, Owned, Registered, Routed, Send
  <1>6. QED
    BY <1>1, <1>3, <1>4, <1>5

\* A call whose write failed takes its own channel back and no other.
LEMMA ForgetInd == ASSUME NEW d \in Calls, Ind, Forget(d) PROVE Ind'
  <1> USE DEF Ind
  <1>1. ClientOK'
    BY DEF ClientOK, Forget
  <1>2. IdsUnique' /\ Private' /\ ReaderSound'
    BY DEF ClientOK, IdsUnique, Private, ReaderSound, InFlight, Routed, Forget
  <1>3. WaitersSound'
    BY DEF ClientOK, WaitersSound, InFlight, Forget
  <1>4. ASSUME NEW c \in Calls, InFlight(c)' PROVE Owned(c)'
    <2>1. c # d /\ InFlight(c)
      BY <1>4 DEF ClientOK, InFlight, Forget
    <2>2. id[c] # id[d]
      BY <2>1 DEF IdsUnique, InFlight, Forget
    <2>3. Registered(c)' <=> Registered(c)
      BY <2>2 DEF Registered, Forget
    <2>4. QED
      BY <2>1, <2>3 DEF AllOwned, Owned, Routed, Forget
  <1>5. QED
    BY <1>1, <1>2, <1>3, <1>4 DEF AllOwned

\* A call that returns is no longer in flight.
LEMMA ReceiveInd == ASSUME NEW d \in Calls, Ind, Receive(d) PROVE Ind'
  <1> USE DEF Ind
  <1>1. ClientOK'
    BY DEF ClientOK, Receive
  <1>2. IdsUnique' /\ Private' /\ ReaderSound'
    BY DEF ClientOK, IdsUnique, Private, ReaderSound, InFlight, Routed, Receive
  <1>3. ~Registered(d)
    BY DEF AllOwned, Owned, InFlight, Receive
  <1>4. WaitersSound'
    BY <1>3 DEF ClientOK, WaitersSound, Registered, InFlight, Receive
  <1>5. \A c \in Calls : InFlight(c)' => InFlight(c)
    BY DEF ClientOK, InFlight, Receive
  <1>6. AllOwned'
    BY <1>5 DEF AllOwned, Owned, Registered, Routed, Receive
  <1>7. QED
    BY <1>1, <1>2, <1>4, <1>6

\* A channel goes from the map to the reader's hand.
LEMMA ReadAnswerInd == ASSUME Ind, ReadAnswer PROVE Ind'
  <1> USE DEF Ind
  <1>1. CASE UNCHANGED <<waiters, hand, reader>>
    <2>1. UNCHANGED client
      BY <1>1 DEF ReadAnswer, client
    <2>2. QED
      BY <2>1 DEF client, ClientOK, IdsUnique, WaitersSound, Private, ReaderSound, AllOwned,
                  Owned, InFlight, Registered, Routed
  <1>2. ASSUME NEW w \in waiters, waiters' = waiters \ {w},
               hand' = Route(w.call, Head(stdin)), reader' = "routing"
        PROVE  Ind'
    <2>1. w.call \in Calls /\ hand'.call = w.call
      BY <1>2 DEF ClientOK, Route
    <2>2. w.id = id[w.call] /\ InFlight(w.call) /\ Registered(w.call)
      BY <2>1 DEF WaitersSound, Registered
    <2>3. ClientOK'
      BY <1>2 DEF ClientOK, ReadAnswer
    <2>4. IdsUnique' /\ WaitersSound'
      BY <1>2 DEF IdsUnique, WaitersSound, InFlight, ReadAnswer
    <2>5. ReaderSound'
      BY <1>2, <2>1 DEF ReaderSound, ReadAnswer
    <2>6. Private'
      BY <1>2, <2>1, <2>2 DEF Private, Routed, InFlight, ReadAnswer
    <2>7. ASSUME NEW c \in Calls, InFlight(c)' PROVE Owned(c)'
      <3>1. InFlight(c) /\ Owned(c) /\ ~Routed(c)
        BY <2>7 DEF AllOwned, InFlight, Routed, ReadAnswer
      <3>2. CASE c = w.call
        <4>1. ~Registered(c)'
          BY <1>2, <2>2, <3>2 DEF ClientOK, Registered, WaitersSound, ReadAnswer
        <4>2. Routed(c)'
          BY <1>2, <2>1, <3>2 DEF Routed
        <4>3. QED
          BY <2>2, <3>1, <3>2, <4>1, <4>2 DEF Owned, ReadAnswer
      <3>3. CASE c # w.call
        <4>1. Registered(c)' <=> Registered(c)
          BY <1>2, <3>3 DEF Registered, ReadAnswer
        <4>2. ~Routed(c)'
          BY <1>2, <2>1, <3>3 DEF Routed
        <4>3. QED
          BY <3>1, <4>1, <4>2 DEF Owned, ReadAnswer
      <3>4. QED
        BY <3>2, <3>3
    <2>8. QED
      BY <2>3, <2>4, <2>5, <2>6, <2>7 DEF AllOwned
  <1>3. QED
    BY <1>1, <1>2 DEF ReadAnswer

\* A channel goes from the reader's hand to the caller.
LEMMA DeliverInd == ASSUME Ind, Deliver PROVE Ind'
  <1> USE DEF Ind
  <1>1. ClientOK'
    BY DEF ClientOK, Deliver
  <1>2. IdsUnique' /\ WaitersSound' /\ ReaderSound'
    BY DEF IdsUnique, WaitersSound, ReaderSound, InFlight, Deliver
  <1>3. hand.call \in Calls /\ Routed(hand.call)
    BY DEF ReaderSound, Routed, Deliver
  <1>4. chan'[hand.call] # Empty
    BY <1>3 DEF ClientOK, Deliver, Outcome, Empty
  <1>5. \A c \in Calls : c # hand.call => chan'[c] = chan[c] /\ ~Routed(c)
    BY DEF ClientOK, Routed, Deliver
  <1>6. \A c \in Calls : ~Routed(c)'
    BY DEF Routed, Deliver
  <1>7. Private'
    BY <1>3, <1>5, <1>6 DEF Private, Deliver
  <1>8. AllOwned'
    BY <1>3, <1>4, <1>5, <1>6 DEF AllOwned, Owned, InFlight, Registered, Deliver
  <1>9. QED
    BY <1>1, <1>2, <1>7, <1>8

\* All channels go from the map to the closing reader.
LEMMA ReadEndInd == ASSUME Ind, ReadEnd PROVE Ind'
  <1> USE DEF Ind
  <1>1. ClientOK'
    BY DEF ClientOK, ReadEnd
  <1>2. IdsUnique' /\ WaitersSound' /\ ReaderSound'
    BY DEF ClientOK, IdsUnique, WaitersSound, ReaderSound, InFlight, ReadEnd
  <1>3. \A c \in Calls : ~Routed(c) /\ ~Routed(c)' /\ c \notin closing /\ ~Registered(c)'
    BY DEF ReaderSound, Routed, Registered, ReadEnd
  <1>4. \A c \in Calls : c \in closing' <=> Registered(c)
    BY DEF WaitersSound, Registered, ReadEnd
  <1>5. Private'
    BY <1>3, <1>4 DEF ClientOK, Private, Registered, WaitersSound, InFlight, ReadEnd
  <1>6. AllOwned'
    BY <1>3, <1>4 DEF AllOwned, Owned, InFlight, ReadEnd
  <1>7. QED
    BY <1>1, <1>2, <1>5, <1>6

\* A channel is closed by the one that holds it.
LEMMA CloseChanInd == ASSUME NEW d \in Calls, Ind, CloseChan(d) PROVE Ind'
  <1> USE DEF Ind
  <1>1. ClientOK'
    BY DEF ClientOK, CloseChan
  <1>2. IdsUnique' /\ WaitersSound' /\ ReaderSound'
    BY DEF ClientOK, IdsUnique, WaitersSound, ReaderSound, InFlight, CloseChan
  <1>3. chan'[d] # Empty /\ d \notin closing'
    BY DEF ClientOK, CloseChan, Closed, Empty
  <1>4. \A c \in Calls : c # d => chan'[c] = chan[c] /\ (c \in closing' <=> c \in closing)
    BY DEF ClientOK, CloseChan
  <1>5. Private'
    BY <1>4 DEF Private, Routed, CloseChan
  <1>6. AllOwned'
    BY <1>3, <1>4 DEF AllOwned, Owned, InFlight, Registered, Routed, ReaderSound, CloseChan
  <1>7. QED
    BY <1>1, <1>2, <1>5, <1>6

\* An event takes an id of the same counter.
LEMMA EmitInd == ASSUME Ind, EmitHostEvent PROVE Ind'
  <1> USE DEF Ind
  <1>1. ClientOK' /\ IdsUnique'
    BY DEF ClientOK, IdsUnique, EmitHostEvent
  <1>2. WaitersSound' /\ Private' /\ ReaderSound' /\ AllOwned'
    BY DEF WaitersSound, Private, ReaderSound, AllOwned, Owned, InFlight, Registered,
           Routed, EmitHostEvent
  <1>3. QED
    BY <1>1, <1>2

\* Steps of others keep the client's invariant.
LEMMA StutterInd == ASSUME Ind, UNCHANGED client PROVE Ind'
  BY DEF Ind, client, ClientOK, IdsUnique, WaitersSound, Private, ReaderSound, AllOwned,
         Owned, InFlight, Registered, Routed

\* Every step keeps it.
LEMMA NextInd == Ind /\ [Next]_vars => Ind'
  <1> SUFFICES ASSUME Ind, [Next]_vars PROVE Ind'
    OBVIOUS
  <1>1. CASE \E c \in Calls : CallHost(c)
    BY <1>1, BeginInd, RegisterInd, SendInd, ForgetInd, ReceiveInd DEF CallHost
  <1>2. CASE readLoop
    BY <1>2, ReadAnswerInd, DeliverInd, ReadEndInd, CloseChanInd DEF readLoop
  <1>3. CASE EmitHostEvent
    BY <1>3, EmitInd
  <1>4. CASE OtherStep
    BY <1>4, OtherKeepsClient, StutterInd
  <1>5. CASE UNCHANGED vars
    BY <1>5, StutterInd DEF vars
  <1>6. QED
    BY <1>1, <1>2, <1>3, <1>4, <1>5 DEF Next, OtherStep

(***************************************************************************)
(* The channel of every CallHost in flight has exactly one party that has  *)
(* to release it, in any session: the invariant OneOwner of the runs.      *)
(***************************************************************************)
THEOREM OneOwnerTheorem == Spec => []OneOwner
  <1>1. Ind => OneOwner
    BY OneOwnerIff DEF Ind
  <1>2. QED
    BY InitInd, NextInd, <1>1, PTL DEF Spec

(***************************************************************************)
(* When readLoop is gone, every caller in flight has been woken.           *)
(***************************************************************************)
THEOREM NobodyStrandedTheorem == Spec => []NobodyStranded
  <1>1. Ind => NobodyStranded
    BY DEF Ind, NobodyStranded, AllOwned, Owned, Registered, Routed, ReaderSound
  <1>2. QED
    BY InitInd, NextInd, <1>1, PTL DEF Spec

(***************************************************************************)
(* Type correctness of the whole session.                                  *)
(***************************************************************************)
\* The initial state has the types.
LEMMA InitType == Init => TypeOK
  <1> SUFFICES ASSUME Init PROVE TypeOK
    OBVIOUS
  <1>1. ClientType
    BY DEF Init, ClientType, Callers, Results, NoHand, Outcome
  <1>2. ProcessType
    BY SessionAssumption DEF Init, ProcessType
  <1>3. PipesType
    <2>1. stdin = <<>> /\ stdout = <<>> /\ stdinClosed \in BOOLEAN
      BY DEF Init
    <2>2. QED
      BY <2>1 DEF PipesType
  <1>4. LoopType
    <2>1. /\ host = "sending" /\ verdict = "none" /\ outcome = "none" /\ stderrFull \in BOOLEAN
          /\ budget = OutputLimit /\ handlers = {} /\ served = [c \in Calls |-> 0]
      BY DEF Init
    <2>2. QED
      BY <2>1, SessionAssumption DEF LoopType
  <1>5. QED
    BY <1>1, <1>2, <1>3, <1>4 DEF TypeOK

\* A part of the state nobody touches keeps its type: the client,
LEMMA SameClient == ClientType /\ UNCHANGED client => ClientType'
  BY DEF ClientType, client

\* the plugin process,
LEMMA SameProcess == ProcessType /\ UNCHANGED process => ProcessType'
  BY DEF ProcessType, process

\* the pipes,
LEMMA SamePipes == PipesType /\ UNCHANGED pipes => PipesType'
  BY DEF PipesType, pipes

\* and the host.
LEMMA SameLoop == LoopType /\ UNCHANGED loop => LoopType'
  BY DEF LoopType, loop

\* The steps of CallHost keep the types.
LEMMA CallHostType == ASSUME TypeOK, NEW c \in Calls, CallHost(c) PROVE TypeOK'
  <1> USE DEF TypeOK
  <1>1. UNCHANGED process /\ UNCHANGED loop
    BY DEF CallHost, Begin, Register, Send, Forget, Receive
  <1>2. ClientType'
    <2> USE DEF ClientType, Results, Callers, Outcome
    <2>1. CASE Begin(c)
      <3>1. [kind |-> "badPayload", from |-> None] \in Results
        OBVIOUS
      <3>2. \/ result' = result
            \/ result' = [result EXCEPT ![c] = [kind |-> "badPayload", from |-> None]]
        BY <2>1, Zenon DEF Begin
      <3>3. /\ pc' = [pc EXCEPT ![c] = "numbered"] \/ pc' = [pc EXCEPT ![c] = "done"]
            /\ id' = [id EXCEPT ![c] = nextID + 1] /\ nextID' = nextID + 1
            /\ reader' \in {reader, "reading"}
            /\ UNCHANGED <<chan, waiters, hand, closing, readErr, encErr>>
        BY <2>1, Zenon DEF Begin
      <3> HIDE DEF Results, Callers, Outcome
      <3>4. result' \in [Calls -> Results]
        BY <3>1, <3>2
      <3>5. /\ pc' \in [Calls -> {"idle", "numbered", "registered", "unsent", "waiting", "done"}]
            /\ id' \in [Calls -> Nat] /\ nextID' \in Nat
            /\ reader' \in {"off", "reading", "routing", "closing", "gone"}
        BY <3>3
      <3>6. QED
        BY <3>3, <3>4, <3>5
    <2>2. CASE Register(c)
      BY <2>2 DEF Register
    <2>3. CASE Send(c)
      BY <2>3 DEF Send
    <2>4. CASE Forget(c)
      BY <2>4 DEF Forget
    <2>5. CASE Receive(c)
      <3>1. result'[c] \in Results
        BY <2>5 DEF Receive
      <3>2. QED
        BY <2>5, <3>1 DEF Receive
    <2>6. QED
      BY <2>1, <2>2, <2>3, <2>4, <2>5 DEF CallHost
  <1>3. PipesType'
    <2>1. CASE Send(c)
      <3>1. Frame("request", id[c], c) \in Frames
        BY DEF ClientType, Frame, Frames, Callers
      <3>2. QED
        BY <2>1, <3>1 DEF PipesType, Send
    <2>2. CASE ~Send(c)
      <3>1. UNCHANGED pipes
        BY <2>2 DEF CallHost, Begin, Register, Forget, Receive
      <3>2. QED
        BY <3>1, SamePipes
    <2>3. QED
      BY <2>1, <2>2
  <1>4. QED
    BY <1>1, <1>2, <1>3, SameProcess, SameLoop

\* So do the steps of readLoop,
LEMMA ReadLoopType == ASSUME TypeOK, readLoop PROVE TypeOK'
  <1> USE DEF TypeOK
  <1>1. UNCHANGED process /\ UNCHANGED loop
    BY DEF readLoop, ReadAnswer, Deliver, ReadEnd, CloseChan
  <1>2. CASE ReadAnswer
    <2>1. Head(stdin) \in Answers /\ Tail(stdin) \in Seq(Answers)
      BY <1>2 DEF PipesType, ReadAnswer
    <2>2. PipesType'
      BY <1>2, <2>1 DEF PipesType, ReadAnswer
    <2>3. ClientType'
      BY <1>2, <2>1 DEF ClientType, ReadAnswer, Route, Answers, Callers
    <2>4. QED
      BY <1>1, <2>2, <2>3, SameProcess, SameLoop
  <1>3. CASE ~ReadAnswer
    <2>1. UNCHANGED pipes
      BY <1>3 DEF readLoop, Deliver, ReadEnd, CloseChan
    <2>2. ClientType'
      <3> USE DEF ClientType, Callers
      <3>1. CASE Deliver
        BY <3>1 DEF Deliver, Outcome, NoHand
      <3>2. CASE ReadEnd
        BY <3>2 DEF ReadEnd
      <3>3. CASE \E c \in Calls : CloseChan(c)
        BY <3>3 DEF CloseChan, Closed
      <3>4. QED
        BY <1>3, <3>1, <3>2, <3>3 DEF readLoop
    <2>3. QED
      BY <1>1, <2>1, <2>2, SameProcess, SamePipes, SameLoop
  <1>4. QED
    BY <1>2, <1>3

\* a line the plugin writes,
LEMMA PrintType ==
    ASSUME PipesType, NEW kind \in {"event", "rootOK", "rootFail", "garbage", "stray"}, WriteLine(kind)
    PROVE  stdout' \in Seq(Frames)
  <1>1. Frame(kind, 0, None) \in Frames
    BY DEF Frame, Frames, Callers
  <1>2. QED
    BY <1>1 DEF WriteLine, PipesType

\* and the rest of the plugin process.
LEMMA ServeType ==
    ASSUME TypeOK, Accept \/ Reject \/ Respond \/ Exit \/ EmitHostEvent PROVE TypeOK'
  <1> USE DEF TypeOK
  <1>1. UNCHANGED loop
    BY DEF Accept, Reject, Respond, Exit, EmitHostEvent
  <1>2. ClientType'
    <2>1. CASE Accept \/ Reject \/ Respond \/ Exit
      BY <2>1, SameClient DEF Accept, Reject, Respond, Exit
    <2>2. CASE EmitHostEvent
      <3>1. encErr' = encErr \/ encErr' = TRUE
        BY <2>2, Zenon DEF EmitHostEvent
      <3>2. nextID' \in Nat
        BY <2>2 DEF EmitHostEvent, ClientType
      <3>3. UNCHANGED <<id, pc, chan, result, waiters, reader, hand, closing, readErr>>
        BY <2>2 DEF EmitHostEvent
      <3>4. encErr' \in BOOLEAN
        BY <3>1, Zenon DEF ClientType
      <3>5. QED
        BY <3>2, <3>3, <3>4 DEF ClientType
    <2>3. QED
      BY <2>1, <2>2
  <1>3. ProcessType'
    <2>1. CASE Accept \/ Reject \/ Respond \/ Exit
      BY <2>1 DEF ProcessType, Accept, Reject, Respond, Exit
    <2>2. CASE EmitHostEvent
      BY <2>2, SessionAssumption DEF ProcessType, EmitHostEvent
    <2>3. QED
      BY <2>1, <2>2
  <1>4. PipesType'
    <2>1. stdout' \in Seq(Frames)
      BY PrintType DEF PipesType, Accept, Reject, Respond, Exit, EmitHostEvent, pipes
    <2>2. stdin' \in Seq(Answers) /\ stdinClosed' = stdinClosed
      BY DEF PipesType, Accept, Reject, Respond, Exit, EmitHostEvent, pipes
    <2>3. QED
      BY <2>1, <2>2 DEF PipesType
  <1>5. QED
    BY <1>1, <1>2, <1>3, <1>4, SameLoop

\* What the plugin, its process or the deadline may do keeps the types.
LEMMA FaultType == ASSUME TypeOK, Faults \/ Deadline PROVE TypeOK'
  <1> USE DEF TypeOK
  <1>1. UNCHANGED client
    BY DEF Faults, Crash, PrintNoise, FloodStderr, Deadline
  <1>2. ProcessType'
    BY SessionAssumption
       DEF ProcessType, Faults, Crash, PrintNoise, FloodStderr, Deadline, process
  <1>3. PipesType'
    BY PrintType DEF PipesType, Faults, Crash, PrintNoise, FloodStderr, Deadline, pipes
  <1>4. LoopType'
    BY DEF LoopType, Faults, Crash, PrintNoise, FloodStderr, Deadline, loop
  <1>5. QED
    BY <1>1, <1>2, <1>3, <1>4, SameClient

\* What taking a frame and leaving the loop do to the typed parts.
LEMMA TakeType ==
    ASSUME TypeOK, NEW kind, Take(kind)
    PROVE  /\ stdout' \in Seq(Frames) /\ budget' \in 0 .. OutputLimit
           /\ Head(stdout) \in Frames
  BY SessionAssumption DEF TypeOK, PipesType, LoopType, Take

\* A host that leaves its read loop closes stdin, waits and has a verdict.
LEMMA LeaveType ==
    ASSUME NEW v \in {"rootOK", "rootFail", "error"}, Leave(v)
    PROVE  stdinClosed' \in BOOLEAN /\ host' = "waiting" /\ verdict' = v
  BY DEF Leave

\* Every step of the host's loop keeps the types.
LEMMA HostType == ASSUME TypeOK, invokeFramed PROVE TypeOK'
  <1> USE DEF TypeOK
  <1>1. CASE SendRoot
    <2>1. [id |-> 0, from |-> None, ok |-> TRUE] \in Answers
      BY DEF Answers, Callers
    <2>2. stdin' \in Seq(Answers)
      <3>1. stdin' = stdin \/ stdin' = Append(stdin, [id |-> 0, from |-> None, ok |-> TRUE])
        BY <1>1 DEF SendRoot, Answer
      <3>2. QED
        BY <2>1, <3>1 DEF PipesType
    <2>3. PipesType'
      <3>1. stdinClosed' = stdinClosed \/ stdinClosed' = TRUE
        BY <1>1, Zenon DEF SendRoot, Leave
      <3>2. stdinClosed' \in BOOLEAN
        BY <3>1, Zenon DEF PipesType
      <3>3. QED
        BY <1>1, <2>2, <3>2 DEF SendRoot, PipesType
    <2>4. LoopType'
      BY <1>1, LeaveType DEF SendRoot, LoopType
    <2>5. QED
      BY <1>1, <2>3, <2>4, SameClient, SameProcess DEF SendRoot
  <1>2. CASE TakeRequest
    <2>1. Head(stdout).id \in Nat /\ Head(stdout).from \in Callers
      BY <1>2, TakeType DEF TakeRequest, Frames
    <2>2. LoopType'
      <3>1. handlers' \subseteq [id : Nat, from : Callers, answer : Stages]
        BY <1>2, <2>1 DEF TakeRequest, LoopType, Stages
      <3>2. budget' \in 0 .. OutputLimit
        BY <1>2, TakeType DEF TakeRequest
      <3>3. UNCHANGED <<host, verdict, outcome, stderrFull, served>>
        BY <1>2 DEF TakeRequest
      <3>4. QED
        BY <3>1, <3>2, <3>3 DEF LoopType
    <2>3. PipesType'
      BY <1>2, TakeType DEF TakeRequest, PipesType
    <2>4. QED
      BY <1>2, <2>2, <2>3, SameClient, SameProcess DEF TakeRequest
  <1>3. CASE TakeEvent
    <2>1. LoopType' /\ PipesType'
      BY <1>3, TakeType DEF TakeEvent, LoopType, PipesType
    <2>2. QED
      BY <1>3, <2>1, SameClient, SameProcess DEF TakeEvent
  <1>4. CASE TakeRoot
    <2>1. LoopType' /\ PipesType'
      BY <1>4, TakeType, LeaveType DEF TakeRoot, LoopType, PipesType
    <2>2. QED
      BY <1>4, <2>1, SameClient, SameProcess DEF TakeRoot
  <1>5. CASE TakeStray
    <2>1. LoopType' /\ PipesType'
      BY <1>5, TakeType, LeaveType DEF TakeStray, LoopType, PipesType
    <2>2. QED
      BY <1>5, <2>1, SameClient, SameProcess DEF TakeStray
  <1>6. CASE TakeGarbage
    <2>1. LoopType' /\ PipesType'
      BY <1>6, TakeType, LeaveType DEF TakeGarbage, LoopType, PipesType
    <2>2. ProcessType'
      BY <1>6 DEF TakeGarbage, ProcessType
    <2>3. QED
      BY <1>6, <2>1, <2>2, SameClient DEF TakeGarbage
  <1>7. CASE TakeOverLimit
    <2>1. LoopType' /\ PipesType'
      BY <1>7, LeaveType DEF TakeOverLimit, LoopType, PipesType
    <2>2. ProcessType'
      BY <1>7 DEF TakeOverLimit, ProcessType
    <2>3. QED
      BY <1>7, <2>1, <2>2, SameClient DEF TakeOverLimit
  <1>8. CASE TakeEOF
    <2>1. LoopType' /\ PipesType'
      BY <1>8, LeaveType DEF TakeEOF, LoopType, PipesType
    <2>2. QED
      BY <1>8, <2>1, SameClient, SameProcess DEF TakeEOF
  <1>9. CASE Wait
    <2>1. outcome' \in {"none", "ok", "fail", "error"}
      BY <1>9, Zenon DEF Wait
    <2>2. /\ host' = "returned" /\ stdout' = <<>>
          /\ UNCHANGED <<verdict, budget, stderrFull, handlers, served, stdin, stdinClosed>>
          /\ UNCHANGED <<client, process>>
      BY <1>9, Zenon DEF Wait
    <2>3. LoopType' /\ PipesType'
      BY <2>1, <2>2 DEF LoopType, PipesType
    <2>4. QED
      BY <2>2, <2>3, SameClient, SameProcess
  <1>10. CASE RootWritten
    <2>1. stdinClosed' = stdinClosed \/ stdinClosed' = TRUE
      BY <1>10, Zenon DEF RootWritten, Leave
    <2>2. stdinClosed' \in BOOLEAN
      BY <2>1, Zenon DEF PipesType
    <2>3. PipesType' /\ LoopType'
      BY <1>10, <2>2, LeaveType DEF RootWritten, PipesType, LoopType
    <2>4. QED
      BY <1>10, <2>3, SameClient, SameProcess DEF RootWritten
  <1>11. QED
    BY <1>1, <1>2, <1>3, <1>4, <1>5, <1>6, <1>7, <1>8, <1>9, <1>10 DEF invokeFramed

\* Every step of a handler goroutine keeps the types.
LEMMA HandlerType == ASSUME TypeOK, Handler PROVE TypeOK'
  <1> USE DEF TypeOK
  <1>1. PICK h \in handlers : HandlerStarts(h) \/ HandlerEnds(h) \/ HandlerReplies(h)
    BY DEF Handler
  <1>2. UNCHANGED client /\ UNCHANGED process
    BY <1>1 DEF HandlerStarts, HandlerEnds, HandlerReplies
  <1>3. ASSUME NEW a \in Stages, Turned(h, a)
        PROVE  handlers' \subseteq [id : Nat, from : Callers, answer : Stages]
    <2>1. [h EXCEPT !.answer = a] \in [id : Nat, from : Callers, answer : Stages]
      BY DEF LoopType
    <2>2. QED
      BY <1>3, <2>1 DEF LoopType, Turned
  <1>4. CASE HandlerStarts(h)
    <2>1. handlers' \subseteq [id : Nat, from : Callers, answer : Stages]
      BY <1>3, <1>4 DEF HandlerStarts, Stages
    <2>2. served' \in [Calls -> Nat]
      <3>1. \/ served' = served
            \/ served' = [c \in Calls |-> IF c = h.from THEN served[c] + 1 ELSE served[c]]
        BY <1>4, Zenon DEF HandlerStarts, LoopType
      <3>2. QED
        BY <3>1 DEF LoopType
    <2>3. UNCHANGED <<host, verdict, outcome, budget, stderrFull>> /\ UNCHANGED pipes
      BY <1>4 DEF HandlerStarts
    <2>4. LoopType'
      BY <2>1, <2>2, <2>3 DEF LoopType
    <2>5. QED
      BY <1>2, <2>3, <2>4, SameClient, SameProcess, SamePipes
  <1>5. CASE HandlerEnds(h)
    <2>1. handlers' \subseteq [id : Nat, from : Callers, answer : Stages]
      BY <1>3, <1>5 DEF HandlerEnds, Stages
    <2>2. UNCHANGED <<host, verdict, outcome, budget, stderrFull, served>> /\ UNCHANGED pipes
      BY <1>5 DEF HandlerEnds
    <2>3. LoopType'
      BY <2>1, <2>2 DEF LoopType
    <2>4. QED
      BY <1>2, <2>2, <2>3, SameClient, SameProcess, SamePipes
  <1>6. CASE HandlerReplies(h)
    <2>1. Answer(h.id, h.from, h.answer = "ok") \in Answers
      BY DEF LoopType, Answer, Answers
    <2>2. PipesType'
      BY <1>6, <2>1 DEF PipesType, HandlerReplies
    <2>3. LoopType'
      BY <1>6 DEF LoopType, HandlerReplies
    <2>4. QED
      BY <1>2, <2>2, <2>3, SameClient, SameProcess
  <1>7. QED
    BY <1>1, <1>4, <1>5, <1>6

(***************************************************************************)
(* Every variable of the session keeps its type: the invariant TypeOK.     *)
(***************************************************************************)
THEOREM TypeCorrect == Spec => []TypeOK
  <1>1. TypeOK /\ [Next]_vars => TypeOK'
    <2> SUFFICES ASSUME TypeOK, [Next]_vars PROVE TypeOK'
      OBVIOUS
    <2>1. CASE Next
      BY <2>1, CallHostType, ReadLoopType, ServeType, FaultType, HostType, HandlerType DEF Next
    <2>2. CASE UNCHANGED vars
      BY <2>2, SameClient, SameProcess, SamePipes, SameLoop DEF vars, TypeOK
    <2>3. QED
      BY <2>1, <2>2
  <1>2. QED
    BY InitType, <1>1, PTL DEF Spec
-----------------------------------------------------------------------------
(***************************************************************************)
(* What a session returns: that a CallHost gets the answer to its own      *)
(* request (OwnAnswer), that success is real (SuccessIsReal), and that the *)
(* session implements CapabilityCalls.                                     *)
(***************************************************************************)

\* CallHost c has written its request, whatever it returned since.
Sent(c) ==
    \/ pc[c] = "waiting"
    \/ pc[c] = "done" /\ result[c].kind \notin {"badPayload", "unregistered", "writeErr"}

\* The request of c is on its way to the host, or the host works on it.
IsRequest(i) == stdout[i].kind = "request"
Asked(c) == \E i \in 1 .. Len(stdout) : IsRequest(i) /\ stdout[i].from = c
Worked(c) == \E h \in handlers : h.from = c

\* The host is through with c, and an answer that is no error comes of the capability.
Over(c, ok) == Sent(c) /\ ~Asked(c) /\ ~Worked(c) /\ (ok => served[c] = 1)

\* A call returns once; what it returned, and what its channel holds, is the answer to its
\* own request; the host serves no call that has not sent its request.
CallsSound ==
    \A c \in Calls :
       /\ pc[c] = "done" <=> result[c].kind # "none"
       /\ Sent(c) \/ served[c] = 0
       /\ result[c].kind \in {"answer", "refused"} =>
             result[c].from = c /\ Over(c, result[c].kind = "answer")
       /\ chan[c].kind \in {"answer", "refused"} =>
             chan[c].from = c /\ Over(c, chan[c].kind = "answer")

\* A request on its way is the only one of its call, and no handler has it yet.
RequestSound(f) ==
    /\ f.from \in Calls /\ f.id = id[f.from]
    /\ Sent(f.from) /\ served[f.from] = 0 /\ ~Worked(f.from)
RequestsSound ==
    /\ \A i \in 1 .. Len(stdout) : IsRequest(i) => RequestSound(stdout[i])
    /\ \A i, j \in 1 .. Len(stdout) :
          IsRequest(i) /\ IsRequest(j) /\ stdout[i].from = stdout[j].from => i = j

\* A handler is the only one of its call, and its stage tells whether the capability ran.
HandlerSound(h) ==
    /\ h.from \in Calls /\ h.id = id[h.from] /\ Sent(h.from)
    /\ h.answer = "spawned" => served[h.from] = 0
    /\ h.answer \in {"running", "ok"} => served[h.from] = 1
HandlersSound ==
    /\ \A h \in handlers : HandlerSound(h)
    /\ \A g, h \in handlers : g.from = h.from => g = h

\* An answer on its way has the id of the call it is for, and the host is through with it.
AnswerSound(a) == a.from \in Calls /\ a.id = id[a.from] /\ Over(a.from, a.ok)
AnswersSound ==
    /\ \A i \in 1 .. Len(stdin) : stdin[i].id = 0 \/ AnswerSound(stdin[i])
    /\ reader = "routing" => hand.from = hand.call /\ Over(hand.call, hand.ok)

\* Only a handler that responded writes a successful root frame.
SuccessSound ==
    /\ \A i \in 1 .. Len(stdout) : stdout[i].kind = "rootOK" => main = "responded"
    /\ verdict = "rootOK" => main = "responded"
    /\ outcome = "ok" => main = "responded" /\ proc = "ok" /\ ~stderrFull

Ans == CallsSound /\ RequestsSound /\ HandlersSound /\ AnswersSound
-----------------------------------------------------------------------------
(***************************************************************************)
(* Pipes.                                                                  *)
(***************************************************************************)
\* What is left of a pipe whose first frame was read.
LEMMA Dropped ==
  ASSUME NEW S, NEW s \in Seq(S), s # <<>>
  PROVE  /\ 1 \in 1 .. Len(s) /\ Head(s) = s[1]
         /\ \A i \in 1 .. Len(Tail(s)) : i + 1 \in 1 .. Len(s) /\ Tail(s)[i] = s[i + 1]
  OBVIOUS

\* What a pipe holds after a write.
LEMMA Added ==
  ASSUME NEW S, NEW s \in Seq(S), NEW e \in S
  PROVE  /\ Len(Append(s, e)) = Len(s) + 1
         /\ \A i \in 1 .. Len(s) + 1 :
               \/ i = Len(s) + 1 /\ Append(s, e)[i] = e
               \/ i \in 1 .. Len(s) /\ Append(s, e)[i] = s[i]
  OBVIOUS

\* Pipe t is s without its first k frames.
Suffix(t, s, k) == \A i \in 1 .. Len(t) : i + k \in 1 .. Len(s) /\ t[i] = s[i + k]

\* Reading a pipe, emptying it or leaving it alone makes a suffix.
LEMMA SuffixOf ==
  ASSUME NEW S, NEW s \in Seq(S), NEW t,
         t = s \/ t = <<>> \/ (s # <<>> /\ t = Tail(s))
  PROVE  \E k \in {0, 1} : Suffix(t, s, k)
<1>1. CASE t = s \/ t = <<>>
  <2>1. Suffix(t, s, 0)
    BY <1>1 DEF Suffix
  <2> QED
    BY <2>1
<1>2. CASE s # <<>> /\ t = Tail(s)
  <2>1. Suffix(t, s, 1)
    BY <1>2, Dropped DEF Suffix
  <2> QED
    BY <2>1
<1> QED
  BY <1>1, <1>2

\* The host works on nothing new, and no call that was sent is unsent.
Calm ==
    /\ UNCHANGED <<handlers, served>>
    /\ \A c \in Calls : Sent(c) => Sent(c)'

\* What was over stays so while no request is written.
LEMMA CalmOver ==
  ASSUME Calm, NEW c \in Calls, NEW ok, Over(c, ok), Asked(c)' => Asked(c)
  PROVE  Over(c, ok)'
  BY DEF Calm, Over, Worked

\* Requests that are left on the way to the host stay what they were.
LEMMA RequestsStay ==
  ASSUME RequestsSound, PipesType, PipesType', Calm, UNCHANGED id,
         NEW k \in {0, 1}, Suffix(stdout', stdout, k)
  PROVE  RequestsSound' /\ \A c \in Calls : Asked(c)' => Asked(c)
<1>1. \A i \in 1 .. Len(stdout') : i + k \in 1 .. Len(stdout) /\ stdout'[i] = stdout[i + k]
  BY DEF Suffix
<1>2. \A i \in 1 .. Len(stdout') : IsRequest(i)' <=> IsRequest(i + k)
  BY <1>1 DEF IsRequest
<1>3. \A f : RequestSound(f) => RequestSound(f)'
  BY DEF RequestSound, Calm, Worked
<1>4. \A i \in 1 .. Len(stdout') : IsRequest(i)' => RequestSound(stdout[i])'
  BY <1>1, <1>2, <1>3 DEF RequestsSound
<1>5. ASSUME NEW i \in 1 .. Len(stdout'), NEW j \in 1 .. Len(stdout'),
             IsRequest(i)', IsRequest(j)', stdout'[i].from = stdout'[j].from
      PROVE  i = j
  <2>1. i + k = j + k
    BY <1>1, <1>2, <1>5 DEF RequestsSound
  <2> QED
    BY <2>1
<1>6. \A c \in Calls : Asked(c)' => Asked(c)
  BY <1>1, <1>2 DEF Asked
<1> QED
  BY <1>4, <1>5, <1>6 DEF RequestsSound

\* So do they when another frame is written.
LEMMA RequestsAndFrame ==
  ASSUME RequestsSound, PipesType, Calm, UNCHANGED id,
         NEW f \in Frames, f.kind # "request", stdout' = Append(stdout, f)
  PROVE  RequestsSound' /\ \A c \in Calls : Asked(c)' => Asked(c)
<1>1. /\ Len(stdout') = Len(stdout) + 1 /\ Len(stdout) \in Nat
      /\ \A i \in 1 .. Len(stdout') :
            \/ i = Len(stdout) + 1 /\ stdout'[i] = f
            \/ i \in 1 .. Len(stdout) /\ stdout'[i] = stdout[i]
  BY Added DEF PipesType
<1>2. \A i \in 1 .. Len(stdout') :
         IsRequest(i)' => i \in 1 .. Len(stdout) /\ stdout'[i] = stdout[i] /\ IsRequest(i)
  BY <1>1 DEF IsRequest
<1>3. \A g : RequestSound(g) => RequestSound(g)'
  BY DEF RequestSound, Calm, Worked
<1>4. \A i \in 1 .. Len(stdout') : IsRequest(i)' => RequestSound(stdout[i])'
  BY <1>2, <1>3 DEF RequestsSound
<1>5. \A i, j \in 1 .. Len(stdout') :
         IsRequest(i)' /\ IsRequest(j)' /\ stdout'[i].from = stdout'[j].from => i = j
  BY <1>2 DEF RequestsSound
<1> QED
  BY <1>2, <1>4, <1>5 DEF RequestsSound, Asked

\* Handlers that nothing happens to stay what they were.
LEMMA HandlersStay ==
  ASSUME HandlersSound, Calm, \A c \in Calls : Sent(c) => id'[c] = id[c]
  PROVE  HandlersSound'
  BY DEF HandlersSound, HandlerSound, Calm

\* Answers that are left on the way to the plugin are for the calls they were for.
LEMMA AnswersStay ==
  ASSUME AnswersSound, PipesType, Calm, \A c \in Calls : Asked(c)' => Asked(c),
         \A c \in Calls : Sent(c) => id'[c] = id[c],
         reader = "routing" => hand.call \in Calls,
         UNCHANGED <<reader, hand>>,
         NEW k \in {0, 1}, Suffix(stdin', stdin, k)
  PROVE  AnswersSound'
<1>1. \A c \in Calls : \A ok : Over(c, ok) => Over(c, ok)'
  BY CalmOver
<1>2. \A a : AnswerSound(a) => AnswerSound(a)'
  BY <1>1 DEF AnswerSound, Over
<1>3. \A i \in 1 .. Len(stdin') : stdin'[i].id = 0 \/ AnswerSound(stdin[i])'
  BY <1>2 DEF AnswersSound, Suffix
<1> QED
  BY <1>1, <1>3 DEF AnswersSound

\* Calls that get nothing new keep what they have.
LEMMA CallsStay ==
  ASSUME CallsSound, Calm, UNCHANGED <<pc, result, chan>>,
         \A c \in Calls : Asked(c)' => Asked(c)
  PROVE  CallsSound'
<1>1. \A c \in Calls : \A ok : Over(c, ok) => Over(c, ok)'
  BY CalmOver
<1> QED
  BY <1>1 DEF CallsSound, Calm, Sent

\* A step that touches no call, moves nothing on and writes no request.
LEMMA QuietAns ==
  ASSUME TypeOK, TypeOK', Ind, Ans,
         UNCHANGED <<id, pc, chan, result, reader, hand, served, handlers>>,
         stdin' = stdin \/ (stdin # <<>> /\ stdin' = Tail(stdin)),
         \/ stdout' = stdout \/ stdout' = <<>> \/ (stdout # <<>> /\ stdout' = Tail(stdout))
         \/ \E f \in Frames : f.kind # "request" /\ stdout' = Append(stdout, f)
  PROVE  Ans'
<1>1. Calm
  BY DEF Calm, Sent
<1>2. RequestsSound' /\ \A c \in Calls : Asked(c)' => Asked(c)
  <2>1. CASE stdout' = stdout \/ stdout' = <<>> \/ (stdout # <<>> /\ stdout' = Tail(stdout))
    <3>1. PICK k \in {0, 1} : Suffix(stdout', stdout, k)
      BY <2>1, SuffixOf DEF TypeOK, PipesType
    <3> QED
      BY <1>1, <3>1, RequestsStay DEF TypeOK, Ans
  <2>2. CASE \E f \in Frames : f.kind # "request" /\ stdout' = Append(stdout, f)
    BY <1>1, <2>2, RequestsAndFrame DEF TypeOK, Ans
  <2> QED
    BY <2>1, <2>2
<1>3. PICK k \in {0, 1} : Suffix(stdin', stdin, k)
  BY SuffixOf DEF TypeOK, PipesType
<1>4. AnswersSound'
  BY <1>1, <1>2, <1>3, AnswersStay DEF TypeOK, Ans, Ind, ReaderSound
<1>5. HandlersSound' /\ CallsSound'
  BY <1>1, <1>2, HandlersStay, CallsStay DEF Ans
<1> QED
  BY <1>2, <1>4, <1>5 DEF Ans
-----------------------------------------------------------------------------
(***************************************************************************)
(* The steps of a CallHost.                                                *)
(***************************************************************************)
\* In the initial state nothing is on its way.
LEMMA InitAns == Init => Ans /\ SuccessSound
  BY DEF Init, Ans, CallsSound, RequestsSound, HandlersSound, AnswersSound, SuccessSound, Empty,
         Outcome, Sent

\* A call that has not sent its request has nothing on its way anywhere.
LEMMA UnsentIdle ==
  ASSUME TypeOK, Ind, Ans, NEW d \in Calls, ~Sent(d)
  PROVE  /\ served[d] = 0 /\ ~Asked(d) /\ ~Worked(d) /\ \A ok : ~Over(d, ok)
         /\ chan[d].kind \notin {"answer", "refused"}
<1>1. served[d] = 0 /\ (chan[d].kind \notin {"answer", "refused"}) /\ \A ok : ~Over(d, ok)
  BY DEF Ans, CallsSound, Over
<1>2. ~Asked(d) /\ ~Worked(d)
  BY DEF Ans, RequestsSound, RequestSound, HandlersSound, HandlerSound, Asked, Worked
<1> QED
  BY <1>1, <1>2

\* A step of a call that has sent nothing yet touches nothing but the call.
LEMMA OwnStep ==
  ASSUME TypeOK, TypeOK', Ind, Ans, NEW d \in Calls, ~Sent(d), ~Sent(d)',
         UNCHANGED <<chan, hand, stdout, stdin, served, handlers>>,
         reader' = "routing" <=> reader = "routing",
         \A c \in Calls : c # d => id'[c] = id[c] /\ pc'[c] = pc[c] /\ result'[c] = result[c],
         pc'[d] = "done" <=> result'[d].kind # "none",
         result'[d].kind \notin {"answer", "refused"}
  PROVE  Ans'
<1>1. Calm /\ \A c \in Calls : Sent(c) => id'[c] = id[c]
  BY DEF Calm, Sent
<1>2. \A c \in Calls : Asked(c)' <=> Asked(c)
  BY DEF Asked, IsRequest
<1>3. \A c \in Calls : \A ok : Over(c, ok) => Over(c, ok)'
  BY <1>1, <1>2, CalmOver
<1>4. CallsSound'
  <2>1. ASSUME NEW c \in Calls, c # d
        PROVE  /\ pc'[c] = "done" <=> result'[c].kind # "none"
               /\ Sent(c)' \/ served'[c] = 0
               /\ result'[c].kind \in {"answer", "refused"} =>
                     result'[c].from = c /\ Over(c, result[c].kind = "answer")'
               /\ chan'[c].kind \in {"answer", "refused"} =>
                     chan'[c].from = c /\ Over(c, chan[c].kind = "answer")'
    BY <1>1, <1>3, <2>1 DEF Calm, Ans, CallsSound
  <2>2. served[d] = 0 /\ chan[d].kind \notin {"answer", "refused"}
    BY UnsentIdle
  <2> QED
    BY <2>1, <2>2 DEF CallsSound
<1>5. RequestsSound'
  <2>1. \A f : RequestSound(f) => RequestSound(f)'
    BY <1>1 DEF RequestSound, Calm, Worked
  <2> QED
    BY <2>1 DEF Ans, RequestsSound, IsRequest
<1>6. HandlersSound'
  BY <1>1, HandlersStay DEF Ans
<1>7. AnswersSound'
  <2>1. \A a : AnswerSound(a) => AnswerSound(a)'
    BY <1>1, <1>3 DEF AnswerSound, Over
  <2>2. \A i \in 1 .. Len(stdin') : stdin'[i].id = 0 \/ AnswerSound(stdin[i])'
    BY <2>1 DEF Ans, AnswersSound
  <2> QED
    BY <1>3, <2>2 DEF Ans, AnswersSound, Ind, ReaderSound
<1> QED
  BY <1>4, <1>5, <1>6, <1>7 DEF Ans

\* A call gets its id, registers or gives up before it has sent anything.
LEMMA UnsentAns ==
  ASSUME TypeOK, TypeOK', Ind, Ans, NEW d \in Calls, Begin(d) \/ Register(d) \/ Forget(d)
  PROVE  Ans'
<1>1. /\ UNCHANGED <<chan, hand, stdout, stdin, served, handlers>>
      /\ reader' = "routing" <=> reader = "routing"
      /\ pc[d] \in {"idle", "numbered", "unsent"}
  BY DEF Begin, Register, Forget, pipes, loop
<1>2. id' = id \/ id' = [id EXCEPT ![d] = nextID + 1]
  BY DEF Begin, Register, Forget
<1>3. \/ pc' \in {[pc EXCEPT ![d] = "numbered"], [pc EXCEPT ![d] = "registered"]} /\ result' = result
      \/ /\ pc' = [pc EXCEPT ![d] = "done"]
         /\ \E kind \in {"badPayload", "unregistered", "writeErr"} :
               result' = [result EXCEPT ![d] = Outcome(kind, None)]
  BY DEF Begin, Register, Forget
<1>4. \A c \in Calls : c # d => id'[c] = id[c] /\ pc'[c] = pc[c] /\ result'[c] = result[c]
  BY <1>2, <1>3 DEF TypeOK, ClientType
<1>5. result[d].kind = "none" /\ ~Sent(d)
  BY <1>1 DEF Ans, CallsSound, Sent
<1>6. CASE /\ pc' \in {[pc EXCEPT ![d] = "numbered"], [pc EXCEPT ![d] = "registered"]}
           /\ result' = result
  <2>1. pc'[d] \in {"numbered", "registered"} /\ result'[d].kind = "none"
    BY <1>5, <1>6 DEF TypeOK, ClientType
  <2>2. ~Sent(d)'
    BY <2>1 DEF Sent
  <2> QED
    BY <1>1, <1>4, <1>5, <2>1, <2>2, OwnStep
<1>7. ASSUME NEW kind \in {"badPayload", "unregistered", "writeErr"},
             pc' = [pc EXCEPT ![d] = "done"], result' = [result EXCEPT ![d] = Outcome(kind, None)]
      PROVE  Ans'
  <2>1. pc'[d] = "done" /\ result'[d].kind = kind
    BY <1>7 DEF TypeOK, ClientType, Outcome
  <2>2. ~Sent(d)'
    BY <2>1 DEF Sent
  <2> QED
    BY <1>1, <1>4, <1>5, <2>1, <2>2, OwnStep
<1> QED
  BY <1>3, <1>6, <1>7

\* The request of a call is written once, or it is not and never will be.
LEMMA SendAns ==
  ASSUME TypeOK, TypeOK', Ind, Ans, NEW d \in Calls, Send(d)
  PROVE  Ans'
<1>1. /\ UNCHANGED <<chan, hand, stdin, served, handlers, reader, id, result>>
      /\ pc[d] = "registered"
  BY DEF Send, loop
<1>2. ~Sent(d) /\ result[d].kind = "none"
  BY <1>1 DEF Ans, CallsSound, Sent
<1>3. CASE pc' = [pc EXCEPT ![d] = "unsent"] /\ stdout' = stdout
  <2>1. pc'[d] = "unsent" /\ \A c \in Calls : c # d => pc'[c] = pc[c]
    BY <1>3 DEF TypeOK, ClientType
  <2>2. ~Sent(d)'
    BY <2>1 DEF Sent
  <2> QED
    BY <1>1, <1>2, <1>3, <2>1, <2>2, OwnStep
<1>4. CASE /\ pc' = [pc EXCEPT ![d] = "waiting"]
           /\ stdout' = Append(stdout, Frame("request", id[d], d))
  <2>1. pc'[d] = "waiting" /\ \A c \in Calls : c # d => pc'[c] = pc[c]
    BY <1>4 DEF TypeOK, ClientType
  <2>2. PICK f \in Frames : /\ f.kind = "request" /\ f.id = id[d] /\ f.from = d
                            /\ stdout' = Append(stdout, f)
    <3>1. [kind |-> "request", id |-> id[d], from |-> d] \in Frames
      BY DEF TypeOK, ClientType, Frames, Callers
    <3> QED
      BY <1>4, <3>1 DEF Frame
  <2>3. /\ Len(stdout') = Len(stdout) + 1 /\ Len(stdout) \in Nat
        /\ \A i \in 1 .. Len(stdout') :
              \/ i = Len(stdout) + 1 /\ stdout'[i] = f
              \/ i \in 1 .. Len(stdout) /\ stdout'[i] = stdout[i]
    BY <2>2, Added DEF TypeOK, PipesType
  <2>4. /\ served[d] = 0 /\ ~Asked(d) /\ ~Worked(d) /\ (\A ok : ~Over(d, ok))
        /\ chan[d].kind \notin {"answer", "refused"}
    BY <1>2, UnsentIdle
  <2>5. Sent(d)' /\ Calm
    BY <1>1, <2>1 DEF Sent, Calm
  <2>6. \A c \in Calls : c # d => (Asked(c)' => Asked(c))
    BY <2>2, <2>3 DEF Asked, IsRequest
  <2>7. \A c \in Calls : \A ok : Over(c, ok) => Over(c, ok)'
    BY <2>4, <2>5, <2>6, CalmOver
  <2>8. CallsSound'
    <3>1. ASSUME NEW c \in Calls
          PROVE  /\ pc'[c] = "done" <=> result'[c].kind # "none"
                 /\ Sent(c)' \/ served'[c] = 0
      BY <1>1, <1>2, <2>1, <2>5 DEF Ans, CallsSound, Calm
    <3>2. ASSUME NEW c \in Calls
          PROVE  /\ result'[c].kind \in {"answer", "refused"} =>
                       result'[c].from = c /\ Over(c, result[c].kind = "answer")'
                 /\ chan'[c].kind \in {"answer", "refused"} =>
                       chan'[c].from = c /\ Over(c, chan[c].kind = "answer")'
      BY <1>1, <2>7 DEF Ans, CallsSound
    <3> QED
      BY <3>1, <3>2 DEF CallsSound
  <2>9. RequestsSound'
    <3>1. \A g : RequestSound(g) => RequestSound(g)'
      BY <1>1, <2>5 DEF RequestSound, Calm, Worked
    <3>2. RequestSound(f)'
      BY <1>1, <2>2, <2>4, <2>5 DEF RequestSound, Worked
    <3>3. \A i \in 1 .. Len(stdout) : IsRequest(i) => stdout[i].from # d
      BY <2>4 DEF Asked
    <3>4. \A i \in 1 .. Len(stdout') : IsRequest(i)' =>
             RequestSound(stdout[i])'
      <4> SUFFICES ASSUME NEW i \in 1 .. Len(stdout'), IsRequest(i)'
                   PROVE  RequestSound(stdout[i])'
        OBVIOUS
      <4>1. CASE stdout'[i] = f
        BY <3>2, <4>1 DEF RequestSound
      <4>2. CASE i \in 1 .. Len(stdout) /\ stdout'[i] = stdout[i]
        <5>1. RequestSound(stdout[i]) /\ stdout'[i] = stdout[i]
          BY <4>2 DEF Ans, RequestsSound, IsRequest
        <5> QED
          BY <3>1, <5>1
      <4> QED
        BY <2>3, <4>1, <4>2
    <3>5. ASSUME NEW i \in 1 .. Len(stdout'), NEW j \in 1 .. Len(stdout'),
                 IsRequest(i)', IsRequest(j)', stdout'[i].from = stdout'[j].from
          PROVE  i = j
      BY <2>2, <2>3, <3>3, <3>5 DEF Ans, RequestsSound, IsRequest
    <3> QED
      BY <3>4, <3>5 DEF RequestsSound
  <2>10. HandlersSound'
    BY <1>1, <2>5, HandlersStay DEF Ans
  <2>11. AnswersSound'
    <3>1. \A a : AnswerSound(a) => AnswerSound(a)'
      BY <1>1, <2>7 DEF AnswerSound
    <3>2. \A i \in 1 .. Len(stdin') : stdin'[i].id = 0 \/ AnswerSound(stdin[i])'
      BY <1>1, <3>1 DEF Ans, AnswersSound
    <3> QED
      BY <1>1, <2>7, <3>2 DEF Ans, AnswersSound, Ind, ReaderSound
  <2> QED
    BY <2>8, <2>9, <2>10, <2>11 DEF Ans
<1> QED
  BY <1>3, <1>4 DEF Send

\* A call returns the answer in its channel, or that the reader is gone.
LEMMA ReceiveAns ==
  ASSUME TypeOK, TypeOK', Ind, Ans, NEW d \in Calls, Receive(d)
  PROVE  Ans'
<1>1. /\ UNCHANGED <<chan, hand, stdout, stdin, served, handlers, reader, id>>
      /\ pc[d] = "waiting" /\ chan[d] # Empty
      /\ pc' = [pc EXCEPT ![d] = "done"]
      /\ result' = [result EXCEPT ![d] =
            IF chan[d] = Closed THEN Outcome("readErr", None) ELSE chan[d]]
  BY DEF Receive, pipes, loop
<1>2. chan[d] = Closed \/ chan[d].kind \in {"answer", "refused"}
  BY <1>1 DEF TypeOK, ClientType
<1>3. /\ pc'[d] = "done" /\ \A c \in Calls : c # d => pc'[c] = pc[c] /\ result'[c] = result[c]
      /\ \/ result'[d].kind = "readErr"
         \/ result'[d] = chan[d] /\ chan[d].kind \in {"answer", "refused"}
  BY <1>1, <1>2 DEF TypeOK, ClientType, Outcome
<1>4. Calm
  <2>1. Sent(d)' /\ \A c \in Calls : c # d => (Sent(c)' <=> Sent(c))
    BY <1>3 DEF Sent
  <2> QED
    BY <1>1, <2>1 DEF Calm
<1>5. \A c \in Calls : Asked(c)' <=> Asked(c)
  BY <1>1 DEF Asked, IsRequest
<1>6. \A c \in Calls : \A ok : Over(c, ok) => Over(c, ok)'
  BY <1>4, <1>5, CalmOver
<1>7. CallsSound'
  <2>1. ASSUME NEW c \in Calls
        PROVE  /\ pc'[c] = "done" <=> result'[c].kind # "none"
               /\ Sent(c)' \/ served'[c] = 0
    BY <1>3, <1>4, <2>1 DEF Ans, CallsSound, Calm
  <2>2. ASSUME NEW c \in Calls, chan'[c].kind \in {"answer", "refused"}
        PROVE  chan'[c].from = c /\ Over(c, chan[c].kind = "answer")'
    BY <1>1, <1>6, <2>2 DEF Ans, CallsSound
  <2>3. ASSUME NEW c \in Calls, result'[c].kind \in {"answer", "refused"}
        PROVE  result'[c].from = c /\ Over(c, result[c].kind = "answer")'
    <3>1. CASE c = d
      BY <1>1, <1>3, <2>2, <2>3, <3>1
    <3>2. CASE c # d
      BY <1>3, <1>6, <2>3, <3>2 DEF Ans, CallsSound
    <3> QED
      BY <3>1, <3>2
  <2> QED
    BY <2>1, <2>2, <2>3 DEF CallsSound
<1>8. RequestsSound'
  <2>1. \A f : RequestSound(f) => RequestSound(f)'
    BY <1>1, <1>4 DEF RequestSound, Calm, Worked
  <2> QED
    BY <1>1, <2>1 DEF Ans, RequestsSound, IsRequest
<1>9. HandlersSound'
  BY <1>1, <1>4, HandlersStay DEF Ans
<1>10. AnswersSound'
  <2>1. \A a : AnswerSound(a) => AnswerSound(a)'
    BY <1>1, <1>6 DEF AnswerSound
  <2>2. \A i \in 1 .. Len(stdin') : stdin'[i].id = 0 \/ AnswerSound(stdin[i])'
    BY <1>1, <2>1 DEF Ans, AnswersSound
  <2> QED
    BY <1>1, <1>6, <2>2 DEF Ans, AnswersSound, Ind, ReaderSound
<1> QED
  BY <1>7, <1>8, <1>9, <1>10 DEF Ans
-----------------------------------------------------------------------------
(***************************************************************************)
(* The steps of readLoop.                                                  *)
(***************************************************************************)
\* The answer that the reader takes is for the call whose channel it takes: the root
\* request has an id that no call has, and no two calls share one.
LEMMA ReadAnswerAns ==
  ASSUME TypeOK, TypeOK', Ind, Ans, ReadAnswer
  PROVE  Ans'
<1>1. /\ UNCHANGED <<chan, stdout, served, handlers, id, pc, result>>
      /\ stdin # <<>> /\ stdin' = Tail(stdin)
  BY DEF ReadAnswer, loop
<1>2. Calm /\ \A c \in Calls : Asked(c)' <=> Asked(c)
  BY <1>1 DEF Calm, Sent, Asked, IsRequest
<1>3. \A c \in Calls : \A ok : Over(c, ok) => Over(c, ok)'
  BY <1>2, CalmOver
<1>4. CallsSound' /\ HandlersSound'
  BY <1>1, <1>2, CallsStay, HandlersStay DEF Ans
<1>5. RequestsSound'
  <2>1. \A f : RequestSound(f) => RequestSound(f)'
    BY <1>1, <1>2 DEF RequestSound, Calm, Worked
  <2> QED
    BY <1>1, <2>1 DEF Ans, RequestsSound, IsRequest
<1>6. /\ 1 \in 1 .. Len(stdin) /\ Head(stdin) = stdin[1]
      /\ \A i \in 1 .. Len(stdin') : i + 1 \in 1 .. Len(stdin) /\ stdin'[i] = stdin[i + 1]
  BY <1>1, Dropped DEF TypeOK, PipesType
<1>7. \A i \in 1 .. Len(stdin') : stdin'[i].id = 0 \/ AnswerSound(stdin[i])'
  <2>1. \A a : AnswerSound(a) => AnswerSound(a)'
    BY <1>1, <1>3 DEF AnswerSound
  <2> QED
    BY <1>6, <2>1 DEF Ans, AnswersSound
<1>8. reader' = "routing" => hand'.from = hand'.call /\ Over(hand.call, hand.ok)'
  <2>1. CASE UNCHANGED <<hand, reader>>
    BY <1>3, <2>1 DEF Ans, AnswersSound, Ind, ReaderSound
  <2>2. ASSUME NEW w \in waiters, w.id = Head(stdin).id, hand' = Route(w.call, Head(stdin))
        PROVE  hand'.from = hand'.call /\ Over(hand.call, hand.ok)'
    <3>1. w.id = id[w.call] /\ InFlight(w.call) /\ w.call \in Calls
      BY DEF Ind, WaitersSound, TypeOK, ClientType
    <3>2. pc[w.call] # "idle" /\ id[w.call] # 0
      BY <3>1 DEF Ind, IdsUnique, InFlight, TypeOK, ClientType
    <3>3. AnswerSound(Head(stdin))
      BY <1>6, <2>2, <3>1, <3>2 DEF Ans, AnswersSound
    <3>4. Head(stdin).from \in Calls /\ pc[Head(stdin).from] # "idle"
          /\ id[Head(stdin).from] = id[w.call]
      BY <2>2, <3>1, <3>3 DEF AnswerSound, Over, Sent
    <3>5. Head(stdin).from = w.call
      BY <3>1, <3>2, <3>4 DEF Ind, IdsUnique
    <3>6. hand'.call = w.call /\ hand'.from = w.call /\ hand'.ok = Head(stdin).ok
      BY <2>2, <3>5 DEF Route
    <3>7. PICK ok : ok = Head(stdin).ok
      OBVIOUS
    <3>8. Over(w.call, ok)'
      <4>1. w.call \in Calls /\ Over(w.call, ok)
        BY <3>1, <3>3, <3>5, <3>7 DEF AnswerSound
      <4> QED
        BY <1>3, <4>1
    <3> QED
      BY <3>6, <3>7, <3>8
  <2> QED
    BY <2>1, <2>2 DEF ReadAnswer
<1> QED
  BY <1>4, <1>5, <1>7, <1>8 DEF Ans, AnswersSound

\* It sends that answer on, or meets the end of stdin and closes the channels that are left.
LEMMA ReaderAns ==
  ASSUME TypeOK, TypeOK', Ind, Ans, Deliver \/ ReadEnd \/ \E c \in Calls : CloseChan(c)
  PROVE  Ans'
<1>1. UNCHANGED <<stdout, stdin, served, handlers, id, pc, result>> /\ reader' # "routing"
  BY DEF Deliver, ReadEnd, CloseChan, pipes, loop
<1>2. Calm /\ \A c \in Calls : Asked(c)' <=> Asked(c)
  BY <1>1 DEF Calm, Sent, Asked, IsRequest
<1>3. \A c \in Calls : \A ok : Over(c, ok) => Over(c, ok)'
  BY <1>2, CalmOver
<1>4. RequestsSound'
  <2>1. \A f : RequestSound(f) => RequestSound(f)'
    BY <1>1, <1>2 DEF RequestSound, Calm, Worked
  <2> QED
    BY <1>1, <2>1 DEF Ans, RequestsSound, IsRequest
<1>5. AnswersSound'
  <2>1. \A a : AnswerSound(a) => AnswerSound(a)'
    BY <1>1, <1>3 DEF AnswerSound
  <2>2. \A i \in 1 .. Len(stdin') : stdin'[i].id = 0 \/ AnswerSound(stdin[i])'
    BY <1>1, <2>1 DEF Ans, AnswersSound
  <2> QED
    BY <1>1, <2>2 DEF AnswersSound
<1>6. HandlersSound'
  BY <1>1, <1>2, HandlersStay DEF Ans
<1>7. ASSUME NEW c \in Calls, chan'[c].kind \in {"answer", "refused"}
      PROVE  chan'[c].from = c /\ Over(c, chan[c].kind = "answer")'
  <2>1. CASE chan'[c] = chan[c]
    BY <1>3, <1>7, <2>1 DEF Ans, CallsSound
  <2>2. CASE ReadEnd
    BY <2>1, <2>2 DEF ReadEnd
  <2>3. CASE \E e \in Calls : CloseChan(e)
    BY <1>7, <2>1, <2>3 DEF CloseChan, Closed, TypeOK, ClientType
  <2>4. CASE Deliver
    <3>1. /\ hand.call \in Calls /\ hand.from = hand.call /\ Over(hand.call, hand.ok)
          /\ chan' = [chan EXCEPT ![hand.call] =
                         Outcome(IF hand.ok THEN "answer" ELSE "refused", hand.from)]
      BY <2>4 DEF Deliver, Ind, ReaderSound, Ans, AnswersSound
    <3>2. CASE c = hand.call
      <4>1. chan'[c].from = c /\ (chan'[c].kind = "answer" <=> hand.ok)
        BY <3>1, <3>2 DEF TypeOK, ClientType, Outcome
      <4>2. PICK ok \in BOOLEAN : ok = hand.ok
        BY DEF TypeOK, ClientType
      <4>3. Over(c, ok)'
        BY <1>3, <3>1, <3>2, <4>2
      <4>4. (chan'[c].kind = "answer") = ok
        BY <4>1, <4>2
      <4> QED
        BY <4>1, <4>3, <4>4
    <3>3. CASE c # hand.call
      BY <2>1, <3>1, <3>3 DEF TypeOK, ClientType
    <3> QED
      BY <3>2, <3>3
  <2> QED
    BY <2>2, <2>3, <2>4
<1>8. CallsSound'
  BY <1>1, <1>2, <1>3, <1>7 DEF Ans, CallsSound, Calm
<1> QED
  BY <1>4, <1>5, <1>6, <1>8 DEF Ans
-----------------------------------------------------------------------------
(***************************************************************************)
(* The rest of the plugin process, and the host.                           *)
(***************************************************************************)
\* A frame that plugin code or Serve writes is no request.
LEMMA LineIsNoRequest ==
  ASSUME NEW kind \in {"event", "rootOK", "rootFail", "garbage", "stray"}, WriteLine(kind)
  PROVE  \E f \in Frames : f.kind # "request" /\ stdout' = Append(stdout, f)
<1>1. [kind |-> kind, id |-> 0, from |-> None] \in Frames
  BY DEF Frames, Callers
<1> QED
  BY <1>1 DEF WriteLine, Frame

\* Serve, the faults and the deadline write no request and answer nothing.
LEMMA ProcessAns ==
  ASSUME TypeOK, TypeOK', Ind, Ans,
         Accept \/ Reject \/ Respond \/ Exit \/ EmitHostEvent \/ Faults \/ Deadline
  PROVE  Ans'
<1>1. UNCHANGED <<id, pc, chan, result, reader, hand, served, handlers>>
  BY DEF Accept, Reject, Respond, Exit, EmitHostEvent, Faults, Crash, PrintNoise, FloodStderr,
         Deadline, client, loop
<1>2. stdin' = stdin \/ (stdin # <<>> /\ stdin' = Tail(stdin))
  BY DEF Accept, Reject, Respond, Exit, EmitHostEvent, Faults, Crash, PrintNoise, FloodStderr,
         Deadline, pipes
<1>3. \/ stdout' = stdout
      \/ \E kind \in {"event", "rootOK", "rootFail", "garbage", "stray"} : WriteLine(kind)
  BY DEF Accept, Reject, Respond, Exit, EmitHostEvent, Faults, Crash, PrintNoise, FloodStderr,
         Deadline, pipes
<1> QED
  BY <1>1, <1>2, <1>3, LineIsNoRequest, QuietAns

\* Nor do the steps of the host's loop that take another frame than a request, or leave.
LEMMA LoopAns ==
  ASSUME TypeOK, TypeOK', Ind, Ans,
         \/ RootWritten \/ TakeEvent \/ TakeRoot \/ TakeStray \/ TakeGarbage \/ TakeOverLimit
         \/ TakeEOF \/ Wait
  PROVE  Ans'
<1>1. UNCHANGED <<id, pc, chan, result, reader, hand, served, handlers, stdin>>
  BY DEF RootWritten, TakeEvent, TakeRoot, TakeStray, TakeGarbage, TakeOverLimit, TakeEOF, Wait,
         client
<1>2. stdout' = stdout \/ stdout' = <<>> \/ (stdout # <<>> /\ stdout' = Tail(stdout))
  BY DEF RootWritten, TakeEvent, TakeRoot, TakeStray, TakeGarbage, TakeOverLimit, TakeEOF, Wait,
         Take
<1> QED
  BY <1>1, <1>2, QuietAns

\* The root request has an id that is no call's.
LEMMA SendRootAns ==
  ASSUME TypeOK, TypeOK', Ind, Ans, SendRoot
  PROVE  Ans'
<1>1. UNCHANGED <<id, pc, chan, result, reader, hand, served, handlers, stdout>>
  BY DEF SendRoot, client
<1>2. CASE stdin' = stdin
  BY <1>1, <1>2, QuietAns
<1>3. CASE stdin' = Append(stdin, Answer(0, None, TRUE))
  <2>1. Calm /\ \A c \in Calls : Asked(c)' <=> Asked(c)
    BY <1>1 DEF Calm, Sent, Asked, IsRequest
  <2>2. \A c \in Calls : \A ok : Over(c, ok) => Over(c, ok)'
    BY <2>1, CalmOver
  <2>3. CallsSound' /\ HandlersSound'
    BY <1>1, <2>1, CallsStay, HandlersStay DEF Ans
  <2>4. RequestsSound'
    <3>1. \A f : RequestSound(f) => RequestSound(f)'
      BY <1>1, <2>1 DEF RequestSound, Calm, Worked
    <3> QED
      BY <1>1, <3>1 DEF Ans, RequestsSound, IsRequest
  <2>5. PICK root \in Answers : root.id = 0 /\ stdin' = Append(stdin, root)
    <3>1. [id |-> 0, from |-> None, ok |-> TRUE] \in Answers
      BY DEF Answers, Callers
    <3> QED
      BY <1>3, <3>1 DEF Answer
  <2>6. \A i \in 1 .. Len(stdin') :
           stdin'[i].id = 0 \/ (i \in 1 .. Len(stdin) /\ stdin'[i] = stdin[i])
    <3>1. /\ Len(stdin') = Len(stdin) + 1
          /\ \A i \in 1 .. Len(stdin) + 1 :
                \/ i = Len(stdin) + 1 /\ stdin'[i] = root
                \/ i \in 1 .. Len(stdin) /\ stdin'[i] = stdin[i]
      BY <2>5, Added DEF TypeOK, PipesType
    <3> QED
      BY <2>5, <3>1
  <2>7. \A i \in 1 .. Len(stdin') : stdin'[i].id = 0 \/ AnswerSound(stdin[i])'
    <3>1. \A a : AnswerSound(a) => AnswerSound(a)'
      BY <1>1, <2>2 DEF AnswerSound
    <3> QED
      BY <2>6, <3>1 DEF Ans, AnswersSound
  <2>8. AnswersSound'
    BY <1>1, <2>2, <2>7 DEF Ans, AnswersSound, Ind, ReaderSound
  <2> QED
    BY <2>3, <2>4, <2>8 DEF Ans
<1> QED
  BY <1>2, <1>3 DEF SendRoot

\* The request that the host takes goes from the pipe to a handler of its own.
LEMMA TakeRequestAns ==
  ASSUME TypeOK, TypeOK', Ind, Ans, TakeRequest
  PROVE  Ans'
<1>1. /\ UNCHANGED <<id, pc, chan, result, reader, hand, stdin, served>>
      /\ stdout # <<>> /\ stdout' = Tail(stdout)
      /\ Head(stdout).kind = "request"
      /\ handlers' = handlers \cup
            {[id |-> Head(stdout).id, from |-> Head(stdout).from, answer |-> "spawned"]}
  BY DEF TakeRequest, Take, client, process
<1>2. /\ 1 \in 1 .. Len(stdout) /\ Head(stdout) = stdout[1]
      /\ \A i \in 1 .. Len(stdout') : i + 1 \in 1 .. Len(stdout) /\ stdout'[i] = stdout[i + 1]
      /\ Len(stdout') \in Nat
  BY <1>1, Dropped DEF TypeOK, PipesType
<1>3. IsRequest(1) /\ RequestSound(Head(stdout))
  BY <1>1, <1>2 DEF Ans, RequestsSound, IsRequest
<1>4. PICK h : h = [id |-> Head(stdout).id, from |-> Head(stdout).from, answer |-> "spawned"]
  OBVIOUS
<1>5. /\ h.from \in Calls /\ h.id = id[h.from] /\ Sent(h.from) /\ served[h.from] = 0
      /\ ~Worked(h.from) /\ Asked(h.from) /\ h.answer = "spawned"
      /\ handlers' = handlers \cup {h}
  BY <1>1, <1>2, <1>3, <1>4 DEF RequestSound, Asked
<1>6. /\ \A c \in Calls : Sent(c)' <=> Sent(c)
      /\ \A c \in Calls : c # h.from => (Worked(c)' <=> Worked(c))
      /\ \A i \in 1 .. Len(stdout') : IsRequest(i)' =>
            IsRequest(i + 1) /\ i + 1 # 1 /\ stdout'[i].from # h.from
      /\ \A c \in Calls : Asked(c)' => Asked(c)
  <2>1. \A c \in Calls : Sent(c)' <=> Sent(c)
    BY <1>1 DEF Sent
  <2>2. \A c \in Calls : c # h.from => (Worked(c)' <=> Worked(c))
    BY <1>5 DEF Worked
  <2>3. \A i \in 1 .. Len(stdout') : IsRequest(i)' =>
           IsRequest(i + 1) /\ i + 1 # 1 /\ stdout'[i].from # h.from
    BY <1>2, <1>3, <1>4 DEF Ans, RequestsSound, IsRequest
  <2>4. \A c \in Calls : Asked(c)' => Asked(c)
    BY <1>2, <2>3 DEF Asked
  <2> QED
    BY <2>1, <2>2, <2>3, <2>4
<1>7. \A c \in Calls : \A ok : Over(c, ok) => Over(c, ok)'
  BY <1>1, <1>5, <1>6 DEF Over
<1>8. CallsSound'
  BY <1>1, <1>6, <1>7 DEF Ans, CallsSound
<1>9. RequestsSound'
  <2>1. \A f : RequestSound(f) /\ f.from # h.from => RequestSound(f)'
    BY <1>1, <1>6 DEF RequestSound
  <2>2. \A i \in 1 .. Len(stdout') : IsRequest(i)' => RequestSound(stdout[i])'
    <3> SUFFICES ASSUME NEW i \in 1 .. Len(stdout'), IsRequest(i)'
                 PROVE  RequestSound(stdout[i])'
      OBVIOUS
    <3>1. RequestSound(stdout[i + 1]) /\ stdout'[i] = stdout[i + 1] /\ stdout'[i].from # h.from
      BY <1>2, <1>6 DEF Ans, RequestsSound
    <3> QED
      BY <2>1, <3>1
  <2>3. ASSUME NEW i \in 1 .. Len(stdout'), NEW j \in 1 .. Len(stdout'),
               IsRequest(i)', IsRequest(j)', stdout'[i].from = stdout'[j].from
        PROVE  i = j
    <3>1. i + 1 = j + 1
      BY <1>2, <1>6, <2>3 DEF Ans, RequestsSound
    <3> QED
      BY <3>1
  <2> QED
    BY <2>2, <2>3 DEF RequestsSound
<1>10. HandlersSound'
  <2>1. \A g : HandlerSound(g) => HandlerSound(g)'
    BY <1>1, <1>6 DEF HandlerSound
  <2>2. HandlerSound(h)'
    BY <1>1, <1>5, <1>6 DEF HandlerSound
  <2>3. \A g \in handlers : g.from # h.from
    BY <1>5 DEF Worked
  <2> QED
    BY <1>5, <2>1, <2>2, <2>3 DEF Ans, HandlersSound
<1>11. AnswersSound'
  <2>1. \A a : AnswerSound(a) => AnswerSound(a)'
    BY <1>1, <1>7 DEF AnswerSound
  <2>2. \A i \in 1 .. Len(stdin') : stdin'[i].id = 0 \/ AnswerSound(stdin[i])'
    BY <1>1, <2>1 DEF Ans, AnswersSound
  <2> QED
    BY <1>1, <1>7, <2>2 DEF Ans, AnswersSound, Ind, ReaderSound
<1> QED
  BY <1>8, <1>9, <1>10, <1>11 DEF Ans

\* A handler's stage changes, and its capability runs when it leaves the first one.
LEMMA TurnedAns ==
  ASSUME TypeOK, TypeOK', Ind, Ans, NEW h \in handlers, HandlerStarts(h) \/ HandlerEnds(h)
  PROVE  /\ Ans'
         /\ \/ served' = served
            \/ h.from \in Calls /\ served[h.from] = 0 /\ served' = [served EXCEPT ![h.from] = 1]
<1>1. UNCHANGED <<id, pc, chan, result, reader, hand, stdin, stdout>>
  BY DEF HandlerStarts, HandlerEnds, client, pipes
<1>2. HandlerSound(h) /\ h \in [id : Nat, from : Callers, answer : Stages]
  BY DEF Ans, HandlersSound, TypeOK, LoopType
<1>3. PICK a \in Stages : /\ Turned(h, a)
                          /\ \/ /\ h.answer = "spawned" /\ a = "running"
                                /\ served' = [served EXCEPT ![h.from] = @ + 1]
                             \/ served' = served /\ a = "error"
                             \/ served' = served /\ h.answer = "running" /\ a = "ok"
  BY DEF HandlerStarts, HandlerEnds, Stages
<1>4. \/ /\ h.answer = "spawned" /\ a = "running" /\ served[h.from] = 0
         /\ served' = [served EXCEPT ![h.from] = 1]
      \/ served' = served /\ a = "error"
      \/ served' = served /\ h.answer = "running" /\ a = "ok"
  BY <1>2, <1>3 DEF HandlerSound, TypeOK, LoopType
<1>5. PICK g : g = [h EXCEPT !.answer = a]
  OBVIOUS
<1>6. /\ g.from = h.from /\ g.id = h.id /\ g.answer = a
      /\ handlers' = (handlers \ {h}) \cup {g}
  BY <1>2, <1>3, <1>5 DEF Turned
<1>7. /\ \A c \in Calls : Sent(c)' <=> Sent(c)
      /\ \A c \in Calls : Worked(c)' <=> Worked(c)
      /\ \A c \in Calls : Asked(c)' <=> Asked(c)
      /\ \A c \in Calls : ~Worked(c) => served'[c] = served[c]
  <2>1. (\A c \in Calls : Sent(c)' <=> Sent(c)) /\ \A c \in Calls : Asked(c)' <=> Asked(c)
    BY <1>1 DEF Sent, Asked, IsRequest
  <2>2. \A c \in Calls : Worked(c)' <=> Worked(c)
    BY <1>6 DEF Worked
  <2>3. \A c \in Calls : c # h.from => served'[c] = served[c]
    BY <1>4 DEF TypeOK, LoopType
  <2> QED
    BY <2>1, <2>2, <2>3 DEF Worked
<1>8. \A c \in Calls : \A ok : Over(c, ok) => Over(c, ok)'
  BY <1>7 DEF Over
<1>9. CallsSound'
  <2>1. \A c \in Calls : ~Sent(c) => ~Worked(c)
    BY DEF Ans, HandlersSound, HandlerSound, Worked
  <2> QED
    BY <1>1, <1>7, <1>8, <2>1 DEF Ans, CallsSound
<1>10. RequestsSound'
  <2>1. \A f : RequestSound(f) => RequestSound(f)'
    BY <1>1, <1>7 DEF RequestSound
  <2> QED
    BY <1>1, <2>1 DEF Ans, RequestsSound, IsRequest
<1>11. HandlersSound'
  <2>1. HandlerSound(g)'
    <3>1. served'[h.from] = 1 \/ a = "error"
      BY <1>2, <1>4 DEF HandlerSound, TypeOK, LoopType
    <3>2. a \in {"running", "ok", "error"}
      BY <1>4
    <3> QED
      BY <1>1, <1>2, <1>6, <1>7, <3>1, <3>2 DEF HandlerSound
  <2>2. ASSUME NEW f \in handlers, f # h
        PROVE  HandlerSound(f)' /\ f.from # h.from
    <3>1. f.from # h.from /\ HandlerSound(f)
      BY <2>2 DEF Ans, HandlersSound
    <3>2. served'[f.from] = served[f.from]
      BY <1>4, <3>1 DEF TypeOK, LoopType, HandlerSound
    <3> QED
      BY <1>1, <1>7, <3>1, <3>2 DEF HandlerSound
  <2> QED
    BY <1>6, <2>1, <2>2 DEF Ans, HandlersSound
<1>12. AnswersSound'
  <2>1. \A b : AnswerSound(b) => AnswerSound(b)'
    BY <1>1, <1>8 DEF AnswerSound
  <2>2. \A i \in 1 .. Len(stdin') : stdin'[i].id = 0 \/ AnswerSound(stdin[i])'
    BY <1>1, <2>1 DEF Ans, AnswersSound
  <2> QED
    BY <1>1, <1>8, <2>2 DEF Ans, AnswersSound, Ind, ReaderSound
<1> QED
  BY <1>2, <1>4, <1>9, <1>10, <1>11, <1>12 DEF Ans, HandlerSound

\* A handler answers for the request it was started for, and is through with it.
LEMMA ReplyAns ==
  ASSUME TypeOK, TypeOK', Ind, Ans, NEW h \in handlers, HandlerReplies(h)
  PROVE  Ans'
<1>1. /\ UNCHANGED <<id, pc, chan, result, reader, hand, stdout, served>>
      /\ handlers' = handlers \ {h} /\ h.answer \in {"ok", "error"}
  BY DEF HandlerReplies, client
<1>2. HandlerSound(h) /\ h \in [id : Nat, from : Callers, answer : Stages]
  BY DEF Ans, HandlersSound, TypeOK, LoopType
<1>3. /\ \A c \in Calls : Sent(c)' <=> Sent(c)
      /\ \A c \in Calls : Worked(c)' => Worked(c)
      /\ \A c \in Calls : Asked(c)' <=> Asked(c)
  BY <1>1 DEF Sent, Asked, IsRequest, Worked
<1>4. \A c \in Calls : \A ok : Over(c, ok) => Over(c, ok)'
  BY <1>1, <1>3 DEF Over
<1>5. CallsSound'
  BY <1>1, <1>3, <1>4 DEF Ans, CallsSound
<1>6. RequestsSound'
  <2>1. \A f : RequestSound(f) => RequestSound(f)'
    BY <1>1, <1>3 DEF RequestSound
  <2> QED
    BY <1>1, <2>1 DEF Ans, RequestsSound, IsRequest
<1>7. HandlersSound'
  <2>1. \A g : HandlerSound(g) => HandlerSound(g)'
    BY <1>1, <1>3 DEF HandlerSound
  <2> QED
    BY <1>1, <2>1 DEF Ans, HandlersSound
<1>8. PICK a : a = [id |-> h.id, from |-> h.from, ok |-> h.answer = "ok"]
  OBVIOUS
<1>9. a \in Answers /\ AnswerSound(a)'
  <2>1. a \in Answers /\ a.id = h.id /\ a.from = h.from /\ a.ok = (h.answer = "ok")
    BY <1>2, <1>8 DEF Answers
  <2>2. ~Worked(h.from)'
    BY <1>1 DEF Ans, HandlersSound, Worked
  <2>3. ~Asked(h.from)
    BY DEF Ans, RequestsSound, RequestSound, Asked, Worked
  <2>4. Over(h.from, a.ok)'
    BY <1>1, <1>2, <1>3, <2>1, <2>2, <2>3 DEF HandlerSound, Over
  <2> QED
    BY <1>1, <1>2, <2>1, <2>4 DEF AnswerSound, HandlerSound, Over
<1>10. \A i \in 1 .. Len(stdin') : stdin'[i].id = 0 \/ AnswerSound(stdin[i])'
  <2>1. \A b : AnswerSound(b) => AnswerSound(b)'
    BY <1>1, <1>4 DEF AnswerSound
  <2>2. CASE stdin' = stdin
    BY <2>1, <2>2 DEF Ans, AnswersSound
  <2>3. CASE stdin' = Append(stdin, a)
    <3>1. \A i \in 1 .. Len(stdin') : \/ stdin'[i] = a
                                      \/ i \in 1 .. Len(stdin) /\ stdin'[i] = stdin[i]
      BY <1>9, <2>3, Added DEF TypeOK, PipesType
    <3> SUFFICES ASSUME NEW i \in 1 .. Len(stdin')
                 PROVE  stdin'[i].id = 0 \/ AnswerSound(stdin[i])'
      OBVIOUS
    <3>2. CASE stdin'[i] = a
      BY <1>9, <3>2 DEF AnswerSound, Over
    <3>3. CASE i \in 1 .. Len(stdin) /\ stdin'[i] = stdin[i]
      BY <2>1, <3>3 DEF Ans, AnswersSound
    <3> QED
      BY <3>1, <3>2, <3>3
  <2> QED
    BY <1>8, <2>2, <2>3 DEF HandlerReplies, Answer
<1>11. AnswersSound'
  BY <1>1, <1>4, <1>10 DEF Ans, AnswersSound, Ind, ReaderSound
<1> QED
  BY <1>5, <1>6, <1>7, <1>11 DEF Ans
-----------------------------------------------------------------------------
(***************************************************************************)
(* The theorems.                                                           *)
(***************************************************************************)
\* Every step keeps Ans.
LEMMA NextAns ==
  ASSUME TypeOK, TypeOK', Ind, Ans, [Next]_vars
  PROVE  Ans'
<1>1. CASE \E c \in Calls : CallHost(c)
  BY <1>1, UnsentAns, SendAns, ReceiveAns DEF CallHost
<1>2. CASE readLoop
  BY <1>2, ReadAnswerAns, ReaderAns DEF readLoop
<1>3. CASE Accept \/ Reject \/ Respond \/ Exit \/ EmitHostEvent \/ Faults \/ Deadline
  BY <1>3, ProcessAns
<1>4. CASE invokeFramed
  BY <1>4, SendRootAns, TakeRequestAns, LoopAns DEF invokeFramed
<1>5. CASE Handler
  BY <1>5, TurnedAns, ReplyAns DEF Handler
<1>6. CASE UNCHANGED vars
  BY <1>6, QuietAns DEF vars, client, pipes, loop
<1> QED
  BY <1>1, <1>2, <1>3, <1>4, <1>5, <1>6 DEF Next

\* The invariant holds in every session.
LEMMA AnsAlways == Spec => [](TypeOK /\ Ind /\ Ans)
<1>1. Init => Ans
  BY InitAns
<1> QED
  BY TypeCorrect, InitInd, NextInd, <1>1, NextAns, PTL DEF Spec

\* A capability call gets the host's answer to its own request, and a successful one of a
\* capability that ran once for it, however requests, handlers and answers of concurrent
\* calls overtake.
THEOREM OwnAnswerTheorem == Spec => []OwnAnswer
<1>1. Ans => OwnAnswer
  BY DEF Ans, CallsSound, Over, OwnAnswer
<1> QED
  BY AnsAlways, <1>1, PTL

\* A frame that is written or left keeps the successful root frames sound.
LEMMA RootFrames ==
  ASSUME TypeOK, SuccessSound,
         \/ \E k \in {0, 1} : Suffix(stdout', stdout, k) /\ Len(stdout') \in Nat
         \/ \E f \in Frames : stdout' = Append(stdout, f) /\ (f.kind = "rootOK" => main' = "responded"),
         main = "responded" => main' = "responded"
  PROVE  \A i \in 1 .. Len(stdout') : stdout'[i].kind = "rootOK" => main' = "responded"
<1>1. ASSUME NEW k \in {0, 1}, Suffix(stdout', stdout, k)
      PROVE  \A i \in 1 .. Len(stdout') : stdout'[i].kind = "rootOK" => main' = "responded"
  BY <1>1 DEF Suffix, SuccessSound
<1>2. ASSUME NEW f \in Frames, stdout' = Append(stdout, f), f.kind = "rootOK" => main' = "responded"
      PROVE  \A i \in 1 .. Len(stdout') : stdout'[i].kind = "rootOK" => main' = "responded"
  <2>1. /\ Len(stdout') = Len(stdout) + 1
        /\ \A i \in 1 .. Len(stdout) + 1 :
              \/ i = Len(stdout) + 1 /\ stdout'[i] = f
              \/ i \in 1 .. Len(stdout) /\ stdout'[i] = stdout[i]
    BY <1>2, Added DEF TypeOK, PipesType
  <2> QED
    BY <1>2, <2>1 DEF SuccessSound
<1> QED
  BY <1>1, <1>2

\* No step but the handler's return makes a successful root frame, and none but Wait
\* reports success, of a plugin that has ended.
LEMMA NextSuccess ==
  ASSUME TypeOK, TypeOK', SuccessSound, [Next]_vars
  PROVE  SuccessSound'
<1>1. /\ main = "responded" => main' = "responded"
      /\ proc = "ok" => proc' = "ok"
      /\ proc = "ok" /\ ~stderrFull => ~stderrFull'
  <2>1. CASE (\E c \in Calls : CallHost(c)) \/ readLoop \/ Handler
    BY <2>1 DEF CallHost, Begin, Register, Send, Forget, Receive, readLoop, ReadAnswer, Deliver,
                ReadEnd, CloseChan, Handler, HandlerStarts, HandlerEnds, HandlerReplies, process, loop
  <2>2. CASE Accept \/ Reject \/ Respond \/ Exit \/ EmitHostEvent \/ Faults \/ Deadline
    BY <2>2 DEF Accept, Reject, Respond, Exit, EmitHostEvent, Faults, Crash, PrintNoise,
                FloodStderr, Deadline, Alive, process, loop
  <2>3. CASE invokeFramed
    <3>1. CASE TakeGarbage \/ TakeOverLimit
      BY <3>1 DEF TakeGarbage, TakeOverLimit, Alive
    <3>2. CASE Wait
      BY <3>2 DEF Wait, process
    <3>3. CASE \/ SendRoot \/ RootWritten \/ TakeRequest \/ TakeEvent \/ TakeRoot \/ TakeStray
              \/ TakeEOF
      <4>1. UNCHANGED process /\ UNCHANGED stderrFull
        BY <3>3 DEF SendRoot, RootWritten, TakeRequest, TakeEvent, TakeRoot, TakeStray, TakeEOF
      <4> QED
        BY <4>1 DEF process
    <3> QED
      BY <2>3, <3>1, <3>2, <3>3 DEF invokeFramed
  <2>4. CASE UNCHANGED vars
    BY <2>4 DEF vars, process, loop
  <2> QED
    BY <2>1, <2>2, <2>3, <2>4 DEF Next
<1>2. \A i \in 1 .. Len(stdout') : stdout'[i].kind = "rootOK" => main' = "responded"
  <2>1. CASE \/ stdout' = stdout \/ stdout' = <<>>
             \/ (stdout # <<>> /\ stdout' = Tail(stdout))
    <3>1. \E k \in {0, 1} : Suffix(stdout', stdout, k)
      BY <2>1, SuffixOf DEF TypeOK, PipesType
    <3>2. Len(stdout') \in Nat
      BY DEF TypeOK, PipesType
    <3> QED
      BY <1>1, <3>1, <3>2, RootFrames
  <2>2. ASSUME NEW c \in Calls, stdout' = Append(stdout, Frame("request", id[c], c))
        PROVE  \A i \in 1 .. Len(stdout') : stdout'[i].kind = "rootOK" => main' = "responded"
    <3>1. /\ Frame("request", id[c], c) \in Frames
          /\ Frame("request", id[c], c).kind # "rootOK"
      BY DEF TypeOK, ClientType, Frame, Frames, Callers
    <3> QED
      BY <1>1, <2>2, <3>1, RootFrames
  <2>3. ASSUME NEW kind \in {"event", "rootOK", "rootFail", "garbage", "stray"}, WriteLine(kind),
               kind = "rootOK" => main' = "responded"
        PROVE  \A i \in 1 .. Len(stdout') : stdout'[i].kind = "rootOK" => main' = "responded"
    <3>1. Frame(kind, 0, None) \in Frames /\ Frame(kind, 0, None).kind = kind
      BY DEF Frame, Frames, Callers
    <3>2. stdout' = Append(stdout, Frame(kind, 0, None))
      BY <2>3 DEF WriteLine
    <3> QED
      BY <1>1, <2>3, <3>1, <3>2, RootFrames
  <2>4. CASE \E c \in Calls : CallHost(c)
    BY <2>1, <2>2, <2>4 DEF CallHost, Begin, Register, Send, Forget, Receive, pipes
  <2>5. CASE readLoop \/ Handler
    BY <2>1, <2>5 DEF readLoop, ReadAnswer, Deliver, ReadEnd, CloseChan, Handler, HandlerStarts,
                      HandlerEnds, HandlerReplies, pipes
  <2>6. CASE Accept \/ Exit \/ Crash \/ FloodStderr \/ Deadline
    BY <2>1, <2>6 DEF Accept, Exit, Crash, FloodStderr, Deadline, pipes
  <2>7. CASE Reject \/ Respond \/ EmitHostEvent \/ PrintNoise
    BY <2>1, <2>3, <2>7 DEF Reject, Respond, EmitHostEvent, PrintNoise
  <2>8. CASE invokeFramed
    BY <2>1, <2>8 DEF invokeFramed, SendRoot, RootWritten, TakeRequest, TakeEvent, TakeRoot, TakeStray,
                      TakeGarbage, TakeOverLimit, TakeEOF, Wait, Take
  <2>9. CASE UNCHANGED vars
    BY <2>1, <2>9 DEF vars, pipes
  <2> QED
    BY <2>4, <2>5, <2>6, <2>7, <2>8, <2>9 DEF Next, Faults
<1>3. /\ verdict' = "rootOK" => main' = "responded"
      /\ outcome' = "ok" => outcome = "ok" \/ (verdict = "rootOK" /\ proc' = "ok" /\ ~stderrFull')
  <2>1. CASE UNCHANGED <<verdict, outcome>>
    BY <1>1, <2>1 DEF SuccessSound
  <2>2. CASE TakeRoot
    <3>1. stdout # <<>> /\ (verdict' = "rootOK" => Head(stdout).kind = "rootOK")
          /\ outcome' = outcome /\ main' = main
      BY <2>2 DEF TakeRoot, Take, Leave, process
    <3>2. 1 \in 1 .. Len(stdout) /\ Head(stdout) = stdout[1]
      BY <3>1, Dropped DEF TypeOK, PipesType
    <3> QED
      BY <3>1, <3>2 DEF SuccessSound
  <2>3. CASE \/ SendRoot \/ RootWritten \/ TakeStray \/ TakeGarbage \/ TakeOverLimit
             \/ TakeEOF
    BY <1>1, <2>3 DEF SuccessSound, SendRoot, RootWritten, TakeStray, TakeGarbage, TakeOverLimit, TakeEOF, Leave
  <2>4. CASE Wait
    <3>1. verdict' = verdict /\ UNCHANGED <<process, stderrFull>>
      BY <2>4 DEF Wait
    <3>2. outcome' = "ok" => verdict = "rootOK" /\ ~stderrFull /\ proc = "ok"
      BY <2>4 DEF Wait
    <3> QED
      BY <1>1, <3>1, <3>2 DEF SuccessSound, process
  <2>5. CASE TakeRequest \/ TakeEvent
    BY <2>1, <2>5 DEF TakeRequest, TakeEvent
  <2>6. CASE (\E c \in Calls : CallHost(c)) \/ readLoop \/ Handler
    BY <2>1, <2>6 DEF CallHost, Begin, Register, Send, Forget, Receive, readLoop, ReadAnswer,
                      Deliver, ReadEnd, CloseChan, Handler, HandlerStarts, HandlerEnds, HandlerReplies, loop
  <2>7. CASE Accept \/ Reject \/ Respond \/ Exit \/ EmitHostEvent \/ Faults \/ Deadline
    BY <2>1, <2>7 DEF Accept, Reject, Respond, Exit, EmitHostEvent, Faults, Crash, PrintNoise,
                      FloodStderr, Deadline, loop
  <2>8. CASE UNCHANGED vars
    BY <2>1, <2>8 DEF vars, loop
  <2> QED
    BY <2>2, <2>3, <2>4, <2>5, <2>6, <2>7, <2>8 DEF Next, invokeFramed
<1> QED
  BY <1>1, <1>2, <1>3 DEF SuccessSound

\* Success is reported only of a plugin whose handler responded, that ended by itself
\* with status 0 and whose output was kept whole.
THEOREM SuccessTheorem == Spec => []SuccessIsReal
<1>1. Init => SuccessSound
  BY InitAns
<1>2. SuccessSound => SuccessIsReal
  BY DEF SuccessSound, SuccessIsReal
<1> QED
  BY TypeCorrect, <1>1, NextSuccess, <1>2, PTL DEF Spec
-----------------------------------------------------------------------------
(***************************************************************************)
(* The session implements CapabilityCalls.                                 *)
(***************************************************************************)
\* The calls whose capability the host started.
Run == {c \in Calls : served[c] > 0}

\* The kinds of the results of a call that failed before it was sent.
Unsent == {"badPayload", "unregistered", "writeErr"}

\* A step that starts nothing and changes no result is a stutter of the abstract calls.
LEMMA StutterAbs ==
  ASSUME UNCHANGED <<served, result>>
  PROVE  UNCHANGED Abs!vars
  BY DEF Abs!vars, Returned

\* A call returns one of its kinds, and leaves what the others returned.
LEMMA ReturnedOne ==
  ASSUME TypeOK, NEW c \in Calls, NEW res, result[c].kind = "none",
         result' = [result EXCEPT ![c] = res], NEW K, "none" \notin K
  PROVE  /\ c \notin Returned(K)
         /\ Returned(K)' = IF res.kind \in K THEN Returned(K) \cup {c} ELSE Returned(K)
<1>1. result'[c] = res /\ \A d \in Calls : d # c => result'[d] = result[d]
  BY DEF TypeOK, ClientType
<1> QED
  BY <1>1 DEF Returned

\* A call that returns an answer, a refusal, the end of the session or its own failure is
\* one step of the abstract call.
LEMMA ReturnAbs ==
  ASSUME TypeOK, Ans, NEW c \in Calls, NEW res, res.kind \in {"answer", "refused", "readErr"} \cup Unsent,
         pc[c] # "done", res.kind = "answer" => served[c] = 1, res.kind \in Unsent => served[c] = 0,
         result' = [result EXCEPT ![c] = res], served' = served
  PROVE  Abs!Next
<1>1. result[c].kind = "none"
  BY DEF Ans, CallsSound
<1>2. /\ Run' = Run
      /\ res.kind = "answer" => c \in Run
      /\ res.kind \in Unsent => c \notin Run
  BY DEF Run
<1>3. /\ c \notin Returned({"answer"}) /\ c \notin Returned({"refused"})
      /\ c \notin Returned({"readErr"}) /\ c \notin Returned(Unsent)
      /\ Returned({"answer"})' =
            IF res.kind = "answer" THEN Returned({"answer"}) \cup {c} ELSE Returned({"answer"})
      /\ Returned({"refused"})' =
            IF res.kind = "refused" THEN Returned({"refused"}) \cup {c} ELSE Returned({"refused"})
      /\ Returned({"readErr"})' =
            IF res.kind = "readErr" THEN Returned({"readErr"}) \cup {c} ELSE Returned({"readErr"})
      /\ Returned(Unsent)' =
            IF res.kind \in Unsent THEN Returned(Unsent) \cup {c} ELSE Returned(Unsent)
  <2>1. /\ "none" \notin {"answer"} /\ "none" \notin {"refused"} /\ "none" \notin {"readErr"}
        /\ "none" \notin Unsent
    BY DEF Unsent
  <2> QED
    BY <1>1, <2>1, ReturnedOne
<1>4. CASE res.kind = "answer"
  BY <1>2, <1>3, <1>4 DEF Unsent, Run, Abs!Next, Abs!Answer, Abs!Open
<1>5. CASE res.kind = "refused"
  BY <1>2, <1>3, <1>5 DEF Unsent, Run, Abs!Next, Abs!Refuse, Abs!Open
<1>6. CASE res.kind = "readErr"
  BY <1>2, <1>3, <1>6 DEF Unsent, Run, Abs!Next, Abs!Lose, Abs!Open
<1>7. CASE res.kind \in Unsent
  BY <1>2, <1>3, <1>7 DEF Unsent, Run, Abs!Next, Abs!Withdraw, Abs!Open
<1> QED
  BY <1>4, <1>5, <1>6, <1>7

\* Every step of a CallHost returns something or is a stutter.
LEMMA CallAbs ==
  ASSUME TypeOK, Ind, Ans, NEW c \in Calls, CallHost(c)
  PROVE  Abs!Next \/ UNCHANGED <<served, result>>
<1>1. served' = served
  BY DEF CallHost, Begin, Register, Send, Forget, Receive, loop
<1>2. CASE Begin(c) \/ Register(c) \/ Forget(c)
  <2>1. pc[c] \in {"idle", "numbered", "unsent"} /\ served[c] = 0
    BY <1>2 DEF Begin, Register, Forget, Ans, CallsSound, Sent
  <2>2. \/ result' = result
        \/ \E kind \in Unsent : result' = [result EXCEPT ![c] = Outcome(kind, None)]
    BY <1>2 DEF Begin, Register, Forget, Unsent
  <2>3. \A kind \in Unsent : Outcome(kind, None).kind = kind /\ kind # "answer"
    BY DEF Outcome, Unsent
  <2> QED
    BY <1>1, <2>1, <2>2, <2>3, ReturnAbs
<1>3. CASE Receive(c)
  <2>1. PICK res : res = IF chan[c] = Closed THEN Outcome("readErr", None) ELSE chan[c]
    OBVIOUS
  <2>2. result' = [result EXCEPT ![c] = res] /\ pc[c] = "waiting" /\ chan[c] # Empty
    BY <1>3, <2>1 DEF Receive
  <2>3. /\ res.kind \in {"answer", "refused", "readErr"}
        /\ res.kind = "answer" => res = chan[c]
    BY <2>1, <2>2 DEF TypeOK, ClientType, Outcome
  <2>4. res.kind = "answer" => served[c] = 1
    BY <2>3 DEF Ans, CallsSound, Over
  <2> QED
    BY <1>1, <2>2, <2>3, <2>4, ReturnAbs DEF Unsent
<1>4. CASE Send(c)
  BY <1>4 DEF Send, loop
<1> QED
  BY <1>2, <1>3, <1>4 DEF CallHost

\* A capability starts for a call that has returned nothing, or the end of its session.
LEMMA ServeAbs ==
  ASSUME TypeOK, TypeOK', Ind, Ans, NEW h \in handlers, HandlerStarts(h) \/ HandlerEnds(h)
  PROVE  Abs!Next \/ UNCHANGED <<served, result>>
<1>1. result' = result
  BY DEF HandlerStarts, HandlerEnds, client
<1>2. ASSUME h.from \in Calls, served[h.from] = 0, served' = [served EXCEPT ![h.from] = 1]
      PROVE  Abs!Next
  <2>1. PICK c \in Calls : c = h.from
    BY <1>2
  <2>2. served'[c] = 1 /\ \A d \in Calls : d # c => served'[d] = served[d]
    BY <1>2, <2>1 DEF TypeOK, LoopType
  <2>3. Run' = Run \cup {c} /\ c \notin Run
    BY <1>2, <2>1, <2>2 DEF Run
  <2>4. /\ c \notin Returned({"answer"}) /\ c \notin Returned({"refused"})
        /\ c \notin Returned(Unsent)
    <3>1. Sent(c) /\ Worked(c)
      BY <2>1 DEF Ans, HandlersSound, HandlerSound, Worked
    <3> QED
      BY <3>1 DEF Ans, CallsSound, Over, Sent, Returned, Unsent
  <2>5. \A K : Returned(K)' = Returned(K)
    BY <1>1 DEF Returned
  <2>6. Abs!Serve(c)
    BY <2>3, <2>4, <2>5 DEF Abs!Serve, Abs!Open, Run, Unsent
  <2> QED
    BY <2>6 DEF Abs!Next
<1> QED
  BY <1>1, <1>2, TurnedAns

\* CallHost is the at-most-once call of CapabilityCalls, in every session: a capability runs
\* once at most and for no call that failed to send its request, an answer comes of one that
\* ran, a call returns once, and after it returned only a call that lost its session may
\* still be served.
THEOREM ImplementsCallsTheorem == Spec => ImplementsCalls
<1>1. Init => Abs!Init
  BY DEF Init, Abs!Init, Returned, Outcome
<1>2. ASSUME TypeOK, TypeOK', Ind, Ans, [Next]_vars
      PROVE  [Abs!Next]_(Abs!vars)
  <2>1. CASE \E c \in Calls : CallHost(c)
    BY <1>2, <2>1, CallAbs, StutterAbs
  <2>2. CASE Handler
    <3>1. PICK h \in handlers : HandlerStarts(h) \/ HandlerEnds(h) \/ HandlerReplies(h)
      BY <2>2 DEF Handler
    <3>2. CASE HandlerStarts(h) \/ HandlerEnds(h)
      BY <1>2, <3>2, ServeAbs, StutterAbs
    <3>3. CASE HandlerReplies(h)
      BY <3>3, StutterAbs DEF HandlerReplies, client
    <3> QED
      BY <3>1, <3>2, <3>3
  <2>3. CASE readLoop
    BY <2>3, StutterAbs DEF readLoop, ReadAnswer, Deliver, ReadEnd, CloseChan, loop
  <2>4. CASE Accept \/ Reject \/ Respond \/ Exit \/ EmitHostEvent \/ Faults \/ Deadline
    BY <2>4, StutterAbs DEF Accept, Reject, Respond, Exit, EmitHostEvent, Faults, Crash,
                            PrintNoise, FloodStderr, Deadline, client, loop
  <2>5. CASE invokeFramed
    <3>1. UNCHANGED served /\ UNCHANGED client
      BY <2>5 DEF invokeFramed, SendRoot, RootWritten, TakeRequest, TakeEvent, TakeRoot,
                  TakeStray, TakeGarbage, TakeOverLimit, TakeEOF, Wait
    <3> QED
      BY <3>1, StutterAbs DEF client
  <2>6. CASE UNCHANGED vars
    BY <2>6, StutterAbs DEF vars, client, loop
  <2> QED
    BY <1>2, <2>1, <2>2, <2>3, <2>4, <2>5, <2>6 DEF Next
<1> QED
  BY AnsAlways, <1>1, <1>2, PTL DEF Spec, ImplementsCalls, Abs!Spec
=============================================================================
