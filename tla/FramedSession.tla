---------------------------- MODULE FramedSession ----------------------------
(***************************************************************************)
(* One plugin invocation over the v2 framed stdio protocol.  On the host   *)
(* side StdioPlugin.invokeFramed (pluginruntime/runtime.go) writes the     *)
(* root request, reads frames in a loop, and answers each capability       *)
(* request from a goroutine of its own.  On the plugin side Serve and      *)
(* frameHostClient (protocol/pluginmain.go) let any number of goroutines   *)
(* call the host at once: readLoop owns stdin and routes each answer to    *)
(* the channel registered for its id.  The two sides share two pipes and   *)
(* the life of the plugin process.                                         *)
(*                                                                         *)
(* A lock-protected section, or a decode followed by its locked section,   *)
(* is one step.  A frame is one element of a pipe; a blocked write is a    *)
(* disabled step, which also stands for the writers queued behind it on    *)
(* writeMu or encMu.                                                       *)
(***************************************************************************)
EXTENDS Naturals, Sequences

CONSTANTS Calls,        \* the goroutines of the plugin that call CallHost, once each
          None,         \* no call
          PipeCap,      \* frames a pipe holds before a write blocks
          OutputLimit,  \* frames of stdout the host reads (OutputLimit bytes in the code)
          MaxExtra      \* bound on events and on ill-formed frames the plugin prints, together

ASSUME SessionAssumption ==
    /\ None \notin Calls
    /\ PipeCap \in Nat \ {0}
    /\ OutputLimit \in Nat /\ MaxExtra \in Nat

VARIABLES
    \* the plugin's frameHostClient
    nextID,      \* the atomic id counter
    id,          \* id[c]: the id CallHost c allocated
    pc,          \* pc[c]: how far CallHost c is
    chan,        \* chan[c]: the buffered channel CallHost c waits on
    result,      \* result[c]: what CallHost c returned
    waiters,     \* the waiters map: a set of [id, call]
    reader,      \* readLoop: off, reading, routing, closing or gone
    hand,        \* the answer and the channel readLoop is about to send on
    closing,     \* the channels readLoop still has to close
    readErr,     \* readErr is set
    encErr,      \* the encoder failed; json.Encoder repeats its first error
    \* the plugin process
    main,        \* Serve: starting, handling or responded
    proc,        \* running, ok (exit 0), bad (exit 1) or killed
    extra,       \* how many events and ill-formed frames it printed
    \* the pipes
    stdin, stdout, stdinClosed,
    \* the host's invokeFramed
    host,        \* sending, writing, reading, waiting (in cmd.Wait) or returned
    verdict,     \* what the loop left with: root frame or error
    outcome,     \* what invokeFramed returned
    budget,      \* what limitedReadCloser still lets through
    stderrFull,  \* the stderr limitedBuffer truncated
    handlers,    \* the goroutines for callHost: a set of [id, from, answer]
    served       \* served[c]: how often the capability ran for the request of c

client == <<nextID, id, pc, chan, result, waiters, reader, hand, closing, readErr, encErr>>
process == <<main, proc, extra>>
pipes == <<stdin, stdout, stdinClosed>>
loop == <<host, verdict, outcome, budget, stderrFull, handlers, served>>
vars == <<client, process, pipes, loop>>
-----------------------------------------------------------------------------
NoHand == [call |-> None, from |-> None, ok |-> FALSE]
Frame(kind, n, c) == [kind |-> kind, id |-> n, from |-> c]
Answer(n, c, ok) == [id |-> n, from |-> c, ok |-> ok]
Empty == [kind |-> "empty", from |-> None]
Closed == [kind |-> "closed", from |-> None]
Outcome(kind, c) == [kind |-> kind, from |-> c]

Alive == proc = "running"

\* CallHost c has registered its channel and has not returned.
InFlight(c) == pc[c] \in {"registered", "unsent", "waiting"}

Init ==
    /\ nextID = 0
    /\ id = [c \in Calls |-> 0]
    /\ pc = [c \in Calls |-> "idle"]
    /\ chan = [c \in Calls |-> Empty]
    /\ result = [c \in Calls |-> Outcome("none", None)]
    /\ waiters = {}
    /\ reader = "off"
    /\ hand = NoHand
    /\ closing = {}
    /\ readErr = FALSE
    /\ encErr = FALSE
    /\ main = "starting"
    /\ proc = "running"
    /\ extra = 0
    /\ stdin = <<>>
    /\ stdout = <<>>
    /\ stdinClosed = FALSE
    /\ host = "sending"
    /\ verdict = "none"
    /\ outcome = "none"
    /\ budget = OutputLimit
    /\ stderrFull = FALSE
    /\ handlers = {}
    /\ served = [c \in Calls |-> 0]
-----------------------------------------------------------------------------
(* The plugin's CallHost.                                                  *)

\* ensureReader and the allocation of the id; NewRequestFrame may refuse the
\* payload, and CallHost returns before anything is registered.
Begin_SharedID(c) ==
    /\ Alive /\ main = "handling" /\ pc[c] = "idle"
    /\ reader' = IF reader = "off" THEN "reading" ELSE reader
    /\ nextID' = nextID + 1
    /\ id' = [id EXCEPT ![c] = 1]
    /\ pc' = [pc EXCEPT ![c] = "numbered"]
    /\ UNCHANGED <<chan, result, waiters, hand, closing, readErr, encErr>>
    /\ UNCHANGED <<process, pipes, loop>>
Begin(c) ==
    /\ Alive /\ main = "handling" /\ pc[c] = "idle"
    /\ reader' = IF reader = "off" THEN "reading" ELSE reader
    /\ nextID' = nextID + 1
    /\ id' = [id EXCEPT ![c] = nextID + 1]
    /\ \/ /\ pc' = [pc EXCEPT ![c] = "numbered"]
          /\ UNCHANGED result
       \/ /\ pc' = [pc EXCEPT ![c] = "done"]
          /\ result' = [result EXCEPT ![c] = Outcome("badPayload", None)]
    /\ UNCHANGED <<chan, waiters, hand, closing, readErr, encErr>>
    /\ UNCHANGED <<process, pipes, loop>>

\* The locked section that checks readErr and registers the channel.
Register_Unchecked(c) ==
    /\ Alive /\ pc[c] = "numbered"
    /\ waiters' = waiters \cup {[id |-> id[c], call |-> c]}
    /\ pc' = [pc EXCEPT ![c] = "registered"]
    /\ UNCHANGED <<nextID, id, chan, result, reader, hand, closing, readErr, encErr>>
    /\ UNCHANGED <<process, pipes, loop>>
Register(c) ==
    /\ Alive /\ pc[c] = "numbered"
    /\ \/ /\ readErr
          /\ pc' = [pc EXCEPT ![c] = "done"]
          /\ result' = [result EXCEPT ![c] = Outcome("unregistered", None)]
          /\ UNCHANGED waiters
       \/ /\ ~readErr
          /\ waiters' = waiters \cup {[id |-> id[c], call |-> c]}
          /\ pc' = [pc EXCEPT ![c] = "registered"]
          /\ UNCHANGED result
    /\ UNCHANGED <<nextID, id, chan, reader, hand, closing, readErr, encErr>>
    /\ UNCHANGED <<process, pipes, loop>>

\* Encode under writeMu: the frame reaches the pipe, or the encoder fails now
\* or failed before.
Send_ErrAfterWrite(c) ==
    /\ Alive /\ pc[c] = "registered"
    /\ Len(stdout) < PipeCap
    /\ stdout' = Append(stdout, Frame("request", id[c], c))
    /\ \/ pc' = [pc EXCEPT ![c] = "waiting"] /\ UNCHANGED encErr
       \/ pc' = [pc EXCEPT ![c] = "unsent"] /\ encErr' = TRUE
    /\ UNCHANGED <<nextID, id, chan, result, waiters, reader, hand, closing, readErr>>
    /\ UNCHANGED <<process, stdin, stdinClosed, loop>>
Send(c) ==
    /\ Alive /\ pc[c] = "registered"
    /\ \/ /\ ~encErr
          /\ Len(stdout) < PipeCap
          /\ stdout' = Append(stdout, Frame("request", id[c], c))
          /\ pc' = [pc EXCEPT ![c] = "waiting"]
          /\ UNCHANGED encErr
       \/ /\ encErr' = TRUE
          /\ pc' = [pc EXCEPT ![c] = "unsent"]
          /\ UNCHANGED stdout
    /\ UNCHANGED <<nextID, id, chan, result, waiters, reader, hand, closing, readErr>>
    /\ UNCHANGED <<process, stdin, stdinClosed, loop>>

\* The write failed: the channel is forgotten and CallHost returns the error.
Forget(c) ==
    /\ Alive /\ pc[c] = "unsent"
    /\ waiters' = {w \in waiters : w.id # id[c]}
    /\ pc' = [pc EXCEPT ![c] = "done"]
    /\ result' = [result EXCEPT ![c] = Outcome("writeErr", None)]
    /\ UNCHANGED <<nextID, id, chan, reader, hand, closing, readErr, encErr>>
    /\ UNCHANGED <<process, pipes, loop>>

\* resp, ok := <-ch and the classification of the answer.
Receive(c) ==
    /\ Alive /\ pc[c] = "waiting"
    /\ chan[c] # Empty
    /\ pc' = [pc EXCEPT ![c] = "done"]
    /\ result' = [result EXCEPT ![c] =
           IF chan[c] = Closed THEN Outcome("readErr", None) ELSE chan[c]]
    /\ UNCHANGED <<nextID, id, chan, waiters, reader, hand, closing, readErr, encErr>>
    /\ UNCHANGED <<process, pipes, loop>>
-----------------------------------------------------------------------------
(* The plugin's readLoop.                                                  *)

Route(c, answer) == [call |-> c, from |-> answer.from, ok |-> answer.ok]

\* Decode a frame, take its waiter out of the map; an unknown id is dropped.
ReadAnswer ==
    /\ Alive /\ reader = "reading" /\ stdin # <<>>
    /\ stdin' = Tail(stdin)
    /\ \/ \E w \in waiters :
             /\ w.id = Head(stdin).id
             /\ waiters' = waiters \ {w}
             /\ hand' = Route(w.call, Head(stdin))
             /\ reader' = "routing"
       \/ /\ \A w \in waiters : w.id # Head(stdin).id
          /\ UNCHANGED <<waiters, hand, reader>>
    /\ UNCHANGED <<nextID, id, pc, chan, result, closing, readErr, encErr>>
    /\ UNCHANGED <<process, stdout, stdinClosed, loop>>

\* ch <- resp: the channel is buffered, so readLoop never blocks on a caller.
Deliver ==
    /\ Alive /\ reader = "routing"
    /\ chan' = [chan EXCEPT ![hand.call] =
           Outcome(IF hand.ok THEN "answer" ELSE "refused", hand.from)]
    /\ hand' = NoHand
    /\ reader' = "reading"
    /\ UNCHANGED <<nextID, id, pc, result, waiters, closing, readErr, encErr>>
    /\ UNCHANGED <<process, pipes, loop>>

\* Decode fails at the end of stdin: readErr is set and the map is swapped out.
ReadEnd_KeepMap ==
    /\ Alive /\ reader = "reading" /\ stdin = <<>> /\ stdinClosed
    /\ readErr' = TRUE
    /\ closing' = {w.call : w \in waiters}
    /\ reader' = IF waiters = {} THEN "gone" ELSE "closing"
    /\ UNCHANGED <<nextID, id, pc, chan, result, waiters, hand, encErr>>
    /\ UNCHANGED <<process, pipes, loop>>
ReadEnd_NoClose ==
    /\ Alive /\ reader = "reading" /\ stdin = <<>> /\ stdinClosed
    /\ readErr' = TRUE
    /\ waiters' = {}
    /\ reader' = "gone"
    /\ UNCHANGED <<nextID, id, pc, chan, result, hand, closing, encErr>>
    /\ UNCHANGED <<process, pipes, loop>>
ReadEnd ==
    /\ Alive /\ reader = "reading" /\ stdin = <<>> /\ stdinClosed
    /\ readErr' = TRUE
    /\ closing' = {w.call : w \in waiters}
    /\ waiters' = {}
    /\ reader' = IF waiters = {} THEN "gone" ELSE "closing"
    /\ UNCHANGED <<nextID, id, pc, chan, result, hand, encErr>>
    /\ UNCHANGED <<process, pipes, loop>>

\* close(ch), one channel after the other and outside the lock.
CloseChan(c) ==
    /\ Alive /\ reader = "closing" /\ c \in closing
    /\ chan' = [chan EXCEPT ![c] = Closed]
    /\ closing' = closing \ {c}
    /\ reader' = IF closing = {c} THEN "gone" ELSE "closing"
    /\ UNCHANGED <<nextID, id, pc, result, waiters, hand, readErr, encErr>>
    /\ UNCHANGED <<process, pipes, loop>>
-----------------------------------------------------------------------------
(* The rest of the plugin process: Serve and what plugin code may print.   *)

\* Append a frame to stdout if the encoder works and the pipe has room.
WriteLine(kind) ==
    /\ Len(stdout) < PipeCap
    /\ stdout' = Append(stdout, Frame(kind, 0, None))

\* The root request is well formed and of this version: the handler starts.
Accept ==
    /\ Alive /\ main = "starting" /\ stdin # <<>>
    /\ stdin' = Tail(stdin)
    /\ main' = "handling"
    /\ UNCHANGED <<proc, extra, stdout, stdinClosed, client, loop>>

\* Another version or a request Serve cannot decode: an error frame, exit 1.
Reject ==
    /\ Alive /\ main = "starting" /\ stdin # <<>>
    /\ stdin' = Tail(stdin)
    /\ WriteLine("rootFail")
    /\ proc' = "bad"
    /\ UNCHANGED <<main, extra, stdinClosed, client, loop>>

\* The handler returns and its response is encoded, without writeMu and whether
\* or not goroutines of the handler are still inside CallHost.
Respond ==
    /\ Alive /\ main = "handling"
    /\ \/ encErr /\ UNCHANGED stdout
       \/ ~encErr /\ \E kind \in {"rootOK", "rootFail"} : WriteLine(kind)
    /\ main' = "responded"
    /\ UNCHANGED <<proc, extra, stdin, stdinClosed, client, loop>>

Exit ==
    /\ Alive /\ main = "responded"
    /\ proc' = "ok"
    /\ UNCHANGED <<main, extra, pipes, client, loop>>

\* A panic or os.Exit anywhere in the plugin.
Crash ==
    /\ Alive
    /\ proc' = "bad"
    /\ UNCHANGED <<main, extra, pipes, client, loop>>

\* EmitHostEvent takes an id of the same counter and waits for nothing.
EmitHostEvent ==
    /\ Alive /\ main = "handling" /\ extra < MaxExtra
    /\ extra' = extra + 1
    /\ nextID' = nextID + 1
    /\ \/ ~encErr /\ WriteLine("event") /\ UNCHANGED encErr
       \/ encErr' = TRUE /\ UNCHANGED stdout
    /\ UNCHANGED <<id, pc, chan, result, waiters, reader, hand, closing, readErr>>
    /\ UNCHANGED <<main, proc, stdin, stdinClosed, loop>>

\* Plugin code writes to stdout itself: no JSON, or a frame the host refuses.
PrintNoise ==
    /\ Alive /\ extra < MaxExtra
    /\ extra' = extra + 1
    /\ \E kind \in {"garbage", "stray"} : WriteLine(kind)
    /\ UNCHANGED <<main, proc, stdin, stdinClosed, client, loop>>

\* More than OutputLimit bytes of stderr: the limitedBuffer truncates.
FloodStderr ==
    /\ Alive /\ ~stderrFull
    /\ stderrFull' = TRUE
    /\ UNCHANGED <<host, verdict, outcome, budget, handlers, served, client, process, pipes>>
-----------------------------------------------------------------------------
(* The host: invokeFramed, its handler goroutines and the context.         *)

\* stdin.Close(), and from here on cmd.Wait().
Leave(v) ==
    /\ stdinClosed' = TRUE
    /\ host' = "waiting"
    /\ verdict' = v

\* writeFrame(root): a request larger than the pipe blocks until the plugin reads;
\* EPIPE when the plugin is already gone.
SendRoot ==
    /\ host = "sending"
    /\ \/ /\ Alive
          /\ stdin' = Append(stdin, Answer(0, None, TRUE))
          /\ host' \in {"writing", "reading"}
          /\ UNCHANGED <<verdict, stdinClosed>>
       \/ ~Alive /\ Leave("error") /\ UNCHANGED stdin
    /\ UNCHANGED <<outcome, budget, stderrFull, handlers, served, stdout, client, process>>

\* The plugin has read the rest of the request, or nobody will.
RootWritten ==
    /\ host = "writing"
    /\ \/ stdin = <<>> /\ host' = "reading" /\ UNCHANGED <<verdict, stdinClosed>>
       \/ ~Alive /\ Leave("error")
    /\ UNCHANGED <<outcome, budget, stderrFull, handlers, served, stdin, stdout>>
    /\ UNCHANGED <<client, process>>

\* The loop decodes the next frame of stdout.
Take(kind) ==
    /\ host = "reading" /\ budget > 0 /\ stdout # <<>>
    /\ Head(stdout).kind = kind
    /\ stdout' = Tail(stdout)
    /\ budget' = budget - 1

\* FrameRequest: a goroutine of its own is started for callHost.
TakeRequest ==
    /\ Take("request")
    /\ handlers' = handlers \cup
           {[id |-> Head(stdout).id, from |-> Head(stdout).from, answer |-> "spawned"]}
    /\ UNCHANGED <<host, verdict, outcome, stderrFull, served, stdin, stdinClosed>>
    /\ UNCHANGED <<client, process>>

\* FrameEvent: EmitHostEvent of the caller, inline.
TakeEvent ==
    /\ Take("event")
    /\ UNCHANGED <<host, verdict, outcome, stderrFull, handlers, served, stdin, stdinClosed>>
    /\ UNCHANGED <<client, process>>

\* The root response, whatever handlers are still running.
TakeRoot ==
    /\ \E kind \in {"rootOK", "rootFail"} : Take(kind) /\ Leave(kind)
    /\ UNCHANGED <<outcome, stderrFull, handlers, served, stdin, client, process>>

\* Another response id, version or frame type: the plugin is left to end by itself.
TakeStray ==
    /\ Take("stray") /\ Leave("error")
    /\ UNCHANGED <<outcome, stderrFull, handlers, served, stdin, client, process>>

\* Decode fails on the bytes; a plugin that overran stderr is killed as well.
TakeGarbage ==
    /\ Take("garbage") /\ Leave("error")
    /\ proc' = IF stderrFull /\ Alive THEN "killed" ELSE proc
    /\ UNCHANGED <<outcome, stderrFull, handlers, served, stdin, client, main, extra>>

\* limitedReadCloser ends the stream: the plugin is killed.
TakeOverLimit ==
    /\ host = "reading" /\ budget = 0
    /\ Leave("error")
    /\ proc' = IF Alive THEN "killed" ELSE proc
    /\ UNCHANGED <<outcome, budget, stderrFull, handlers, served, stdin, stdout>>
    /\ UNCHANGED <<client, main, extra>>

\* The plugin's end of stdout is closed and drained.
TakeEOF ==
    /\ host = "reading" /\ budget > 0 /\ stdout = <<>> /\ ~Alive
    /\ Leave("error")
    /\ UNCHANGED <<outcome, budget, stderrFull, handlers, served, stdin, stdout>>
    /\ UNCHANGED <<client, process>>

\* cmd.Wait returns and the result is classified.
Wait_NoStatus ==
    /\ host = "waiting" /\ ~Alive
    /\ host' = "returned"
    /\ outcome' =
           CASE verdict = "rootOK"   -> "ok"
             [] verdict = "rootFail" -> "fail"
             [] OTHER                -> "error"
    /\ stdout' = <<>>
    /\ UNCHANGED <<verdict, budget, stderrFull, handlers, served, stdin, stdinClosed>>
    /\ UNCHANGED <<client, process>>
Wait ==
    /\ host = "waiting" /\ ~Alive
    /\ host' = "returned"
    /\ outcome' =
           CASE verdict = "rootOK" /\ ~stderrFull /\ proc = "ok" -> "ok"
             [] verdict = "rootFail" /\ ~stderrFull              -> "fail"
             [] OTHER                                            -> "error"
    /\ stdout' = <<>>
    /\ UNCHANGED <<verdict, budget, stderrFull, handlers, served, stdin, stdinClosed>>
    /\ UNCHANGED <<client, process>>

Turned(h, a) == handlers' = (handlers \ {h}) \cup {[h EXCEPT !.answer = a]}

\* callHost runs the capability, or fails before it does: whatever has become of the
\* session and of the caller meanwhile.
HandlerStarts(h) ==
    /\ h.answer = "spawned"
    /\ \/ Turned(h, "running") /\ served' = [served EXCEPT ![h.from] = @ + 1]
       \/ Turned(h, "error") /\ UNCHANGED served
    /\ UNCHANGED <<host, verdict, outcome, budget, stderrFull, client, process, pipes>>

\* The capability returns an answer or an error.
HandlerEnds(h) ==
    /\ h.answer = "running"
    /\ \E a \in {"ok", "error"} : Turned(h, a)
    /\ UNCHANGED <<host, verdict, outcome, budget, stderrFull, served, client, process, pipes>>

\* writeFrame of the answer; its error is ignored.
HandlerReplies(h) ==
    /\ h.answer \in {"ok", "error"}
    /\ \/ /\ ~stdinClosed /\ Alive
          /\ Len(stdin) < PipeCap
          /\ stdin' = Append(stdin, Answer(h.id, h.from, h.answer = "ok"))
       \/ (stdinClosed \/ ~Alive) /\ UNCHANGED stdin
    /\ handlers' = handlers \ {h}
    /\ UNCHANGED <<host, verdict, outcome, budget, stderrFull, served, client, process>>
    /\ UNCHANGED <<stdout, stdinClosed>>

\* exec.CommandContext kills the plugin when the context of the call ends.
Deadline_LoopOnly ==
    /\ Alive /\ host \in {"sending", "writing", "reading"}
    /\ proc' = "killed"
    /\ UNCHANGED <<main, extra, client, pipes, loop>>
Deadline ==
    /\ Alive /\ host # "returned"
    /\ proc' = "killed"
    /\ UNCHANGED <<main, extra, client, pipes, loop>>
-----------------------------------------------------------------------------
CallHost(c) == Begin(c) \/ Register(c) \/ Send(c) \/ Forget(c) \/ Receive(c)

readLoop == ReadAnswer \/ Deliver \/ ReadEnd \/ \E c \in Calls : CloseChan(c)

Faults == Crash \/ PrintNoise \/ FloodStderr

invokeFramed ==
    \/ SendRoot \/ RootWritten \/ TakeRequest \/ TakeEvent \/ TakeRoot \/ TakeStray
    \/ TakeGarbage \/ TakeOverLimit \/ TakeEOF \/ Wait

Handler == \E h \in handlers : HandlerStarts(h) \/ HandlerEnds(h) \/ HandlerReplies(h)

Next ==
    \/ \E c \in Calls : CallHost(c)
    \/ readLoop
    \/ Accept \/ Reject \/ Respond \/ Exit \/ EmitHostEvent
    \/ Faults
    \/ invokeFramed
    \/ Handler
    \/ Deadline

\* Goroutines are scheduled.  Nothing obliges a capability to return (connRead without
\* a timeout waits for its peer), nor the plugin's handler to start a call, to respond,
\* to print or to crash.
Fairness ==
    /\ \A c \in Calls :
           WF_vars(Register(c)) /\ WF_vars(Send(c)) /\ WF_vars(Forget(c)) /\ WF_vars(Receive(c))
    /\ WF_vars(readLoop)
    /\ WF_vars(invokeFramed)
    /\ WF_vars(\E h \in handlers : HandlerStarts(h) \/ HandlerReplies(h))

Spec == Init /\ [][Next]_vars /\ Fairness
-----------------------------------------------------------------------------
Callers == Calls \cup {None}
Results == [kind : {"none", "badPayload", "unregistered", "writeErr", "readErr", "answer", "refused"},
            from : Callers]
Answers == [id : Nat, from : Callers, ok : BOOLEAN]
Frames == [kind : {"request", "event", "rootOK", "rootFail", "garbage", "stray"},
           id : Nat, from : Callers]

Stages == {"spawned", "running", "ok", "error"}

ClientType ==
    /\ nextID \in Nat
    /\ id \in [Calls -> Nat]
    /\ pc \in [Calls -> {"idle", "numbered", "registered", "unsent", "waiting", "done"}]
    /\ chan \in [Calls -> {Empty, Closed} \cup [kind : {"answer", "refused"}, from : Callers]]
    /\ result \in [Calls -> Results]
    /\ waiters \subseteq [id : Nat, call : Calls]
    /\ reader \in {"off", "reading", "routing", "closing", "gone"}
    /\ hand \in [call : Callers, from : Callers, ok : BOOLEAN]
    /\ closing \subseteq Calls
    /\ readErr \in BOOLEAN /\ encErr \in BOOLEAN

ProcessType ==
    /\ main \in {"starting", "handling", "responded"}
    /\ proc \in {"running", "ok", "bad", "killed"}
    /\ extra \in 0 .. MaxExtra

PipesType ==
    /\ stdin \in Seq(Answers)
    /\ stdout \in Seq(Frames)
    /\ stdinClosed \in BOOLEAN

LoopType ==
    /\ host \in {"sending", "writing", "reading", "waiting", "returned"}
    /\ verdict \in {"none", "rootOK", "rootFail", "error"}
    /\ outcome \in {"none", "ok", "fail", "error"}
    /\ budget \in 0 .. OutputLimit
    /\ stderrFull \in BOOLEAN
    /\ handlers \subseteq [id : Nat, from : Callers, answer : Stages]
    /\ served \in [Calls -> Nat]

TypeOK == ClientType /\ ProcessType /\ PipesType /\ LoopType

\* A capability call gets the host's answer to its own request and to no other,
\* however the requests, handlers and answers of concurrent calls overtake.
OwnAnswer ==
    \A c \in Calls : result[c].kind \in {"answer", "refused"} =>
        result[c].from = c /\ (result[c].kind = "answer" => served[c] = 1)

\* Who will release the channel of a call in flight.
Registered(c) == \E w \in waiters : w.call = c /\ w.id = id[c]
Routed(c) == reader = "routing" /\ hand.call = c
Parties == {"map", "reader", "closer", "settled"}
Owners(c) == {o \in Parties :
                 \/ o = "map"     /\ Registered(c)
                 \/ o = "reader"  /\ Routed(c)
                 \/ o = "closer"  /\ c \in closing
                 \/ o = "settled" /\ chan[c] # Empty}

\* The channel of a call in flight has exactly one owner that has to release
\* it: none would strand the caller for ever, two would send on or close a
\* closed channel, which panics the plugin.
OneOwner == \A c \in Calls : InFlight(c) => \E o \in Parties : Owners(c) = {o}

(***************************************************************************)
(* What else has to hold for OneOwner to be inductive: FramedSessionProofs *)
(* conjoins these with OneOwner.                                           *)
(***************************************************************************)
\* Ids are handed out once: a call that has one shares it with nobody.
IdsUnique ==
    \A c \in Calls :
        /\ pc[c] # "idle" => id[c] \in 1 .. nextID
        /\ \A d \in Calls : pc[c] # "idle" /\ pc[d] # "idle" /\ id[c] = id[d] => c = d

\* The map holds calls in flight under their own ids.
WaitersSound == \A w \in waiters : w.id = id[w.call] /\ InFlight(w.call)

\* Nobody but its own goroutine knows a call that has not registered.
Private ==
    \A c \in Calls : pc[c] \in {"idle", "numbered"} =>
        chan[c] = Empty /\ ~Routed(c) /\ c \notin closing

\* readErr, the swapped map and the phase of readLoop move together.
ReaderSound ==
    /\ readErr <=> reader \in {"closing", "gone"}
    /\ readErr => waiters = {}
    /\ closing # {} => reader = "closing"
    /\ reader = "routing" => hand.call \in Calls

\* When readLoop is gone nothing is left to wake a caller, so each is woken.
NobodyStranded ==
    reader = "gone" => \A c \in Calls : InFlight(c) => chan[c] # Empty

\* The host reports success only of a plugin whose handler responded, that
\* ended by itself with status 0 and whose output was kept whole.
SuccessIsReal ==
    outcome = "ok" => main = "responded" /\ proc = "ok" /\ ~stderrFull

(***************************************************************************)
(* The refinement: a call is served when its capability starts, answered   *)
(* or lost when CallHost returns what it read or that nothing can be read, *)
(* and withdrawn when CallHost fails before its request is sent.           *)
(***************************************************************************)
Returned(kinds) == {c \in Calls : result[c].kind \in kinds}

Abs == INSTANCE CapabilityCalls WITH
    served <- {c \in Calls : served[c] > 0},
    answered <- Returned({"answer"}),
    refused <- Returned({"refused"}),
    lost <- Returned({"readErr"}),
    withdrawn <- Returned({"badPayload", "unregistered", "writeErr"})

\* CallHost runs a capability once at most, answers after it ran, and runs nothing for
\* a call that failed to send its request; only a call that lost its session may be
\* served, or still be served, after it failed.
ImplementsCalls == Abs!Spec

\* The capability of c is being run.
Runs(c) == \E h \in handlers : h.from = c /\ h.answer = "running"

\* A CallHost that waits gets an answer or an error, unless its own capability never
\* returns or the plugin process ends: whatever the capabilities of the other calls do,
\* and without a deadline.
CallsEnd ==
    \A c \in Calls :
        []<>~Runs(c) => (pc[c] = "waiting" ~> (pc[c] = "done" \/ ~Alive))

\* Every invocation ends, also of a plugin that wedged, that never reads its request,
\* that floods a pipe nobody reads any more, or that waits for its own calls, given that
\* its context ends: invokePlugin gives every call a deadline (management/local/local.go).
InvocationEnds == WF_vars(Deadline) => <>(host = "returned")
=============================================================================
