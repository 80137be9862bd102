------------------------------ MODULE HostConns ------------------------------
(***************************************************************************)
(* The conn capability: sockets the host opens for a plugin.               *)
(* management/local/conn.go keeps them in a connRegistry that lives as     *)
(* long as one invocation; invokePlugin (management/local/local.go) closes *)
(* what is left in it when the invocation returns.  In the plugin,         *)
(* pluginbinding/conn.go wraps one into a net.Conn.  Every request runs on *)
(* a goroutine of the host (FramedSession) that the return of the          *)
(* invocation neither stops nor waits for.                                 *)
(*                                                                         *)
(* A connection is named by the dial that makes it.  A section under a     *)
(* mutex is one step; a blocking call of the network is two.               *)
(***************************************************************************)
EXTENDS Naturals, FiniteSets

CONSTANTS Dials,   \* dials of the plugin, one connection each
          Reads    \* calls of hostConn.Read; a Write takes the same path

VARIABLES
    phase,     \* the invocation: open, closing (in closeAll) or returned
    seq,       \* connRegistry.seq
    conns,     \* connRegistry.conns: the connection of each id in use
    left,      \* the sockets closeAll still has to close
    socket,    \* socket[d]: none, open or closed
    closes,    \* closes[d]: how often Close was called on the socket
    connID,    \* connID[d]: the id add gave it, 0 before
    dial,      \* dial[d]: the request, its goroutine and its answer
    closed,    \* closed[d]: the plugin's hostConn is closed
    close,     \* close[d]: how far the request of hostConn.Close is, and what it removed
    read       \* read[r]: whose Read it is, how far it is, and what it reads from

vars == <<phase, seq, conns, left, socket, closes, connID, dial, closed, close, read>>
-----------------------------------------------------------------------------
NoRead(d) == [conn |-> d, at |-> "idle", from |-> d, result |-> "none"]
NoClose(d) == [at |-> "idle", conn |-> d]

\* The plugin holds the net.Conn: its dial was answered.
Told(d) == dial[d] = "answered"

CloseSocket(d) ==
    /\ socket' = [socket EXCEPT ![d] = "closed"]
    /\ closes' = [closes EXCEPT ![d] = @ + 1]

Init ==
    /\ phase = "open"
    /\ seq = 0
    /\ conns = [id \in {} |-> {}]
    /\ left = {}
    /\ socket = [d \in Dials |-> "none"]
    /\ closes = [d \in Dials |-> 0]
    /\ connID = [d \in Dials |-> 0]
    /\ dial = [d \in Dials |-> "idle"]
    /\ closed = [d \in Dials |-> FALSE]
    /\ close = [d \in Dials |-> NoClose(d)]
    /\ \E d \in Dials : read = [r \in Reads |-> NoRead(d)]
-----------------------------------------------------------------------------
(* DialHostConn in the plugin, connDial in the host.                       *)

registry == <<seq, conns, left, connID>>

\* The plugin asks, and the host's loop starts a goroutine for the request.
AskDial(d) ==
    /\ phase = "open" /\ dial[d] = "idle"
    /\ dial' = [dial EXCEPT ![d] = "dialing"]
    /\ UNCHANGED <<phase, registry, socket, closes, closed, close, read>>

\* A bad network or address, an endpoint that does not resolve, or a failed dial.
DialFails(d) ==
    /\ dial[d] = "dialing"
    /\ dial' = [dial EXCEPT ![d] = "refused"]
    /\ UNCHANGED <<phase, registry, socket, closes, closed, close, read>>

\* net.DialTimeout succeeds; without TLS the socket is ready to be added.
DialConnects(d) ==
    /\ dial[d] = "dialing"
    /\ socket' = [socket EXCEPT ![d] = "open"]
    /\ dial' \in {[dial EXCEPT ![d] = "handshake"], [dial EXCEPT ![d] = "connected"]}
    /\ UNCHANGED <<phase, registry, closes, closed, close, read>>

\* The TLS handshake of an opt-in request.
Handshake_Leak(d) ==
    /\ dial[d] = "handshake"
    /\ \E next \in {"connected", "refused"} : dial' = [dial EXCEPT ![d] = next]
    /\ UNCHANGED <<phase, registry, socket, closes, closed, close, read>>
Handshake(d) ==
    /\ dial[d] = "handshake"
    /\ \/ /\ dial' = [dial EXCEPT ![d] = "connected"]
          /\ UNCHANGED <<socket, closes>>
       \/ /\ dial' = [dial EXCEPT ![d] = "refused"]
          /\ CloseSocket(d)
    /\ UNCHANGED <<phase, registry, closed, close, read>>

\* connRegistry.add: the next id, under the lock of the registry.
With(id, d) == [i \in DOMAIN conns \cup {id} |-> IF i = id THEN d ELSE conns[i]]
AddWith(d, id) ==
    /\ dial[d] = "connected"
    /\ seq' = seq + 1
    /\ conns' = With(id, d)
    /\ connID' = [connID EXCEPT ![d] = id]
    /\ dial' = [dial EXCEPT ![d] = "added"]
    /\ UNCHANGED <<phase, left, socket, closes, closed, close, read>>
Add_CountConns(d) == AddWith(d, Cardinality(DOMAIN conns) + 1)
Add(d) == AddWith(d, seq + 1)

\* The answer reaches the plugin while the invocation is open, else nobody.
AnswerDial(d) ==
    /\ dial[d] = "added"
    /\ dial' = [dial EXCEPT ![d] = IF phase = "open" THEN "answered" ELSE "lost"]
    /\ UNCHANGED <<phase, registry, socket, closes, closed, close, read>>
-----------------------------------------------------------------------------
(* hostConn.Close in the plugin, connClose in the host.                    *)

\* The flag decides who sends ConnClose; a second Close returns at once.
Close(d) ==
    /\ phase = "open" /\ Told(d)
    /\ ~closed[d]
    /\ closed' = [closed EXCEPT ![d] = TRUE]
    /\ close' = [close EXCEPT ![d].at = "asked"]
    /\ UNCHANGED <<phase, registry, socket, closes, dial, read>>

\* connRegistry.remove; an id that is gone answers Closed: false.
Removed(d) == IF connID[d] \in DOMAIN conns
              THEN [at |-> "removed", conn |-> conns[connID[d]]]
              ELSE [at |-> "absent", conn |-> d]
Remove(d) ==
    /\ close[d].at = "asked"
    /\ close' = [close EXCEPT ![d] = Removed(d)]
    /\ conns' = [id \in DOMAIN conns \ {connID[d]} |-> conns[id]]
    /\ UNCHANGED <<phase, seq, left, connID, socket, closes, dial, closed, read>>

\* conn.Close() of the removed connection, outside the lock.
CloseRemoved(d) ==
    /\ close[d].at = "removed"
    /\ CloseSocket(close[d].conn)
    /\ close' = [close EXCEPT ![d].at = "closed"]
    /\ UNCHANGED <<phase, registry, dial, closed, read>>
-----------------------------------------------------------------------------
(* hostConn.Read in the plugin, connRead in the host.                      *)

ReadAt(r, at, result) == read' = [read EXCEPT ![r] = [@ EXCEPT !.at = at, !.result = result]]

\* The closed flag is read under the mutex and the request sent outside it.
StartRead(r) ==
    \E d \in Dials :
        /\ phase = "open" /\ Told(d) /\ read[r].at = "idle"
        /\ read' = [read EXCEPT ![r] =
               IF closed[d] THEN [NoRead(d) EXCEPT !.at = "done", !.result = "ErrClosed"]
               ELSE [NoRead(d) EXCEPT !.at = "asked"]]
        /\ UNCHANGED <<phase, registry, socket, closes, dial, closed, close>>

\* connRegistry.get; the lock is released before conn.Read.
Get(r) ==
    /\ read[r].at = "asked"
    /\ LET id == connID[read[r].conn]
       IN  IF id \in DOMAIN conns
           THEN read' = [read EXCEPT ![r] = [@ EXCEPT !.at = "blocked", !.from = conns[id]]]
           ELSE ReadAt(r, "done", "notOpen")
    /\ UNCHANGED <<phase, registry, socket, closes, dial, closed, close>>

\* conn.Read returns bytes, the end of the stream or a timeout.
PeerWakes(r) ==
    /\ read[r].at = "blocked" /\ socket[read[r].from] = "open"
    /\ \E result \in {"data", "eof", "timeout"} : ReadAt(r, "done", result)
    /\ UNCHANGED <<phase, registry, socket, closes, dial, closed, close>>

\* Closing the socket wakes a blocked conn.Read with an error.
CloseWakes(r) ==
    /\ read[r].at = "blocked" /\ socket[read[r].from] = "closed"
    /\ ReadAt(r, "done", "error")
    /\ UNCHANGED <<phase, registry, socket, closes, dial, closed, close>>
-----------------------------------------------------------------------------
(* invokePlugin: host.Invoke returns, and the deferred closeAll runs.      *)

\* closeAll swaps the map under the lock.
CloseAll_Skipped ==
    /\ phase = "open"
    /\ phase' = "closing"
    /\ UNCHANGED <<seq, conns, left, connID, socket, closes, dial, closed, close, read>>
CloseAll ==
    /\ phase = "open"
    /\ phase' = "closing"
    /\ left' = {conns[id] : id \in DOMAIN conns}
    /\ conns' = [id \in {} |-> {}]
    /\ UNCHANGED <<seq, connID, socket, closes, dial, closed, close, read>>

CloseLeft(d) ==
    /\ phase = "closing" /\ d \in left
    /\ CloseSocket(d)
    /\ left' = left \ {d}
    /\ UNCHANGED <<phase, seq, conns, connID, dial, closed, close, read>>

Return ==
    /\ phase = "closing" /\ left = {}
    /\ phase' = "returned"
    /\ UNCHANGED <<registry, socket, closes, dial, closed, close, read>>
-----------------------------------------------------------------------------
DialStep(d) ==
    DialFails(d) \/ DialConnects(d) \/ Handshake(d) \/ Add(d) \/ AnswerDial(d)
CloseStep(d) == Remove(d) \/ CloseRemoved(d)
ReadStep(r) == Get(r) \/ CloseWakes(r)
InvokeStep == CloseAll \/ Return \/ \E d \in Dials : CloseLeft(d)

Next ==
    \/ \E d \in Dials : AskDial(d) \/ Close(d) \/ DialStep(d) \/ CloseStep(d)
    \/ \E r \in Reads : StartRead(r) \/ PeerWakes(r) \/ ReadStep(r)
    \/ InvokeStep

\* Goroutines are scheduled, dials have a timeout, and every invocation ends
\* (InvocationEnds of FramedSession).  A peer need never send anything, and the
\* plugin need never close anything.
Fairness ==
    /\ \A d \in Dials : WF_vars(DialStep(d)) /\ WF_vars(CloseStep(d))
    /\ \A r \in Reads : WF_vars(ReadStep(r))
    /\ WF_vars(InvokeStep)

Spec == Init /\ [][Next]_vars /\ Fairness
-----------------------------------------------------------------------------
\* What a Read may be.
Requests ==
    [conn : Dials, at : {"idle", "asked", "blocked", "done"}, from : Dials,
     result : {"none", "ErrClosed", "notOpen", "data", "eof", "timeout", "error"}]

TypeOK ==
    /\ phase \in {"open", "closing", "returned"}
    /\ seq \in Nat
    /\ conns \in [DOMAIN conns -> Dials] /\ DOMAIN conns \subseteq 1 .. seq
    /\ left \subseteq Dials
    /\ socket \in [Dials -> {"none", "open", "closed"}]
    /\ closes \in [Dials -> Nat]
    /\ connID \in [Dials -> 0 .. seq]
    /\ dial \in [Dials -> {"idle", "dialing", "handshake", "connected", "refused",
                           "added", "answered", "lost"}]
    /\ closed \in [Dials -> BOOLEAN]
    /\ close \in [Dials -> [at : {"idle", "asked", "removed", "absent", "closed"},
                            conn : Dials]]
    /\ read \in [Reads -> Requests]

\* A Read, Write or Close works on the connection it was called on: no other gets its
\* id, however late the host looks it up.  And no socket is closed twice, although the
\* plugin's Close, closeAll and a failed handshake all close sockets.
OwnConn ==
    /\ \A r \in Reads : read[r].from = read[r].conn
    /\ \A d \in Dials : close[d].conn = d /\ closes[d] <= 1

\* An open socket is in the registry or in the hands of a goroutine that will
\* add or close it: none is forgotten on an error path.
OpenIsHeld ==
    \A d \in Dials : socket[d] = "open" =>
        \/ \E id \in DOMAIN conns : conns[id] = d
        \/ d \in left
        \/ dial[d] \in {"handshake", "connected"}
        \/ close[d].at = "removed" /\ close[d].conn = d

\* Every connection the plugin was told of is closed in the end, whether its
\* Close overtakes, meets or never reaches closeAll.
UsedEndClosed == \A d \in Dials : Told(d) ~> socket[d] = "closed"

\* A Read that reached its connection does not block beyond the invocation,
\* even when the peer stays silent and no deadline was set.
ReadsEnd == \A r \in Reads : read[r].at = "blocked" ~> read[r].at = "done"

\* management/local/conn.go: "closed when the invocation returns, so no socket
\* outlives the plugin call".  Checked as an invariant it is refuted: a dial that
\* completes after closeAll adds a socket nobody will close.
NoSocketOutlives == phase = "returned" => \A d \in Dials : socket[d] # "open"
=============================================================================
