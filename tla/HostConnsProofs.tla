-------------------------- MODULE HostConnsProofs --------------------------
(***************************************************************************)
(* Proofs about HostConns, for any number of dials and reads: types, that  *)
(* requests work on their own connection and no socket is closed twice     *)
(* (OwnConn), and that no open socket is forgotten (OpenIsHeld).           *)
(***************************************************************************)
EXTENDS HostConns, TLAPS

\* The registry has the connection of d.
In(d) == connID[d] \in DOMAIN conns

\* The ways to own an open socket.
Dialing(d) == dial[d] \in {"handshake", "connected"}
Removing(d) == close[d].at = "removed"

\* An id belongs to one connection for good, and the registry agrees.
IdsSound ==
    /\ \A id \in DOMAIN conns : connID[conns[id]] = id
    /\ \A c, d \in Dials : connID[c] # 0 /\ connID[c] = connID[d] => c = d
    /\ \A d \in Dials : connID[d] # 0 <=> dial[d] \in {"added", "answered", "lost"}

\* What is asked for has an id.
RequestsSound ==
    /\ \A d \in Dials : close[d].at # "idle" => closed[d] /\ connID[d] # 0
    /\ \A r \in Reads : read[r].at = "asked" => connID[read[r].conn] # 0

\* A socket has at most one owner, and while it has one nobody closed it.
OwnersSound ==
    /\ phase = "open" => left = {}
    /\ \A d \in Dials :
          /\ d \in left => connID[d] # 0 /\ ~In(d) /\ ~Removing(d)
          /\ Removing(d) => ~In(d)
          /\ In(d) \/ d \in left \/ Removing(d) \/ Dialing(d) => closes[d] = 0
          /\ dial[d] \in {"idle", "dialing"} => closes[d] = 0

Ind == TypeOK /\ OwnConn /\ OpenIsHeld /\ IdsSound /\ RequestsSound /\ OwnersSound
-----------------------------------------------------------------------------
(***************************************************************************)
(* Init, and the steps of a dial.                                          *)
(***************************************************************************)
\* In the initial state nothing is open, asked for or registered.
LEMMA InitInd == Init => Ind
  BY SMT DEF Init, NoRead, NoClose, Requests, Ind, TypeOK, OwnConn, OpenIsHeld, IdsSound,
             RequestsSound, OwnersSound, In, Dialing, Removing

\* A dial that is asked for has no socket yet.
LEMMA AskInd ==
  ASSUME Ind, NEW d \in Dials, AskDial(d)
  PROVE  Ind'
<1>1. TypeOK'
  BY SMT DEF AskDial, registry, Ind, TypeOK
<1>2. OwnConn'
  BY SMT DEF AskDial, registry, Ind, TypeOK, OwnConn, OwnersSound, In, Dialing,
             Removing
<1>3. OpenIsHeld'
  BY SMT DEF AskDial, registry, Ind, TypeOK, OwnConn, OpenIsHeld, IdsSound,
             OwnersSound, In, Dialing, Removing
<1>4. IdsSound'
  BY SMT DEF AskDial, registry, Ind, TypeOK, OwnConn, IdsSound, OwnersSound, In,
             Dialing, Removing
<1>5. RequestsSound'
  BY SMT DEF AskDial, registry, Ind, TypeOK, OwnConn, IdsSound, RequestsSound
<1>6. OwnersSound'
  BY SMT DEF AskDial, registry, Ind, TypeOK, OwnConn, IdsSound, RequestsSound,
             OwnersSound, In, Dialing, Removing
<1> QED
  BY <1>1, <1>2, <1>3, <1>4, <1>5, <1>6 DEF Ind

\* A dial that fails never had one.
LEMMA FailsInd ==
  ASSUME Ind, NEW d \in Dials, DialFails(d)
  PROVE  Ind'
<1>1. TypeOK'
  BY SMT DEF DialFails, registry, Ind, TypeOK
<1>2. OwnConn'
  BY SMT DEF DialFails, registry, Ind, TypeOK, OwnConn, OwnersSound, In, Dialing,
             Removing
<1>3. OpenIsHeld'
  BY SMT DEF DialFails, registry, Ind, TypeOK, OwnConn, OpenIsHeld, IdsSound,
             OwnersSound, In, Dialing, Removing
<1>4. IdsSound'
  BY SMT DEF DialFails, registry, Ind, TypeOK, OwnConn, IdsSound, OwnersSound, In,
             Dialing, Removing
<1>5. RequestsSound'
  BY SMT DEF DialFails, registry, Ind, TypeOK, OwnConn, IdsSound, RequestsSound
<1>6. OwnersSound'
  BY SMT DEF DialFails, registry, Ind, TypeOK, OwnConn, IdsSound, RequestsSound,
             OwnersSound, In, Dialing, Removing
<1> QED
  BY <1>1, <1>2, <1>3, <1>4, <1>5, <1>6 DEF Ind

\* A dial that connects owns its socket.
LEMMA ConnectsInd ==
  ASSUME Ind, NEW d \in Dials, DialConnects(d)
  PROVE  Ind'
<1>1. TypeOK'
  <2>1. \E next \in {"handshake", "connected"} : dial' = [dial EXCEPT ![d] = next]
    BY DEF DialConnects
  <2> QED
    BY <2>1, SMT DEF DialConnects, registry, Ind, TypeOK
<1>2. OwnConn'
  BY SMT DEF DialConnects, registry, Ind, TypeOK, OwnConn, OwnersSound, In, Dialing,
             Removing
<1>3. OpenIsHeld'
  BY SMT DEF DialConnects, registry, Ind, TypeOK, OwnConn, OpenIsHeld, IdsSound,
             OwnersSound, In, Dialing, Removing
<1>4. IdsSound'
  BY SMT DEF DialConnects, registry, Ind, TypeOK, OwnConn, IdsSound, OwnersSound, In,
             Dialing, Removing
<1>5. RequestsSound'
  BY SMT DEF DialConnects, registry, Ind, TypeOK, OwnConn, IdsSound, RequestsSound
<1>6. OwnersSound'
  BY SMT DEF DialConnects, registry, Ind, TypeOK, OwnConn, IdsSound, RequestsSound,
             OwnersSound, In, Dialing, Removing
<1> QED
  BY <1>1, <1>2, <1>3, <1>4, <1>5, <1>6 DEF Ind

\* A handshake that fails closes the socket it owns.
LEMMA HandshakeInd ==
  ASSUME Ind, NEW d \in Dials, Handshake(d)
  PROVE  Ind'
<1>1. TypeOK'
  BY SMT DEF Handshake, CloseSocket, registry, Ind, TypeOK
<1>2. OwnConn'
  BY SMT DEF Handshake, CloseSocket, registry, Ind, TypeOK, OwnConn, OwnersSound, In,
             Dialing, Removing
<1>3. OpenIsHeld'
  BY SMT DEF Handshake, CloseSocket, registry, Ind, TypeOK, OwnConn, OpenIsHeld,
             IdsSound, OwnersSound, In, Dialing, Removing
<1>4. IdsSound'
  BY SMT DEF Handshake, CloseSocket, registry, Ind, TypeOK, OwnConn, IdsSound,
             OwnersSound, In, Dialing, Removing
<1>5. RequestsSound'
  BY SMT DEF Handshake, CloseSocket, registry, Ind, TypeOK, OwnConn, IdsSound,
             RequestsSound
<1>6. OwnersSound'
  BY SMT DEF Handshake, CloseSocket, registry, Ind, TypeOK, OwnConn, IdsSound,
             RequestsSound, OwnersSound, In, Dialing, Removing
<1> QED
  BY <1>1, <1>2, <1>3, <1>4, <1>5, <1>6 DEF Ind

\* A new id is larger than all before: nobody else has it.
LEMMA AddInd ==
  ASSUME Ind, NEW d \in Dials, Add(d)
  PROVE  Ind'
<1>1. TypeOK'
  BY SMT DEF Add, AddWith, With, Ind, TypeOK
<1>2. OwnConn'
  BY SMT DEF Add, AddWith, With, Ind, TypeOK, OwnConn, OwnersSound, In, Dialing,
             Removing
<1>3. OpenIsHeld'
  <2> SUFFICES ASSUME NEW e \in Dials, socket'[e] = "open"
               PROVE  \/ \E id \in DOMAIN conns' : conns'[id] = e
                      \/ e \in left'
                      \/ dial'[e] \in {"handshake", "connected"}
                      \/ close'[e].at = "removed" /\ close'[e].conn = e
    BY DEF OpenIsHeld
  <2>1. seq + 1 \in DOMAIN conns' /\ conns'[seq + 1] = d
    BY SMT DEF Add, AddWith, With
  <2>2. CASE e # d
    <3>1. ASSUME NEW id \in DOMAIN conns, conns[id] = e
          PROVE  id \in DOMAIN conns' /\ conns'[id] = e
      BY <3>1, SMT DEF Add, AddWith, With, Ind, TypeOK
    <3>2. CASE ~\E id \in DOMAIN conns : conns[id] = e
      BY <2>2, <3>2, SMT DEF Add, AddWith, Ind, TypeOK, OpenIsHeld
    <3> QED
      BY <3>1, <3>2
  <2> QED
    BY <2>1, <2>2
<1>4. IdsSound'
  BY SMT DEF Add, AddWith, With, Ind, TypeOK, OwnConn, IdsSound, OwnersSound, In,
             Dialing, Removing
<1>5. RequestsSound'
  BY SMT DEF Add, AddWith, With, Ind, TypeOK, OwnConn, IdsSound, RequestsSound
<1>6. OwnersSound'
  BY SMT DEF Add, AddWith, With, Ind, TypeOK, OwnConn, IdsSound, RequestsSound,
             OwnersSound, In, Dialing, Removing
<1> QED
  BY <1>1, <1>2, <1>3, <1>4, <1>5, <1>6 DEF Ind

\* The answer changes nothing in the host.
LEMMA AnswerInd ==
  ASSUME Ind, NEW d \in Dials, AnswerDial(d)
  PROVE  Ind'
<1>1. TypeOK'
  BY SMT DEF AnswerDial, registry, Ind, TypeOK
<1>2. OwnConn'
  BY SMT DEF AnswerDial, registry, Ind, TypeOK, OwnConn, OwnersSound, In, Dialing,
             Removing
<1>3. OpenIsHeld'
  BY SMT DEF AnswerDial, registry, Ind, TypeOK, OwnConn, OpenIsHeld, IdsSound,
             OwnersSound, In, Dialing, Removing
<1>4. IdsSound'
  BY SMT DEF AnswerDial, registry, Ind, TypeOK, OwnConn, IdsSound, OwnersSound, In,
             Dialing, Removing
<1>5. RequestsSound'
  BY SMT DEF AnswerDial, registry, Ind, TypeOK, OwnConn, IdsSound, RequestsSound
<1>6. OwnersSound'
  BY SMT DEF AnswerDial, registry, Ind, TypeOK, OwnConn, IdsSound, RequestsSound,
             OwnersSound, In, Dialing, Removing
<1> QED
  BY <1>1, <1>2, <1>3, <1>4, <1>5, <1>6 DEF Ind

-----------------------------------------------------------------------------
(***************************************************************************)
(* Close and Read.                                                         *)
(***************************************************************************)
\* A connection the plugin was told of has an id.
LEMMA CloseInd ==
  ASSUME Ind, NEW d \in Dials, Close(d)
  PROVE  Ind'
<1>1. TypeOK'
  BY SMT DEF Close, Told, registry, Ind, TypeOK
<1>2. OwnConn'
  BY SMT DEF Close, Told, registry, Ind, TypeOK, OwnConn, OwnersSound, In, Dialing,
             Removing
<1>3. OpenIsHeld'
  <2>1. UNCHANGED <<conns, left, socket, dial>>
    BY DEF Close, registry
  <2>2. close[d].at # "removed"
    BY DEF Close, Ind, RequestsSound
  <2>3. \A e \in Dials : close[e].at = "removed" => close'[e] = close[e]
    BY <2>2, SMT DEF Close, Ind, TypeOK
  <2> QED
    BY <2>1, <2>3 DEF Ind, OpenIsHeld
<1>4. IdsSound'
  BY SMT DEF Close, Told, registry, Ind, TypeOK, OwnConn, IdsSound, OwnersSound, In,
             Dialing, Removing
<1>5. RequestsSound'
  BY SMT DEF Close, Told, registry, Ind, TypeOK, OwnConn, IdsSound, RequestsSound
<1>6. OwnersSound'
  BY SMT DEF Close, Told, registry, Ind, TypeOK, OwnConn, IdsSound, RequestsSound,
             OwnersSound, In, Dialing, Removing
<1> QED
  BY <1>1, <1>2, <1>3, <1>4, <1>5, <1>6 DEF Ind

\* The connection under the id of d is d's, and passes from the registry to the
\* request that closes it.
LEMMA RemoveInd ==
  ASSUME Ind, NEW d \in Dials, Remove(d)
  PROVE  Ind'
<1>1. TypeOK'
  BY SMT DEF Remove, Removed, Ind, TypeOK
<1>2. OwnConn'
  <2>1. Removed(d).conn = d
    BY SMT DEF Removed, Ind, TypeOK, IdsSound
  <2>2. \A e \in Dials : close'[e].conn = e
    BY <2>1, SMT DEF Remove, Ind, TypeOK, OwnConn
  <2> QED
    BY <2>2 DEF Remove, Ind, OwnConn
<1>3. OpenIsHeld'
  BY SMT DEF Remove, Removed, Ind, TypeOK, OwnConn, OpenIsHeld, IdsSound, OwnersSound,
             In, Dialing, Removing
<1>4. IdsSound'
  BY SMT DEF Remove, Removed, Ind, TypeOK, OwnConn, IdsSound, OwnersSound, In,
             Dialing, Removing
<1>5. RequestsSound'
  BY SMT DEF Remove, Removed, Ind, TypeOK, OwnConn, IdsSound, RequestsSound
<1>6. OwnersSound'
  BY SMT DEF Remove, Removed, Ind, TypeOK, OwnConn, IdsSound, RequestsSound,
             OwnersSound, In, Dialing, Removing
<1> QED
  BY <1>1, <1>2, <1>3, <1>4, <1>5, <1>6 DEF Ind

\* The request closes the socket that it alone owns.
LEMMA CloseRemovedInd ==
  ASSUME Ind, NEW d \in Dials, CloseRemoved(d)
  PROVE  Ind'
<1>1. TypeOK'
  BY SMT DEF CloseRemoved, CloseSocket, registry, Ind, TypeOK
<1>2. OwnConn'
  BY SMT DEF CloseRemoved, CloseSocket, registry, Ind, TypeOK, OwnConn, OwnersSound,
             In, Dialing, Removing
<1>3. OpenIsHeld'
  BY SMT DEF CloseRemoved, CloseSocket, registry, Ind, TypeOK, OwnConn, OpenIsHeld,
             IdsSound, OwnersSound, In, Dialing, Removing
<1>4. IdsSound'
  BY SMT DEF CloseRemoved, CloseSocket, registry, Ind, TypeOK, OwnConn, IdsSound,
             OwnersSound, In, Dialing, Removing
<1>5. RequestsSound'
  BY SMT DEF CloseRemoved, CloseSocket, registry, Ind, TypeOK, OwnConn, IdsSound,
             RequestsSound
<1>6. OwnersSound'
  <2>1. /\ close[d].conn = d /\ close[d].at = "removed"
        /\ closes' = [closes EXCEPT ![d] = @ + 1]
        /\ UNCHANGED <<left, connID, conns, dial>>
    BY DEF CloseRemoved, CloseSocket, registry, Ind, OwnConn
  <2>2. \A e \in Dials : close'[e].at = IF e = d THEN "closed" ELSE close[e].at
    BY SMT DEF CloseRemoved, Ind, TypeOK
  <2>3. ~In(d) /\ d \notin left /\ ~Dialing(d) /\ dial[d] \notin {"idle", "dialing"}
    BY <2>1 DEF Ind, IdsSound, RequestsSound, OwnersSound, Dialing, Removing
  <2>4. \A e \in Dials : closes'[e] = IF e = d THEN closes[e] + 1 ELSE closes[e]
    BY <2>1, SMT DEF Ind, TypeOK
  <2>5. phase' = phase
    BY DEF CloseRemoved
  <2> QED
    BY <2>1, <2>2, <2>3, <2>4, <2>5 DEF Ind, OwnersSound, In, Dialing, Removing
<1> QED
  BY <1>1, <1>2, <1>3, <1>4, <1>5, <1>6 DEF Ind

\* A Read that works on its own connection.
SoundRead(next) ==
    /\ next \in Requests
    /\ next.from = next.conn
    /\ next.at = "asked" => connID[next.conn] # 0

\* A Read looks up the connection it was called on and changes nothing else.
LEMMA ReadInd ==
  ASSUME Ind, NEW r \in Reads, StartRead(r) \/ Get(r) \/ PeerWakes(r) \/ CloseWakes(r)
  PROVE  Ind'
<1>1. UNCHANGED <<phase, seq, conns, left, connID, socket, closes, dial, closed, close>>
  BY DEF StartRead, Get, PeerWakes, CloseWakes, registry
<1>2. \E next : SoundRead(next) /\ read' = [read EXCEPT ![r] = next]
  <2> USE DEF SoundRead, Ind, TypeOK
  <2>1. CASE StartRead(r)
    <3>1. PICK d \in Dials : /\ Told(d)
                            /\ read' = [read EXCEPT ![r] =
                                 IF closed[d]
                                 THEN [NoRead(d) EXCEPT !.at = "done", !.result = "ErrClosed"]
                                 ELSE [NoRead(d) EXCEPT !.at = "asked"]]
      BY <2>1 DEF StartRead
    <3>2. connID[d] # 0
      BY <3>1 DEF Told, IdsSound
    <3>3. NoRead(d) \in Requests /\ NoRead(d).from = d /\ NoRead(d).conn = d
      BY DEF NoRead, Requests
    <3>4. /\ SoundRead([NoRead(d) EXCEPT !.at = "done", !.result = "ErrClosed"])
          /\ SoundRead([NoRead(d) EXCEPT !.at = "asked"])
      BY <3>2, <3>3 DEF Requests
    <3> QED
      BY <3>1, <3>4
  <2>2. CASE Get(r)
    <3>1. read[r].at = "asked" /\ read[r] \in Requests /\ read[r].from = read[r].conn
      BY <2>2 DEF Get, OwnConn, Requests
    <3>2. SoundRead([read[r] EXCEPT !.at = "done", !.result = "notOpen"])
      BY <3>1 DEF Requests
    <3>3. ASSUME connID[read[r].conn] \in DOMAIN conns
          PROVE  SoundRead([read[r] EXCEPT !.at = "blocked",
                                           !.from = conns[connID[read[r].conn]]])
      <4>1. conns[connID[read[r].conn]] = read[r].conn
        BY <3>1, <3>3 DEF IdsSound, Requests
      <4> QED
        BY <3>1, <4>1 DEF Requests
    <3> QED
      BY <2>2, <3>2, <3>3 DEF Get, ReadAt
  <2>3. CASE PeerWakes(r) \/ CloseWakes(r)
    <3>1. read[r] \in Requests /\ read[r].from = read[r].conn
      BY DEF OwnConn, Requests
    <3>2. \A result \in {"data", "eof", "timeout", "error"} :
             SoundRead([read[r] EXCEPT !.at = "done", !.result = result])
      BY <3>1 DEF Requests
    <3> QED
      BY <2>3, <3>2 DEF PeerWakes, CloseWakes, ReadAt
  <2> QED
    BY <2>1, <2>2, <2>3
<1>3. TypeOK' /\ OwnConn' /\ RequestsSound'
  <2>1. PICK next : SoundRead(next) /\ read' = [read EXCEPT ![r] = next]
    BY <1>2
  <2>2. read' \in [Reads -> Requests]
    BY <2>1 DEF Ind, TypeOK, SoundRead, Requests
  <2>3. \A q \in Reads : /\ read'[q].from = read'[q].conn
                         /\ read'[q].at = "asked" => connID[read'[q].conn] # 0
    BY <2>1 DEF Ind, TypeOK, OwnConn, RequestsSound, SoundRead
  <2> QED
    BY <1>1, <2>2, <2>3 DEF Ind, TypeOK, OwnConn, RequestsSound, Requests
<1>4. OpenIsHeld' /\ IdsSound' /\ OwnersSound'
  BY <1>1 DEF Ind, OpenIsHeld, IdsSound, OwnersSound, In, Dialing, Removing
<1> QED
  BY <1>3, <1>4 DEF Ind

-----------------------------------------------------------------------------
(***************************************************************************)
(* The end of the invocation.                                              *)
(***************************************************************************)
\* What closeAll takes out of the registry is its own to close.
LEMMA CloseAllInd ==
  ASSUME Ind, CloseAll
  PROVE  Ind'
<1>1. TypeOK'
  BY SMT DEF CloseAll, Ind, TypeOK
<1>2. OwnConn'
  BY SMT DEF CloseAll, Ind, TypeOK, OwnConn, OwnersSound, In, Dialing, Removing
<1>3. OpenIsHeld'
  <2> SUFFICES ASSUME NEW e \in Dials, socket[e] = "open"
               PROVE  \/ e \in left' \/ Dialing(e)
                      \/ close[e].at = "removed" /\ close[e].conn = e
    BY DEF CloseAll, OpenIsHeld, Dialing
  <2>1. left = {} /\ socket[e] = "open"
    BY DEF CloseAll, Ind, OwnersSound
  <2> QED
    BY <2>1, SMT DEF CloseAll, Ind, OpenIsHeld, Dialing
<1>4. IdsSound'
  BY SMT DEF CloseAll, Ind, TypeOK, OwnConn, IdsSound, OwnersSound, In, Dialing,
             Removing
<1>5. RequestsSound'
  BY SMT DEF CloseAll, Ind, TypeOK, OwnConn, IdsSound, RequestsSound
<1>6. OwnersSound'
  BY SMT DEF CloseAll, Ind, TypeOK, OwnConn, IdsSound, RequestsSound, OwnersSound, In,
             Dialing, Removing
<1> QED
  BY <1>1, <1>2, <1>3, <1>4, <1>5, <1>6 DEF Ind

\* closeAll closes each of those once.
LEMMA CloseLeftInd ==
  ASSUME Ind, NEW d \in Dials, CloseLeft(d)
  PROVE  Ind'
<1>1. TypeOK'
  BY SMT DEF CloseLeft, CloseSocket, Ind, TypeOK
<1>2. OwnConn'
  BY SMT DEF CloseLeft, CloseSocket, Ind, TypeOK, OwnConn, OwnersSound, In, Dialing,
             Removing
<1>3. OpenIsHeld'
  BY SMT DEF CloseLeft, CloseSocket, Ind, TypeOK, OwnConn, OpenIsHeld, IdsSound,
             OwnersSound, In, Dialing, Removing
<1>4. IdsSound'
  BY SMT DEF CloseLeft, CloseSocket, Ind, TypeOK, OwnConn, IdsSound, OwnersSound, In,
             Dialing, Removing
<1>5. RequestsSound'
  BY SMT DEF CloseLeft, CloseSocket, Ind, TypeOK, OwnConn, IdsSound, RequestsSound
<1>6. OwnersSound'
  <2>1. /\ closes' = [closes EXCEPT ![d] = @ + 1] /\ d \in left /\ left' = left \ {d}
        /\ UNCHANGED <<connID, conns, dial, close>>
    BY DEF CloseLeft, CloseSocket
  <2>2. ~In(d) /\ ~Removing(d) /\ ~Dialing(d) /\ dial[d] \notin {"idle", "dialing"}
    BY <2>1 DEF Ind, IdsSound, OwnersSound, Dialing
  <2>3. \A e \in Dials : closes'[e] = IF e = d THEN closes[e] + 1 ELSE closes[e]
    BY <2>1, SMT DEF Ind, TypeOK
  <2>4. phase' = phase /\ phase # "open"
    BY DEF CloseLeft
  <2> QED
    BY <2>1, <2>2, <2>3, <2>4 DEF Ind, OwnersSound, In, Dialing, Removing
<1> QED
  BY <1>1, <1>2, <1>3, <1>4, <1>5, <1>6 DEF Ind

\* The return touches no connection, and neither does a stuttering step.
LEMMA ReturnInd ==
  ASSUME Ind, Return \/ UNCHANGED vars
  PROVE  Ind'
<1>1. TypeOK'
  BY SMT DEF Return, registry, vars, Ind, TypeOK
<1>2. OwnConn'
  BY SMT DEF Return, registry, vars, Ind, TypeOK, OwnConn, OwnersSound, In, Dialing,
             Removing
<1>3. OpenIsHeld'
  BY SMT DEF Return, registry, vars, Ind, TypeOK, OwnConn, OpenIsHeld, IdsSound,
             OwnersSound, In, Dialing, Removing
<1>4. IdsSound'
  BY SMT DEF Return, registry, vars, Ind, TypeOK, OwnConn, IdsSound, OwnersSound, In,
             Dialing, Removing
<1>5. RequestsSound'
  BY SMT DEF Return, registry, vars, Ind, TypeOK, OwnConn, IdsSound, RequestsSound
<1>6. OwnersSound'
  BY SMT DEF Return, registry, vars, Ind, TypeOK, OwnConn, IdsSound, RequestsSound,
             OwnersSound, In, Dialing, Removing
<1> QED
  BY <1>1, <1>2, <1>3, <1>4, <1>5, <1>6 DEF Ind

\* Ind is preserved by every step.
LEMMA NextInd == Ind /\ [Next]_vars => Ind'
<1> SUFFICES ASSUME Ind, [Next]_vars PROVE Ind'
  OBVIOUS
<1>1. ASSUME NEW d \in Dials, AskDial(d) \/ Close(d) PROVE Ind'
  BY <1>1, AskInd, CloseInd
<1>2. ASSUME NEW d \in Dials, DialStep(d) PROVE Ind'
  BY <1>2, FailsInd, ConnectsInd, HandshakeInd, AddInd, AnswerInd DEF DialStep
<1>3. ASSUME NEW d \in Dials, CloseStep(d) PROVE Ind'
  BY <1>3, RemoveInd, CloseRemovedInd DEF CloseStep
<1>4. ASSUME NEW r \in Reads, StartRead(r) \/ PeerWakes(r) \/ ReadStep(r) PROVE Ind'
  BY <1>4, ReadInd DEF ReadStep
<1>5. CASE InvokeStep
  BY <1>5, CloseAllInd, CloseLeftInd, ReturnInd DEF InvokeStep
<1>6. CASE UNCHANGED vars
  BY <1>6, ReturnInd
<1> QED
  BY <1>1, <1>2, <1>3, <1>4, <1>5, <1>6 DEF Next

\* Ind is an invariant.
LEMMA Invariance == Spec => []Ind
  BY InitInd, NextInd, PTL DEF Spec

\* Every variable keeps its type.
THEOREM TypeCorrect == Spec => []TypeOK
<1>1. Ind => TypeOK
  BY DEF Ind
<1> QED
  BY <1>1, Invariance, PTL

\* Requests work on the connection they were made on, and no socket is closed twice.
THEOREM OwnConnTheorem == Spec => []OwnConn
<1>1. Ind => OwnConn
  BY DEF Ind
<1> QED
  BY <1>1, Invariance, PTL

\* Every open socket is in the registry or has somebody who will add or close it.
THEOREM OpenIsHeldTheorem == Spec => []OpenIsHeld
<1>1. Ind => OpenIsHeld
  BY DEF Ind
<1> QED
  BY <1>1, Invariance, PTL
=============================================================================
