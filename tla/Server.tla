------------------------------- MODULE Server ------------------------------
(***************************************************************************)
(* Server of server.go: the accept loop of Serve (ListenAndServe differs   *)
(* only in making the listener), one handleConn goroutine per connection,  *)
(* and one caller of Close or Shutdown.  Of a Conn only what these see is  *)
(* kept: its closed flag, whether its handler is inside Read or Write      *)
(* holding readMu or writeMu, and whether the socket is open.  The handler *)
(* is the user's: it reads and writes, and it returns at the latest when a *)
(* call fails.                                                             *)
(***************************************************************************)
EXTENDS Integers, FiniteSets

CONSTANTS Client,      \* clients that connect, once each
          MaxConns     \* cap(s.acceptLimit)

ASSUME ServerAssumption == MaxConns \in Nat \ {0} /\ IsFiniteSet(Client)

VARIABLES spc,         \* where Serve stands
          listener,    \* s.listener: "unset", "open", "closed"
          tokens,      \* len(s.acceptLimit)
          closed,      \* s.closed; s.closing is closed right after it
          closing, closeDone,
          cpc,         \* where Close or Shutdown stands
          call,        \* which of the two it is
          ctxDone,     \* Shutdown's ctx has expired
          todo,        \* the snapshot of s.conns still to be closed
          target,      \* the one being closed, if any
          hpc,         \* where handleConn of a client's connection stands
          conns,       \* s.conns
          connClosed,  \* c.closed
          blocked,     \* the handler waits for the peer in c.Read or c.Write
          open,        \* sockets not closed by the server
          accepted, active, finished     \* connsAccepted, connsActive, connsClosed

serveVars  == <<spc, tokens>>
closeVars  == <<closed, closing, cpc, call, ctxDone, todo, target>>
connVars   == <<hpc, conns, connClosed, blocked, open>>
statVars   == <<accepted, active, finished>>
vars == <<serveVars, listener, closeDone, closeVars, connVars, statVars>>

Init == /\ spc = "idle" /\ listener = "unset" /\ tokens = 0
        /\ closed = FALSE /\ closing = FALSE /\ closeDone = FALSE
        /\ cpc = "idle" /\ call \in {"Close", "Shutdown"} /\ ctxDone = FALSE
        /\ todo = {} /\ target = {}
        /\ hpc = [c \in Client |-> "none"]
        /\ conns = {} /\ connClosed = {} /\ blocked = {} /\ open = {}
        /\ accepted = 0 /\ active = 0 /\ finished = 0
----------------------------------------------------------------------------
(* Mutant: closing is looked at before the listener is stored. *)
StoreListenerLate ==
    /\ \/ spc = "idle" /\ ~closing /\ spc' = "store" /\ UNCHANGED <<listener, closeDone>>
       \/ spc = "idle" /\ closing /\ spc' = "returned" /\ closeDone' = TRUE /\ UNCHANGED listener
       \/ spc = "store" /\ spc' = "acquire" /\ listener' = "open" /\ UNCHANGED closeDone
    /\ UNCHANGED <<tokens, closeVars, connVars, statVars>>

StoreListener ==
    /\ spc = "idle"
    /\ listener' = "open"
    /\ spc' = "top"
    /\ UNCHANGED <<tokens, closeDone, closeVars, connVars, statVars>>

Stop == spc' = "returned" /\ closeDone' = TRUE

CheckClosing ==
    /\ spc = "top"
    /\ IF closing THEN Stop ELSE spc' = "acquire" /\ UNCHANGED closeDone
    /\ UNCHANGED <<listener, tokens, closeVars, connVars, statVars>>

(* Mutant: room for one connection more than the limit. *)
AcquireTokenExtra ==
    /\ spc = "acquire"
    /\ \/ tokens <= MaxConns /\ tokens' = tokens + 1 /\ spc' = "accept" /\ UNCHANGED closeDone
       \/ closing /\ Stop /\ UNCHANGED tokens
    /\ UNCHANGED <<listener, closeVars, connVars, statVars>>

(* The select takes either branch when both are ready. *)
AcquireToken ==
    /\ spc = "acquire"
    /\ \/ tokens < MaxConns /\ tokens' = tokens + 1 /\ spc' = "accept" /\ UNCHANGED closeDone
       \/ closing /\ Stop /\ UNCHANGED tokens
    /\ UNCHANGED <<listener, closeVars, connVars, statVars>>

(* Accept, the two counters and the go statement: between them nothing of  *)
(* the accept loop can be seen but the counters, by Stats.                 *)
Accept(c) ==
    /\ spc = "accept" /\ listener = "open"
    /\ hpc[c] = "none"
    /\ hpc' = [hpc EXCEPT ![c] = "spawned"]
    /\ open' = open \cup {c}
    /\ accepted' = accepted + 1 /\ active' = active + 1
    /\ spc' = "top"
    /\ UNCHANGED <<listener, tokens, closeDone, closeVars, conns, connClosed, blocked, finished>>

(* Mutant: the token is not given back when Accept fails. *)
AcceptErrorLeak ==
    /\ spc = "accept"
    /\ IF closed THEN Stop ELSE spc' = "top" /\ UNCHANGED closeDone
    /\ UNCHANGED <<tokens, listener, closeVars, connVars, statVars>>

(* Accept fails: because the listener is closed, or for a passing reason.  *)
AcceptError ==
    /\ spc = "accept"
    /\ tokens' = tokens - 1
    /\ IF closed THEN Stop ELSE spc' = "top" /\ UNCHANGED closeDone
    /\ UNCHANGED <<listener, closeVars, connVars, statVars>>

Serve == \/ StoreListener \/ CheckClosing \/ AcquireToken
         \/ \E c \in Client : Accept(c)
         \/ AcceptError
----------------------------------------------------------------------------
At(c, from, to) == hpc[c] = from /\ hpc' = [hpc EXCEPT ![c] = to]

Register(c) ==
    /\ At(c, "spawned", "running")
    /\ conns' = conns \cup {c}
    /\ UNCHANGED <<serveVars, listener, closeDone, closeVars, connClosed, blocked, open, statVars>>

(* The handler calls c.Read or c.Write, which finds the connection open,   *)
(* takes its lock and blocks in netConn ...                                *)
CallBlocks(c) ==
    /\ hpc[c] = "running" /\ c \notin blocked /\ c \notin connClosed
    /\ blocked' = blocked \cup {c}
    /\ UNCHANGED <<serveVars, listener, closeDone, closeVars, hpc, conns, connClosed, open, statVars>>

(* ... until the peer sends something, or takes what is written to it. *)
CallGoesOn(c) ==
    /\ c \in blocked
    /\ blocked' = blocked \ {c}
    /\ UNCHANGED <<serveVars, listener, closeDone, closeVars, hpc, conns, connClosed, open, statVars>>

(* The peer hangs up, and the handler returns; or it returns by itself;    *)
(* or because Read or Write said ErrConnClosed.                            *)
HandlerReturns(c) ==
    /\ At(c, "running", "leaving")
    /\ blocked' = blocked \ {c}
    /\ UNCHANGED <<serveVars, listener, closeDone, closeVars, conns, connClosed, open, statVars>>

(* The deferred functions, last one first. *)
Unregister(c) ==
    /\ At(c, "leaving", "closing")
    /\ conns' = conns \ {c}
    /\ UNCHANGED <<serveVars, listener, closeDone, closeVars, connClosed, blocked, open, statVars>>

(* c.Close: the caller that sets the flag goes on to close the socket,     *)
(* another one gets ErrConnClosed at once.                                 *)
HandlerCloses(c) ==
    /\ At(c, "closing", IF c \in connClosed THEN "closed" ELSE "flushing")
    /\ connClosed' = connClosed \cup {c}
    /\ UNCHANGED <<serveVars, listener, closeDone, closeVars, conns, open, blocked, statVars>>

(* Mutant: the handler's socket is left to the garbage collector. *)
HandlerForgetsClose(c) ==
    /\ At(c, "flushing", "closed")
    /\ UNCHANGED <<serveVars, listener, closeDone, closeVars, conns, connClosed, open, blocked, statVars>>

(* Its Flush, when the peer takes what is left to be written, and the rest *)
(* of c.Close, which meets no other call of the handler's.                 *)
HandlerSocket(c) ==
    /\ At(c, "flushing", "closed")
    /\ open' = open \ {c}
    /\ UNCHANGED <<serveVars, listener, closeDone, closeVars, conns, connClosed, blocked, statVars>>

ReleaseToken(c) ==
    /\ At(c, "closed", "released")
    /\ tokens' = tokens - 1
    /\ UNCHANGED <<spc, listener, closeDone, closeVars, conns, connClosed, blocked, open, statVars>>

CountActive(c) ==
    /\ At(c, "released", "counted")
    /\ active' = active - 1
    /\ UNCHANGED <<serveVars, listener, closeDone, closeVars, conns, connClosed, blocked, open,
                   accepted, finished>>

CountClosed(c) ==
    /\ At(c, "counted", "done")
    /\ finished' = finished + 1
    /\ UNCHANGED <<serveVars, listener, closeDone, closeVars, conns, connClosed, blocked, open,
                   accepted, active>>

handleConn(c) == \/ Register(c) \/ CallBlocks(c) \/ HandlerReturns(c)
                 \/ Unregister(c) \/ HandlerCloses(c) \/ HandlerSocket(c)
                 \/ ReleaseToken(c) \/ CountActive(c) \/ CountClosed(c)
----------------------------------------------------------------------------
closeRest == <<serveVars, closeDone, call, ctxDone, hpc, conns, blocked, statVars>>

CloseBegins ==
    /\ cpc = "idle" /\ ~closed
    /\ closed' = TRUE
    /\ cpc' = "signal"
    /\ UNCHANGED <<closeRest, listener, closing, todo, target, connClosed, open>>

(* Mutant: the flag is set but the channel is never closed. *)
CloseSignalsNothing ==
    /\ cpc = "signal"
    /\ cpc' = "listener"
    /\ UNCHANGED <<closeRest, listener, closed, closing, todo, target, connClosed, open>>

CloseSignals ==
    /\ cpc = "signal"
    /\ closing' = TRUE
    /\ cpc' = "listener"
    /\ UNCHANGED <<closeRest, listener, closed, todo, target, connClosed, open>>

(* Mutant: the listener is left open while the connections are closed. *)
CloseListenerLate ==
    /\ cpc = "listener"
    /\ cpc' = "snapshot"
    /\ UNCHANGED <<closeRest, listener, closed, closing, todo, target, connClosed, open>>

(* s.listener.Load() and, unless Serve has not stored it yet, Close. *)
CloseListener ==
    /\ cpc = "listener"
    /\ listener' = IF listener = "open" THEN "closed" ELSE listener
    /\ cpc' = "snapshot"
    /\ UNCHANGED <<closeRest, closed, closing, todo, target, connClosed, open>>

Snapshot ==
    /\ cpc = "snapshot"
    /\ todo' = conns
    /\ cpc' = "conns"
    /\ UNCHANGED <<closeRest, listener, closed, closing, target, connClosed, open>>

(* c.Close on the next connection of the snapshot sets the flag and goes   *)
(* on, or finds it set by the handler and returns.                         *)
CloseConn(c) ==
    /\ cpc = "conns" /\ c \in todo
    /\ todo' = todo \ {c}
    /\ connClosed' = connClosed \cup {c}
    /\ IF c \in connClosed THEN UNCHANGED <<cpc, target>>
       ELSE cpc' = "flush" /\ target' = {c}
    /\ UNCHANGED <<closeRest, listener, closed, closing, open>>

(* Its Flush returns: writeMu got free and the peer, on a socket without a *)
(* deadline, took what was left to be written, or the socket broke.        *)
CloseFlush(c) ==
    /\ cpc = "flush" /\ c \in target
    /\ cpc' = "socket"
    /\ UNCHANGED <<closeRest, listener, closed, closing, todo, target, connClosed, open>>

(* The dispatcher done, it takes readMu and then writeMu, waiting for the  *)
(* handler's Read or Write, and closes the socket.                         *)
CloseSocket(c) ==
    /\ cpc = "socket" /\ c \in target /\ c \notin blocked
    /\ open' = open \ {c}
    /\ target' = {}
    /\ cpc' = "conns"
    /\ UNCHANGED <<closeRest, listener, closed, closing, todo, connClosed>>

(* All connections done: Close waits for the accept loop to stop, and      *)
(* Shutdown for that or for its context.                                   *)
CloseReturns ==
    /\ cpc = "conns" /\ todo = {}
    /\ closeDone \/ (call = "Shutdown" /\ ctxDone)
    /\ cpc' = "returned"
    /\ UNCHANGED <<closeRest, listener, closed, closing, todo, target, connClosed, open>>

ContextExpires ==
    /\ call = "Shutdown" /\ cpc # "idle" /\ ~ctxDone
    /\ ctxDone' = TRUE
    /\ UNCHANGED <<serveVars, listener, closeDone, closed, closing, cpc, call, todo, target,
                   connVars, statVars>>

Close == \/ CloseBegins \/ CloseSignals \/ CloseListener \/ Snapshot
         \/ \E c \in Client : CloseConn(c) \/ CloseFlush(c) \/ CloseSocket(c)
         \/ CloseReturns
----------------------------------------------------------------------------
Next == \/ Serve
        \/ \E c \in Client : handleConn(c) \/ CallGoesOn(c)
        \/ Close
        \/ ContextExpires

(* Goroutines that can run do: Serve is called and goes on, and its Accept *)
(* fails once the listener is closed; the closer; a handler outside the    *)
(* user's code, and one whose next call says ErrConnClosed.  Nothing is    *)
(* said of the peers: what they are waited for in, a call of the handler's *)
(* and the Flush of c.Close, may never return.                             *)
Progress ==
    /\ WF_vars(StoreListener) /\ WF_vars(CheckClosing) /\ WF_vars(AcquireToken)
    /\ WF_vars(listener = "closed" /\ AcceptError)
    /\ WF_vars(cpc \notin {"idle", "flush"} /\ Close)
    /\ \A c \in Client :
          /\ WF_vars(hpc[c] \notin {"running", "flushing"} /\ handleConn(c))
          /\ WF_vars(c \in connClosed \ blocked /\ HandlerReturns(c))

Spec == Init /\ [][Next]_vars /\ Progress
----------------------------------------------------------------------------
TypeOK ==
    /\ spc \in {"idle", "top", "acquire", "accept", "returned"}
    /\ listener \in {"unset", "open", "closed"}
    /\ tokens \in 0..MaxConns
    /\ closed \in BOOLEAN /\ closing \in BOOLEAN /\ closeDone \in BOOLEAN
    /\ cpc \in {"idle", "signal", "listener", "snapshot", "conns", "flush", "socket",
               "returned"}
    /\ call \in {"Close", "Shutdown"} /\ ctxDone \in BOOLEAN
    /\ todo \subseteq Client /\ target \subseteq Client
    /\ hpc \in [Client -> {"none", "spawned", "running", "leaving", "closing", "flushing",
                           "closed", "released", "counted", "done"}]
    /\ conns \subseteq Client /\ connClosed \subseteq Client
    /\ blocked \subseteq Client /\ open \subseteq Client
    /\ accepted \in Nat /\ active \in Nat /\ finished \in Nat

(* MaxConns holds for sockets: never more of them are open at once, also   *)
(* while Close and the handlers close the same connections and a handler   *)
(* that loses the race gives its token back before the socket is closed.   *)
OpenBounded == Cardinality(open) <= MaxConns

Holding == {c \in Client : hpc[c] \in {"spawned", "running", "leaving", "closing", "flushing",
                                        "closed"}}

(* No token is lost or made up: acceptLimit holds one for the Accept in    *)
(* progress and one for every connection not yet handed back.              *)
TokensMatch == tokens = Cardinality(Holding) + (IF spc = "accept" THEN 1 ELSE 0)

(* When Serve, Close or Shutdown and every handler have returned, nothing  *)
(* is left: every socket is closed, registered connections are gone and    *)
(* the counters of Stats add up.                                           *)
NothingLeft ==
    /\ spc = "returned" /\ cpc = "returned"
    /\ \A c \in Client : hpc[c] \in {"none", "done"}
    => /\ open = {} /\ conns = {}
       /\ active = 0 /\ accepted = finished

(* After Close or Shutdown is called Serve returns, wherever it was: also  *)
(* when it had not stored its listener yet, waited for a token or was in   *)
(* Accept, and whatever the peers do.                                      *)
ServeStops == closed ~> spc = "returned"

(* The closer is in the c.Close of connection c, and there it waits for    *)
(* the peer: in Flush, or for a lock of a call that waits for the peer.    *)
HeldUpBy(c) == c \in target /\ (cpc = "flush" \/ (cpc = "socket" /\ c \in blocked))

(* Close and Shutdown return, or from some time on the peer of one and the *)
(* same connection holds them up at every moment: nothing else can, not    *)
(* the accept loop, the other connections, a handler that closes its       *)
(* connection at the same time, or clients that connect meanwhile.         *)
CloseEnds == closed ~> (cpc = "returned" \/ \E c \in Client : []HeldUpBy(c))
----------------------------------------------------------------------------
(* server.go: "Close shuts down the server and all active connections": no *)
(* handler is left running on an open connection.                          *)
CloseClosesAll ==
    cpc = "returned" /\ call = "Close" => \A c \in Client : hpc[c] = "running" => c \in connClosed
============================================================================
