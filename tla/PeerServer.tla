----------------------------- MODULE PeerServer -----------------------------
(***************************************************************************)
(* `network peer serve`: Server.Serve and its handlers (internal/bench/    *)
(* network/peer), one goroutine per request.  A request is a slot of a     *)
(* client; the client's token and its random session travel with it.       *)
(***************************************************************************)
EXTENDS Integers, FiniteSets

CONSTANTS
    Clients,        \* the peer runs; each has a session of its own
    TrustedSets,    \* the sets of clients that may have the server's token
    Slots           \* the request slots of a client

ASSUME TrustedAssumption == TrustedSets \subseteq SUBSET Clients

VARIABLES
    server,     \* "listening", "draining" (Shutdown was called) or "stopped"
    serverExit, \* the exit code of the command, or NoExit
    trusted,    \* the clients that present the server's token
    session,    \* Server.session: the client that claimed the token, or NoClient
    request     \* request[c][i]: what the server makes of the request in slot i

serverVars == <<server, serverExit, trusted, session, request>>

NoClient == "no client"
NoExit == -1

\* A session is sixteen random bytes in hexadecimal, never the empty string.
ASSUME ClientsAssumption == NoClient \notin Clients

RequestStates == {"none", "arrived", "serving", "answered", "refused", "broken"}

\* The server still has a goroutine for the request.
Active(c, i) == request[c][i] \in {"arrived", "serving"}
Quiescent == \A c \in Clients, i \in Slots : ~Active(c, i)

ServerTypeOK ==
    /\ server \in {"listening", "draining", "stopped"}
    /\ serverExit \in {NoExit, 1, 130}
    /\ trusted \in TrustedSets
    /\ session \in Clients \union {NoClient}
    /\ request \in [Clients -> [Slots -> RequestStates]]

ServerInit ==
    /\ server = "listening"
    /\ serverExit = NoExit
    /\ trusted \in TrustedSets
    /\ session = NoClient
    /\ request = [c \in Clients |-> [i \in Slots |-> "none"]]

Become(c, i, state) == request' = [request EXCEPT ![c][i] = state]

-----------------------------------------------------------------------------
\* Mutants of Authorize: the last run to come claims the token; a token is
\* good for one request only.
LastOneClaims(c, i) ==
    /\ request[c][i] = "arrived"
    /\ session' = IF c \in trusted THEN c ELSE session
    /\ Become(c, i, IF c \in trusted THEN "serving" ELSE "refused")
    /\ UNCHANGED <<server, serverExit, trusted>>

OneRequestPerToken(c, i) ==
    /\ request[c][i] = "arrived"
    /\ session' = IF c \in trusted /\ session = NoClient THEN c ELSE session
    /\ Become(c, i, IF session = NoClient /\ session' = c THEN "serving" ELSE "refused")
    /\ UNCHANGED <<server, serverExit, trusted>>

\* authorize: a wrong token is refused; the first right one claims the session
\* under the mutex, and only its session is let through.
Authorize(c, i) ==
    /\ request[c][i] = "arrived"
    /\ session' = IF c \in trusted /\ session = NoClient THEN c ELSE session
    /\ Become(c, i, IF c \in trusted /\ c = session' THEN "serving" ELSE "refused")
    /\ UNCHANGED <<server, serverExit, trusted>>

\* The handler returns: the deadline of a download, the end of an upload's
\* body, or an empty answer; the client gets all of it.
Answer(c, i) ==
    /\ request[c][i] = "serving"
    /\ Become(c, i, "answered")
    /\ UNCHANGED <<server, serverExit, trusted, session>>

\* A read or a write of the handler fails: the client is gone or the
\* connection broke.
Break(c, i) ==
    /\ request[c][i] = "serving"
    /\ Become(c, i, "broken")
    /\ UNCHANGED <<server, serverExit, trusted, session>>

\* SIGINT: Shutdown closes the listener and waits for the active requests.
StopListening ==
    /\ server = "listening"
    /\ server' = "draining"
    /\ UNCHANGED <<serverExit, trusted, session, request>>

\* The process ends, and every request it still has with it.
Exit(code) ==
    /\ server' = "stopped"
    /\ serverExit' = code
    /\ request' = [c \in Clients |-> [i \in Slots |->
                        IF Active(c, i) THEN "broken" ELSE request[c][i]]]
    /\ UNCHANGED <<trusted, session>>

\* Mutant of Drained: the interrupted server exits 0.
DrainedWithZero ==
    /\ server = "draining"
    /\ Quiescent
    /\ Exit(0)

Drained ==
    /\ server = "draining"
    /\ Quiescent
    /\ Exit(130)

\* Mutant of DrainTimeout: Shutdown gets a context without a deadline.
DrainWithoutDeadline ==
    /\ server = "draining"
    /\ Quiescent
    /\ Exit(1)

\* Shutdown gives up after ten seconds, which a transfer may well outlast.
DrainTimeout ==
    /\ server = "draining"
    /\ ~Quiescent
    /\ Exit(1)

\* Accept fails for good.
ServeFails ==
    /\ server = "listening"
    /\ Exit(1)

ServerStep ==
    \/ \E c \in Clients, i \in Slots : Authorize(c, i) \/ Answer(c, i) \/ Break(c, i)
    \/ StopListening \/ Drained \/ DrainTimeout \/ ServeFails
=============================================================================
