------------------------------ MODULE PeerBench ------------------------------
(***************************************************************************)
(* `network peer run`: Run and transfer (internal/bench/network/peer) as   *)
(* any number of runs against one PeerServer.  A phase starts a goroutine  *)
(* per stream; each makes one request and sends either its byte count or   *)
(* its error over a buffered channel to Run, which takes one message per   *)
(* stream and gives up at the first error.  A round trip is a phase whose  *)
(* only stream is Run itself: it waits for its request and nothing else.   *)
(***************************************************************************)
EXTENDS PeerServer, Sequences

CONSTANTS
    RoundTrips,    \* the number of round trips, which come first
    Transfers      \* the number of streams of each transfer, in order

ASSUME PhasesAssumption ==
    /\ RoundTrips \in Nat
    /\ Transfers \in Seq(Nat \ {0})
    /\ 1 \in Slots
    /\ \A k \in 1..Len(Transfers) : 1..Transfers[k] \subseteq Slots

\* The number of streams of each phase.
Phases == [k \in 1..RoundTrips |-> 1] \o Transfers

VARIABLES
    phase,      \* phase[c]: the number of phases run c has started
    outcome,    \* outcome[c]: "running", "success" or "failed"
    stream,     \* stream[c][i]: what goroutine i of the current phase is doing
    cancelled   \* cancelled[c]: the run's context is done

clientVars == <<phase, outcome, stream, cancelled>>
peerVars == <<clientVars, serverVars>>

\* "starting" before its request, "waiting" for the answer, "bytes" or "failure"
\* before its send; "result" or "error" in a channel and "taken" out of it,
\* when the goroutine has ended.
StreamStates == {"none", "starting", "waiting", "bytes", "failure", "result", "error", "taken"}
Alive == {"starting", "waiting", "bytes", "failure"}

PeerTypeOK ==
    /\ ServerTypeOK
    /\ phase \in [Clients -> 0..Len(Phases)]
    /\ outcome \in [Clients -> {"running", "success", "failed"}]
    /\ stream \in [Clients -> [Slots -> StreamStates]]
    /\ cancelled \in [Clients -> BOOLEAN]

PeerInit ==
    /\ ServerInit
    /\ phase = [c \in Clients |-> 0]
    /\ outcome = [c \in Clients |-> "running"]
    /\ stream = [c \in Clients |-> [i \in Slots |-> "none"]]
    /\ cancelled = [c \in Clients |-> FALSE]

Transferring(c) == phase[c] > RoundTrips
Streams(c) == IF phase[c] = 0 THEN {} ELSE 1..Phases[phase[c]]
InChannel(c, message) == {i \in Slots : stream[c][i] = message}

Turn(c, i, state) == stream' = [stream EXCEPT ![c][i] = state]

-----------------------------------------------------------------------------
(* The goroutines of a phase. *)

\* client.Do: the request arrives, also over a connection that was opened
\* before a shutdown began, or it never leaves this host.
Request(c, i) ==
    /\ stream[c][i] = "starting"
    /\ \/ /\ server # "stopped"
          /\ ~cancelled[c]
          /\ Become(c, i, "arrived")
          /\ Turn(c, i, "waiting")
       \/ /\ Turn(c, i, "failure")
          /\ UNCHANGED request
    /\ UNCHANGED <<server, serverExit, trusted, session, phase, outcome, cancelled>>

\* The body was read to its end, or the status or the connection tells an error.
Response(c, i) ==
    /\ stream[c][i] = "waiting"
    /\ \/ request[c][i] = "answered" /\ Turn(c, i, "bytes")
       \/ request[c][i] \in {"refused", "broken"} /\ Turn(c, i, "failure")
    /\ UNCHANGED <<serverVars, phase, outcome, cancelled>>

\* The deadline of the phase, a cancelled context or a broken connection; the
\* server learns of it when its handler next touches the connection.
GiveUp(c, i) ==
    /\ stream[c][i] = "waiting"
    /\ Turn(c, i, "failure")
    /\ UNCHANGED <<serverVars, phase, outcome, cancelled>>

\* Mutant of Room: unbuffered channels need Run at the other end.
RoomWithoutBuffer(c, message) == outcome[c] = "running" /\ InChannel(c, message) = {}

\* Each of the two channels has a buffer of as many messages as the phase has
\* streams.
Room(c, message) == Cardinality(InChannel(c, message)) < Cardinality(Streams(c))

Send(c, i) ==
    /\ \/ stream[c][i] = "bytes" /\ Room(c, "result") /\ Turn(c, i, "result")
       \/ stream[c][i] = "failure" /\ Room(c, "error") /\ Turn(c, i, "error")
    /\ UNCHANGED <<serverVars, phase, outcome, cancelled>>

-----------------------------------------------------------------------------
(* Run. *)

\* Mutant of Collected: the loop takes one message less.
CollectedAllButOne(c) ==
    Cardinality({i \in Streams(c) : stream[c][i] = "taken"}) >= Cardinality(Streams(c)) - 1

\* The loop of transfer has taken a message of every stream.
Collected(c) == Cardinality({i \in Streams(c) : stream[c][i] = "taken"}) = Cardinality(Streams(c))

StartPhase(c) ==
    /\ outcome[c] = "running"
    /\ Collected(c)
    /\ phase[c] < Len(Phases)
    /\ phase' = [phase EXCEPT ![c] = @ + 1]
    /\ stream' = [stream EXCEPT ![c] = [i \in Slots |->
                    IF i \in 1..Phases[phase[c] + 1] THEN "starting" ELSE "none"]]
    /\ UNCHANGED <<serverVars, outcome, cancelled>>

Take(c) ==
    /\ outcome[c] = "running"
    /\ \E i \in Streams(c) : stream[c][i] = "result" /\ Turn(c, i, "taken")
    /\ UNCHANGED <<serverVars, phase, outcome, cancelled>>

\* Mutant of Fail: the loop looks at the results and the context only.
FailWhenCancelled(c) ==
    /\ outcome[c] = "running"
    /\ ~Collected(c)
    /\ cancelled[c] /\ Transferring(c)
    /\ outcome' = [outcome EXCEPT ![c] = "failed"]
    /\ UNCHANGED <<serverVars, phase, stream, cancelled>>

\* The first error is the end of Run, and so is the end of the context in a
\* transfer; the other goroutines go on without it.
Fail(c) ==
    /\ outcome[c] = "running"
    /\ ~Collected(c)
    /\ \/ cancelled[c] /\ Transferring(c)
       \/ \E i \in Streams(c) : stream[c][i] = "error"
    /\ outcome' = [outcome EXCEPT ![c] = "failed"]
    /\ UNCHANGED <<serverVars, phase, stream, cancelled>>

Succeed(c) ==
    /\ outcome[c] = "running"
    /\ Collected(c)
    /\ phase[c] = Len(Phases)
    /\ outcome' = [outcome EXCEPT ![c] = "success"]
    /\ UNCHANGED <<serverVars, phase, stream, cancelled>>

Cancel(c) ==
    /\ ~cancelled[c]
    /\ cancelled' = [cancelled EXCEPT ![c] = TRUE]
    /\ UNCHANGED <<serverVars, phase, outcome, stream>>

GoroutineStep(c, i) == Request(c, i) \/ Response(c, i) \/ GiveUp(c, i) \/ Send(c, i)
RunStep(c) == StartPhase(c) \/ Take(c) \/ Fail(c) \/ Succeed(c)
ClientStep(c) == RunStep(c) \/ Cancel(c) \/ \E i \in Slots : GoroutineStep(c, i)

\* The server and every run have returned.
PeerOver ==
    /\ server = "stopped"
    /\ \A c \in Clients : outcome[c] # "running"
    /\ UNCHANGED peerVars

PeerNext ==
    \/ \E c \in Clients : ClientStep(c)
    \/ ServerStep /\ UNCHANGED clientVars
    \/ PeerOver

\* Everything that waits on the network has a deadline: a stream its phase
\* context, a round trip the client's two minutes, a shutdown ten seconds.
PeerFairness ==
    /\ \A c \in Clients : WF_peerVars(RunStep(c))
    /\ \A c \in Clients, i \in Slots : WF_peerVars(GoroutineStep(c, i))
    /\ WF_peerVars((Drained \/ DrainTimeout) /\ UNCHANGED clientVars)

PeerSpec == PeerInit /\ [][PeerNext]_peerVars /\ PeerFairness

-----------------------------------------------------------------------------
(* Properties *)

\* The server works for one session, and one that presented the token
\* (authorize), however the first requests of two runs interleave.
OneSessionServed ==
    \A c \in Clients, i \in Slots :
        request[c][i] \in {"serving", "answered"} => c = session /\ c \in trusted

\* The run that claimed the token is never told that it has been consumed, on
\* none of its parallel streams (authorize).
HolderNeverRefused ==
    \A c \in Clients, i \in Slots : request[c][i] = "refused" => c # session

\* A phase starts, and a run succeeds, only when no request of an earlier
\* phase is still using the network: each throughput is measured alone (Run,
\* transfer).
PhasesDoNotOverlap ==
    [][\A c \in Clients :
        phase'[c] # phase[c] \/ (outcome'[c] # outcome[c] /\ outcome'[c] = "success") =>
            \A i \in Slots : ~Active(c, i) /\ stream[c][i] \notin Alive]_peerVars

\* Run returns, whatever the server does.
RunReturns == \A c \in Clients : outcome[c] = "running" ~> outcome[c] # "running"

\* The goroutines that outlive a failed transfer end too; none is left blocked
\* on its channel.
NoGoroutineLeaks ==
    \A c \in Clients : outcome[c] = "failed" ~> \A i \in Slots : stream[c][i] \notin Alive

\* An interrupted server exits.
ServerStops == server = "draining" ~> server = "stopped"
=============================================================================
