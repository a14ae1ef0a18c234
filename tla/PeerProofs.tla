----------------------------- MODULE PeerProofs -----------------------------
(***************************************************************************)
(* The peer benchmark for any number of runs, streams and phases: one      *)
(* session is served and its run never refused (authorize), phases do not  *)
(* overlap and no goroutine waits for room in its channel (transfer).      *)
(***************************************************************************)
EXTENDS PeerBench, FiniteSetTheorems, TLAPS

\* The session is claimed once, by a run with the token, and from then on
\* decides: whoever is served holds it, whoever was refused never will.
SessionInv ==
    /\ session \in trusted \union {NoClient}
    /\ \A c \in Clients, i \in Slots :
        /\ request[c][i] \in {"serving", "answered"} => c = session /\ c \in trusted
        /\ request[c][i] = "refused" /\ c \in trusted => session \notin {c, NoClient}

\* Only a stream that waits or has failed can have left a request with the server.
Settled == {"none", "starting", "bytes", "result", "taken"}

StreamInv ==
    \A c \in Clients, i \in Slots :
        /\ i \notin Streams(c) => stream[c][i] = "none"
        /\ stream[c][i] \in Settled => ~Active(c, i)

PeerInv == PeerTypeOK /\ SessionInv /\ StreamInv

\* A goroutine that has something to send finds room for it, also when Run is gone.
SendersHaveRoom ==
    \A c \in Clients, i \in Slots :
        /\ stream[c][i] = "bytes" => Room(c, "result")
        /\ stream[c][i] = "failure" => Room(c, "error")

-----------------------------------------------------------------------------
(* Phases and sets of streams *)

LEMMA PhasesFacts == Phases \in Seq(Nat \ {0})
<1>1. [k \in 1..RoundTrips |-> 1] \in Seq(Nat \ {0})
    BY PhasesAssumption
<1> QED BY <1>1, PhasesAssumption DEF Phases

LEMMA StreamsFacts ==
    ASSUME NEW c, phase[c] \in 0..Len(Phases)
    PROVE  IsFiniteSet(Streams(c))
<1>1. CASE phase[c] = 0
    BY <1>1, FS_EmptySet DEF Streams
<1>2. CASE phase[c] # 0
  <2>1. Phases[phase[c]] \in Int
    BY <1>2, PhasesFacts
  <2> QED BY <1>2, <2>1, FS_Interval DEF Streams
<1> QED BY <1>1, <1>2

\* When a message of every stream has been taken, nothing of the phase is left.
LEMMA CollectedFacts ==
    ASSUME PeerInv, NEW c \in Clients, Collected(c), NEW i \in Slots
    PROVE  stream[c][i] \in {"none", "taken"} /\ ~Active(c, i)
<1> DEFINE taken == {j \in Streams(c) : stream[c][j] = "taken"}
<1>1. IsFiniteSet(Streams(c))
    BY StreamsFacts DEF PeerInv, PeerTypeOK
<1>2. taken = Streams(c)
  <2>1. taken \in SUBSET Streams(c)
    OBVIOUS
  <2>2. Cardinality(Streams(c)) = Cardinality(taken)
    BY DEF Collected
  <2> HIDE DEF taken
  <2> QED BY <1>1, <2>1, <2>2, FS_Subset
<1>3. stream[c][i] \in {"none", "taken"}
    BY <1>2 DEF PeerInv, StreamInv
<1> QED BY <1>3 DEF PeerInv, StreamInv, Settled

-----------------------------------------------------------------------------
(* The invariant *)

LEMMA PeerInitInv == PeerInit => PeerInv
<1> SUFFICES ASSUME PeerInit PROVE PeerInv
    OBVIOUS
<1>1. 0 \in 0..Len(Phases)
    BY PhasesFacts
<1>2. PeerTypeOK
    BY <1>1 DEF PeerInit, ServerInit, PeerTypeOK, ServerTypeOK, RequestStates, StreamStates
<1>3. SessionInv
    BY DEF PeerInit, ServerInit, SessionInv
<1>4. StreamInv
    BY DEF PeerInit, ServerInit, StreamInv, Active
<1> QED BY <1>2, <1>3, <1>4 DEF PeerInv

\* What a step does to one request and one stream is all it does to any.
LEMMA BecomeFacts ==
    ASSUME PeerTypeOK, NEW c \in Clients, NEW i \in Slots, NEW state, Become(c, i, state)
    PROVE  \A d \in Clients, j \in Slots :
               request'[d][j] = IF d = c /\ j = i THEN state ELSE request[d][j]
BY DEF PeerTypeOK, ServerTypeOK, Become

LEMMA TurnFacts ==
    ASSUME PeerTypeOK, NEW c \in Clients, NEW i \in Slots, NEW state, Turn(c, i, state)
    PROVE  \A d \in Clients, j \in Slots :
               stream'[d][j] = IF d = c /\ j = i THEN state ELSE stream[d][j]
BY DEF PeerTypeOK, Turn

\* Nothing but a claim of the session matters to SessionInv, and nothing but
\* requests, streams and phases to StreamInv.
LEMMA SessionFrame ==
    ASSUME SessionInv, UNCHANGED <<trusted, session, request>> PROVE SessionInv'
BY DEF SessionInv

LEMMA StreamFrame ==
    ASSUME StreamInv, UNCHANGED <<phase, stream>>,
           \A c \in Clients, i \in Slots : Active(c, i)' => Active(c, i)
    PROVE  StreamInv'
BY DEF StreamInv, Streams

(* The server *)

LEMMA AuthorizeInv ==
    ASSUME PeerInv, NEW c \in Clients, NEW i \in Slots, Authorize(c, i), UNCHANGED clientVars
    PROVE  PeerInv'
<1> DEFINE state == IF c \in trusted /\ c = session' THEN "serving" ELSE "refused"
<1>1. /\ request[c][i] = "arrived" /\ Become(c, i, state)
      /\ session' = IF c \in trusted /\ session = NoClient THEN c ELSE session
      /\ UNCHANGED <<server, serverExit, trusted, phase, outcome, stream, cancelled>>
    BY DEF Authorize, clientVars
<1>2. \A d \in Clients, j \in Slots :
        request'[d][j] = IF d = c /\ j = i THEN state ELSE request[d][j]
    BY <1>1, BecomeFacts DEF PeerInv
<1>3. PeerTypeOK'
    BY <1>1, ClientsAssumption DEF PeerInv, PeerTypeOK, ServerTypeOK, Become, RequestStates
<1>4. SessionInv'
    BY <1>1, <1>2, ClientsAssumption DEF PeerInv, SessionInv
<1>5. \A d \in Clients, j \in Slots : Active(d, j)' => Active(d, j)
    BY <1>1, <1>2 DEF Active
<1>6. StreamInv'
    BY <1>1, <1>5, StreamFrame DEF PeerInv
<1> QED BY <1>3, <1>4, <1>6 DEF PeerInv

LEMMA HandlerInv ==
    ASSUME PeerInv, NEW c \in Clients, NEW i \in Slots, Answer(c, i) \/ Break(c, i), UNCHANGED clientVars
    PROVE  PeerInv'
<1>1. PICK state \in {"answered", "broken"} : Become(c, i, state)
    BY DEF Answer, Break
<1>2. /\ request[c][i] = "serving"
      /\ UNCHANGED <<server, serverExit, trusted, session, phase, outcome, stream, cancelled>>
    BY DEF Answer, Break, clientVars
<1>3. \A d \in Clients, j \in Slots :
        request'[d][j] = IF d = c /\ j = i THEN state ELSE request[d][j]
    BY <1>1, BecomeFacts DEF PeerInv
<1>4. PeerTypeOK'
    BY <1>1, <1>2 DEF PeerInv, PeerTypeOK, ServerTypeOK, Become, RequestStates
<1>5. SessionInv'
    BY <1>2, <1>3 DEF PeerInv, SessionInv
<1>6. \A d \in Clients, j \in Slots : Active(d, j)' => Active(d, j)
    BY <1>2, <1>3 DEF Active
<1>7. StreamInv'
    BY <1>2, <1>6, StreamFrame DEF PeerInv
<1> QED BY <1>4, <1>5, <1>7 DEF PeerInv

LEMMA StopListeningInv == ASSUME PeerInv, StopListening, UNCHANGED clientVars PROVE PeerInv'
<1>1. server' = "draining"
      /\ UNCHANGED <<serverExit, trusted, session, request, phase, outcome, stream, cancelled>>
    BY DEF StopListening, clientVars
<1>2. PeerTypeOK'
    BY <1>1 DEF PeerInv, PeerTypeOK, ServerTypeOK
<1>3. \A c \in Clients, i \in Slots : Active(c, i)' => Active(c, i)
    BY <1>1 DEF Active
<1> QED BY <1>1, <1>2, <1>3, SessionFrame, StreamFrame DEF PeerInv

LEMMA ExitInv ==
    ASSUME PeerInv, NEW code \in {1, 130}, Exit(code), UNCHANGED clientVars
    PROVE  PeerInv'
<1>1. /\ server' = "stopped" /\ serverExit' = code
      /\ request' = [c \in Clients |-> [i \in Slots |-> IF Active(c, i) THEN "broken" ELSE request[c][i]]]
      /\ UNCHANGED <<trusted, session, phase, outcome, stream, cancelled>>
    BY DEF Exit, clientVars
<1>2. \A c \in Clients, i \in Slots : request'[c][i] = IF Active(c, i) THEN "broken" ELSE request[c][i]
    BY <1>1
<1>3. PeerTypeOK'
    BY <1>1 DEF PeerInv, PeerTypeOK, ServerTypeOK, RequestStates
<1>4. SessionInv'
    BY <1>1, <1>2 DEF PeerInv, SessionInv
<1>5. \A c \in Clients, i \in Slots : Active(c, i)' => Active(c, i)
    BY <1>2 DEF Active
<1>6. StreamInv'
    BY <1>1, <1>5, StreamFrame DEF PeerInv
<1> QED BY <1>3, <1>4, <1>6 DEF PeerInv

LEMMA ServerStepInv == ASSUME PeerInv, ServerStep, UNCHANGED clientVars PROVE PeerInv'
<1>1. CASE \E c \in Clients, i \in Slots : Authorize(c, i) \/ Answer(c, i) \/ Break(c, i)
    BY <1>1, AuthorizeInv, HandlerInv
<1>2. CASE StopListening
    BY <1>2, StopListeningInv
<1>3. CASE Drained \/ DrainTimeout \/ ServeFails
  <2>1. PICK code \in {1, 130} : Exit(code)
    BY <1>3 DEF Drained, DrainTimeout, ServeFails
  <2> QED BY <2>1, ExitInv
<1> QED BY <1>1, <1>2, <1>3 DEF ServerStep

(* The goroutines *)

\* A request is made for a stream that has none with the server.
LEMMA RequestInv ==
    ASSUME PeerInv, NEW c \in Clients, NEW i \in Slots, Request(c, i)
    PROVE  PeerInv'
<1>1. stream[c][i] = "starting"
      /\ UNCHANGED <<server, serverExit, trusted, session, phase, outcome, cancelled>>
    BY DEF Request
<1>2. CASE Turn(c, i, "failure") /\ UNCHANGED request
  <2>1. PeerTypeOK'
    BY <1>1, <1>2 DEF PeerInv, PeerTypeOK, ServerTypeOK, Turn, StreamStates
  <2>2. StreamInv'
    BY <1>1, <1>2, TurnFacts DEF PeerInv, StreamInv, Streams, Active, Settled
  <2> QED BY <1>1, <1>2, <2>1, <2>2, SessionFrame DEF PeerInv
<1>3. CASE Become(c, i, "arrived") /\ Turn(c, i, "waiting")
  <2>1. PeerTypeOK'
    BY <1>1, <1>3 DEF PeerInv, PeerTypeOK, ServerTypeOK, Turn, Become, StreamStates, RequestStates
  <2>2. SessionInv'
    BY <1>1, <1>3, BecomeFacts DEF PeerInv, SessionInv
  <2>3. StreamInv'
    BY <1>1, <1>3, TurnFacts, BecomeFacts DEF PeerInv, StreamInv, Streams, Active, Settled
  <2> QED BY <2>1, <2>2, <2>3 DEF PeerInv
<1> QED BY <1>2, <1>3 DEF Request

\* Every other step of a goroutine, and Take, moves a stream of the phase on.
LEMMA MovesOnInv ==
    ASSUME PeerInv, NEW c \in Clients, NEW i \in Slots, NEW state \in StreamStates,
           Turn(c, i, state), stream[c][i] # "none",
           state \in Settled => ~Active(c, i),
           UNCHANGED <<serverVars, phase, outcome, cancelled>>
    PROVE  PeerInv'
<1>1. UNCHANGED <<server, serverExit, trusted, session, request, phase, outcome, cancelled>>
    BY DEF serverVars
<1>2. PeerTypeOK'
    BY <1>1 DEF PeerInv, PeerTypeOK, ServerTypeOK, Turn
<1>3. \A d \in Clients, j \in Slots : /\ stream'[d][j] = IF d = c /\ j = i THEN state ELSE stream[d][j]
                                     /\ Active(d, j)' = Active(d, j) /\ Streams(d)' = Streams(d)
    BY <1>1, TurnFacts DEF PeerInv, Active, Streams
<1>4. StreamInv'
    BY <1>3 DEF PeerInv, StreamInv
<1> QED BY <1>1, <1>2, <1>4, SessionFrame DEF PeerInv

LEMMA ResponseInv ==
    ASSUME PeerInv, NEW c \in Clients, NEW i \in Slots, Response(c, i)
    PROVE  PeerInv'
<1>1. stream[c][i] # "none" /\ UNCHANGED <<serverVars, phase, outcome, cancelled>>
    BY DEF Response
<1>2. CASE request[c][i] = "answered" /\ Turn(c, i, "bytes")
    BY <1>1, <1>2, MovesOnInv DEF Active, StreamStates
<1>3. CASE Turn(c, i, "failure")
    BY <1>1, <1>3, MovesOnInv DEF Settled, StreamStates
<1> QED BY <1>2, <1>3 DEF Response

LEMMA GiveUpInv ==
    ASSUME PeerInv, NEW c \in Clients, NEW i \in Slots, GiveUp(c, i)
    PROVE  PeerInv'
BY MovesOnInv DEF GiveUp, Settled, StreamStates

LEMMA SendInv ==
    ASSUME PeerInv, NEW c \in Clients, NEW i \in Slots, Send(c, i)
    PROVE  PeerInv'
<1>1. UNCHANGED <<serverVars, phase, outcome, cancelled>>
    BY DEF Send
<1>2. CASE stream[c][i] = "bytes" /\ Turn(c, i, "result")
  <2>1. ~Active(c, i)
    BY <1>2 DEF PeerInv, StreamInv, Settled
  <2> QED BY <1>1, <1>2, <2>1, MovesOnInv DEF StreamStates
<1>3. CASE stream[c][i] = "failure" /\ Turn(c, i, "error")
    BY <1>1, <1>3, MovesOnInv DEF Settled, StreamStates
<1> QED BY <1>2, <1>3 DEF Send

(* Run *)

LEMMA StartPhaseInv ==
    ASSUME PeerInv, NEW c \in Clients, StartPhase(c)
    PROVE  PeerInv'
<1> DEFINE started == [i \in Slots |-> IF i \in 1..Phases[phase[c] + 1] THEN "starting" ELSE "none"]
<1>1. /\ phase[c] < Len(Phases) /\ phase' = [phase EXCEPT ![c] = @ + 1] /\ Collected(c)
      /\ stream' = [stream EXCEPT ![c] = started]
      /\ UNCHANGED <<server, serverExit, trusted, session, request, outcome, cancelled>>
    BY DEF StartPhase, serverVars
<1>2. /\ Len(Phases) \in Nat /\ phase[c] \in 0..Len(Phases) /\ phase \in [Clients -> 0..Len(Phases)]
      /\ stream \in [Clients -> [Slots -> StreamStates]]
    BY PhasesFacts DEF PeerInv, PeerTypeOK
<1>3. phase' \in [Clients -> 0..Len(Phases)]
    BY <1>1, <1>2
<1>4. started \in [Slots -> StreamStates]
    BY DEF StreamStates
<1>5. stream' \in [Clients -> [Slots -> StreamStates]]
    BY <1>1, <1>2, <1>4
<1>6. PeerTypeOK'
    BY <1>1, <1>3, <1>5 DEF PeerInv, PeerTypeOK, ServerTypeOK
<1>7. StreamInv'
  <2> SUFFICES ASSUME NEW d \in Clients, NEW i \in Slots
               PROVE  /\ i \notin Streams(d)' => stream'[d][i] = "none"
                      /\ stream'[d][i] \in Settled => ~Active(d, i)'
    BY DEF StreamInv
  <2>1. CASE d = c
    <3>1. Streams(d)' = 1..Phases[phase[c] + 1] /\ stream'[d][i] = started[i]
        BY <1>1, <1>2, <2>1 DEF Streams
    <3>2. ~Active(d, i)'
        BY <1>1, <2>1, CollectedFacts DEF Active
    <3> QED BY <3>1, <3>2
  <2>2. CASE d # c
    <3>1. phase'[d] = phase[d] /\ stream'[d] = stream[d]
        BY <1>1, <1>2, <2>2
    <3> QED BY <1>1, <3>1 DEF PeerInv, StreamInv, Streams, Active
  <2> QED BY <2>1, <2>2
<1> QED BY <1>1, <1>6, <1>7, SessionFrame DEF PeerInv

LEMMA TakeInv ==
    ASSUME PeerInv, NEW c \in Clients, Take(c)
    PROVE  PeerInv'
<1>1. UNCHANGED <<serverVars, phase, outcome, cancelled>>
    BY DEF Take
<1>2. PICK i \in Streams(c) : stream[c][i] = "result" /\ Turn(c, i, "taken")
    BY DEF Take
<1>3. CASE i \in Slots
  <2>1. ~Active(c, i)
    BY <1>2, <1>3 DEF PeerInv, StreamInv, Settled
  <2> QED BY <1>1, <1>2, <1>3, <2>1, MovesOnInv DEF StreamStates
<1>4. CASE i \notin Slots
  <2>1. stream' = stream
    BY <1>2, <1>4 DEF PeerInv, PeerTypeOK, Turn
  <2> QED BY <1>1, <2>1 DEF PeerInv, serverVars, PeerTypeOK, ServerTypeOK, SessionInv, StreamInv, Streams, Active
<1> QED BY <1>3, <1>4

LEMMA OutcomeInv ==
    ASSUME PeerInv, NEW c \in Clients, Fail(c) \/ Succeed(c) \/ Cancel(c)
    PROVE  PeerInv'
<1>1. UNCHANGED <<server, serverExit, trusted, session, request, phase, stream>>
    BY DEF Fail, Succeed, Cancel, serverVars
<1>2. outcome' \in [Clients -> {"running", "success", "failed"}] /\ cancelled' \in [Clients -> BOOLEAN]
    BY DEF PeerInv, PeerTypeOK, Fail, Succeed, Cancel
<1>3. PeerTypeOK'
    BY <1>1, <1>2 DEF PeerInv, PeerTypeOK, ServerTypeOK
<1>4. \A d \in Clients, i \in Slots : Active(d, i)' => Active(d, i)
    BY <1>1 DEF Active
<1> QED BY <1>1, <1>3, <1>4, SessionFrame, StreamFrame DEF PeerInv

LEMMA PeerNextInv == PeerInv /\ [PeerNext]_peerVars => PeerInv'
<1> SUFFICES ASSUME PeerInv, [PeerNext]_peerVars PROVE PeerInv'
    OBVIOUS
<1>1. CASE UNCHANGED peerVars
    BY <1>1 DEF peerVars, clientVars, serverVars, PeerInv, PeerTypeOK, ServerTypeOK, SessionInv, StreamInv,
        Streams, Active
<1>2. CASE \E c \in Clients : ClientStep(c)
  <2>1. PICK c \in Clients : ClientStep(c)
    BY <1>2
  <2>2. CASE RunStep(c) \/ Cancel(c)
    BY <2>2, StartPhaseInv, TakeInv, OutcomeInv DEF RunStep
  <2>3. CASE \E i \in Slots : GoroutineStep(c, i)
    BY <2>3, RequestInv, ResponseInv, GiveUpInv, SendInv DEF GoroutineStep
  <2> QED BY <2>1, <2>2, <2>3 DEF ClientStep
<1>3. CASE ServerStep /\ UNCHANGED clientVars
    BY <1>3, ServerStepInv
<1> QED BY <1>1, <1>2, <1>3 DEF PeerNext, PeerOver

\* PeerInv holds in every reachable state.
THEOREM PeerInvariantHolds == PeerSpec => []PeerInv
<1>1. PeerSpec => PeerInit /\ [][PeerNext]_peerVars
    BY DEF PeerSpec
<1> QED BY <1>1, PeerInitInv, PeerNextInv, PTL

-----------------------------------------------------------------------------
(* The properties *)

\* The types of the server and of every run, for any number of them.
THEOREM PeerTypeCorrect == PeerSpec => []PeerTypeOK
<1>1. PeerInv => PeerTypeOK
    BY DEF PeerInv
<1> QED BY <1>1, PeerInvariantHolds, PTL

\* However the first requests of any number of runs interleave, one of them
\* is served and no other (authorize).
THEOREM OneSessionServedHolds == PeerSpec => []OneSessionServed
<1>1. PeerInv => OneSessionServed
    BY DEF PeerInv, SessionInv, OneSessionServed
<1> QED BY <1>1, PeerInvariantHolds, PTL

\* The run that claimed the token is refused on none of its streams (authorize).
THEOREM HolderNeverRefusedHolds == PeerSpec => []HolderNeverRefused
<1>1. PeerInv => HolderNeverRefused
    BY ClientsAssumption DEF PeerInv, SessionInv, HolderNeverRefused
<1> QED BY <1>1, PeerInvariantHolds, PTL

\* A phase starts, and a run succeeds, only when its last phase has left
\* nothing behind on either side (Run, transfer).
THEOREM PhasesDoNotOverlapHolds == PeerSpec => PhasesDoNotOverlap
<1> DEFINE Alone == \A c \in Clients :
        phase'[c] # phase[c] \/ (outcome'[c] # outcome[c] /\ outcome'[c] = "success") =>
            \A i \in Slots : ~Active(c, i) /\ stream[c][i] \notin Alive
<1>1. PeerInv /\ [PeerNext]_peerVars => [Alone]_peerVars
  <2> SUFFICES ASSUME PeerInv, PeerNext, NEW c \in Clients,
                      phase'[c] # phase[c] \/ (outcome'[c] # outcome[c] /\ outcome'[c] = "success")
               PROVE  \A i \in Slots : ~Active(c, i) /\ stream[c][i] \notin Alive
    OBVIOUS
  <2>1. Collected(c)
    <3>1. PICK d \in Clients : ClientStep(d)
        BY DEF PeerNext, PeerOver, peerVars, clientVars
    <3>2. CASE StartPhase(d) \/ Succeed(d)
      <4>1. c = d
        BY <3>2 DEF PeerInv, PeerTypeOK, StartPhase, Succeed
      <4> QED BY <3>2, <4>1 DEF StartPhase, Succeed
    <3>3. CASE Fail(d)
        BY <3>3 DEF PeerInv, PeerTypeOK, Fail
    <3>4. CASE Take(d) \/ Cancel(d) \/ \E i \in Slots : GoroutineStep(d, i)
        BY <3>4 DEF Take, Cancel, GoroutineStep, Request, Response, GiveUp, Send
    <3> QED BY <3>1, <3>2, <3>3, <3>4 DEF ClientStep, RunStep
  <2> QED BY <2>1, CollectedFacts DEF Alive
<1>2. PeerSpec => [][PeerNext]_peerVars
    BY DEF PeerSpec
<1> QED BY <1>1, <1>2, PeerInvariantHolds, PTL DEF PhasesDoNotOverlap

\* The buffers of the two channels are large enough for every goroutine, so
\* one that outlives a failed transfer can end (transfer).
THEOREM SendersHaveRoomHolds == PeerSpec => []SendersHaveRoom
<1>1. PeerInv => SendersHaveRoom
  <2> SUFFICES ASSUME PeerInv, NEW c \in Clients, NEW i \in Slots, NEW message \in {"result", "error"},
                      stream[c][i] \in {"bytes", "failure"}
               PROVE  Room(c, message)
    BY DEF SendersHaveRoom
  <2>1. IsFiniteSet(Streams(c))
    BY StreamsFacts DEF PeerInv, PeerTypeOK
  <2>2. InChannel(c, message) \in SUBSET Streams(c) /\ i \in Streams(c) \ InChannel(c, message)
    BY DEF PeerInv, StreamInv, InChannel
  <2>3. /\ Cardinality(InChannel(c, message)) <= Cardinality(Streams(c))
        /\ Cardinality(InChannel(c, message)) # Cardinality(Streams(c))
    BY <2>1, <2>2, FS_Subset
  <2>4. Cardinality(InChannel(c, message)) \in Nat /\ Cardinality(Streams(c)) \in Nat
    BY <2>1, <2>2, FS_Subset, FS_CardinalityType
  <2> QED BY <2>3, <2>4 DEF Room
<1> QED BY <1>1, PeerInvariantHolds, PTL
=============================================================================
