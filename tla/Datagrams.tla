----------------------------- MODULE Datagrams -----------------------------
(***************************************************************************)
(* The datagram servers of lmbench and their clients: lat_udp, bw_udp and  *)
(* lat_rpc.  The network may lose, duplicate and reorder datagrams; a      *)
(* record per program says what its two sides do about it.  The RPC        *)
(* library is external: its retries and its matching of answers to calls   *)
(* are what clnt_call() promises.                                          *)
(***************************************************************************)
EXTENDS Integers, Sequences, FiniteSets

CONSTANTS Programs,      \* the programs examined, records as below
          Peers,         \* processes running the client side
          Calls,         \* rounds a client makes in one interval
          Attempts,      \* sends of one RPC: 25ms in steps of 2.5ms, 10
          MaxMishaps     \* datagrams lost or duplicated

ASSUME DgramAssumption ==
    /\ Calls \in Nat \ {0} /\ Attempts \in Nat \ {0} /\ MaxMishaps \in Nat
    /\ IsFiniteSet(Peers) /\ Peers \cap {"server", "stopper"} = {}

VARIABLES program, net,
          server,        \* up, sending, spinning, exited, failed
          last,          \* the server's sequence number
          job,           \* what a bw_udp server is sending, and to whom
          ppc, seq, sends, answer, got, owed, called,   \* the clients
          stops,         \* datagrams -S has still to send
          mishaps

dserverVars == <<server, last, job>>
peerVars == <<ppc, seq, sends, answer, got, owed, called>>
dgramVars == <<program, net, dserverVars, peerVars, stops, mishaps>>

-----------------------------------------------------------------------------
(* The programs.  parallel: is there a -P option; timer: what ends a wait; *)
(* matched: an answer to another call is dropped; stops: datagrams sent by *)
(* -S; msize, move: sizes, in datagrams of bw_udp; order: of the bytes of  *)
(* a number.                                                               *)

\* A sequence number goes and must come back, though nobody looks at what
\* comes back; a timer of 15 seconds runs from the start of the interval.
LatUdp ==
    [name |-> "lat_udp", parallel |-> TRUE, timer |-> "alarm",
     matched |-> FALSE, stops |-> 4, msize |-> 1, move |-> 1, order |-> "little"]

\* Each round asks for move bytes in datagrams of msize; no timer.  -S is
\* the one of lat_udp.
BwUdp ==
    [name |-> "bw_udp", parallel |-> FALSE, timer |-> "none",
     matched |-> FALSE, stops |-> 4, msize |-> 1, move |-> 2, order |-> "big"]

\* The default: one datagram of all there is to move.
BwUdpWhole == [BwUdp EXCEPT !.msize = 4, !.move = 4]
Little(p) == [p EXCEPT !.order = "little"]

\* clnt_create(), clnt_call() within 25ms; over UDP a new send every 2.5ms.
LatRpc ==
    [name |-> "lat_rpc", parallel |-> TRUE, timer |-> "call",
     matched |-> TRUE, stops |-> 1, msize |-> 1, move |-> 1, order |-> "big"]

NoProgram == [LatUdp EXCEPT !.name = "none"]

ASSUME ProgramAssumption ==
    Programs \subseteq
        {LatUdp, LatRpc, BwUdp, BwUdpWhole, Little(BwUdp), Little(BwUdpWhole)}

\* ntohl() of a number sent as it is: two digits change places.
Base == 4
Ntohl(n) ==
    IF program.order = "big" THEN n ELSE (n % Base) * Base + n \div Base
MaxDgram == 3                       \* sendto() takes no more

Ask(c) == [to |-> "server", from |-> c, seq |-> seq[c], size |-> 1]
ToServer == {m \in net : m.to = "server"}
ToPeer(c) == {m \in net : m.to = c}
StopDgram(n) == [to |-> "server", from |-> "stopper", seq |-> -n, size |-> 1]

DgramIdle ==
    /\ program = NoProgram /\ net = {} /\ server = "exited" /\ last = 0
    /\ job = [left |-> 0, size |-> 0, to |-> "none"]
    /\ ppc = [c \in Peers |-> "done"] /\ seq = [c \in Peers |-> 0]
    /\ sends = [c \in Peers |-> 0] /\ answer = [c \in Peers |-> -1]
    /\ got = [c \in Peers |-> 0] /\ owed = [c \in Peers |-> 0]
    /\ called = [c \in Peers |-> 0] /\ stops = 0
    /\ mishaps = [lost |-> 0, doubled |-> 0]

DgramInit ==
    /\ program \in Programs /\ net = {} /\ server = "up" /\ last = 0
    /\ job = [left |-> 0, size |-> 0, to |-> "none"]
    /\ \E running \in SUBSET Peers :
          /\ IF program.parallel THEN running = Peers
                                 ELSE Cardinality(running) = 1
          /\ ppc = [c \in Peers |-> IF c \in running THEN "init" ELSE "done"]
    /\ seq = [c \in Peers |-> 0]
    /\ sends = [c \in Peers |-> 0] /\ answer = [c \in Peers |-> -1]
    /\ got = [c \in Peers |-> 0] /\ owed = [c \in Peers |-> 0]
    /\ called = [c \in Peers |-> 0] /\ stops = program.stops
    /\ mishaps = [lost |-> 0, doubled |-> 0]

-----------------------------------------------------------------------------
(* The clients.                                                            *)

\* udp_connect() asks the port mapper, which forgets a server that was told
\* to go; the interval starts with the bytes to move on the account.
Open(c) ==
    /\ ppc[c] = "init"
    /\ ppc' = [ppc EXCEPT ![c] =
                  IF server = "exited" THEN "failed" ELSE "send"]
    /\ owed' = [owed EXCEPT ![c] = program.move]
    /\ UNCHANGED <<program, net, dserverVars, seq, sends, answer, got, called,
                   stops, mishaps>>

\* send() of the next sequence number, or of what is to be moved; bw_udp
\* waits only if something is still owed.
Send(c) ==
    /\ ppc[c] = "send"
    /\ net' = net \cup {Ask(c)}
    /\ seq' = [seq EXCEPT ![c] = @ + 1]
    /\ sends' = [sends EXCEPT ![c] = 1]
    /\ IF program.name = "bw_udp" /\ owed[c] <= 0
       THEN /\ called' = [called EXCEPT ![c] = @ + 1]
            /\ ppc' = [ppc EXCEPT ![c] = IF called'[c] = Calls THEN "parked"
                                                              ELSE "send"]
       ELSE ppc' = [ppc EXCEPT ![c] = "recv"] /\ UNCHANGED called
    /\ UNCHANGED <<program, dserverVars, answer, got, owed, stops, mishaps>>

\* What recv() may return for the round to go on: lat_udp and bw_udp look at
\* the size only; clnt_call() waits for the answer to this call.
Accepts(c, m) ==
    /\ program.name = "bw_udp" => m.size = program.msize
    /\ program.matched => m.seq = seq[c] - 1

\* The network hands over a datagram, which stays there if it was duplicated;
\* new are the datagrams that answer it.
More == mishaps.lost + mishaps.doubled < MaxMishaps
Takes(m, new) ==
    \/ net' = (net \ {m}) \cup new /\ UNCHANGED mishaps
    \/ /\ More /\ mishaps' = [mishaps EXCEPT !.doubled = @ + 1]
       /\ net' = net \cup new

\* recv() of a datagram: an answer, or a stray one that clnt_call() drops
\* and the others die of.
Recv(c) ==
    /\ ppc[c] = "recv"
    /\ \E m \in ToPeer(c) :
          /\ Takes(m, {})
          /\ IF Accepts(c, m)
             THEN /\ answer' = [answer EXCEPT ![c] = m.seq]
                  /\ got' = [got EXCEPT ![c] = @ + 1]
                  /\ owed' = [owed EXCEPT ![c] = @ - program.msize]
                  /\ LET over == program.name = "bw_udp" => owed'[c] <= 0
                     IN  /\ called' = [called EXCEPT ![c] =
                                          IF over THEN @ + 1 ELSE @]
                         /\ ppc' = [ppc EXCEPT ![c] =
                                      IF ~over THEN "recv"
                                      ELSE IF called'[c] = Calls THEN "parked"
                                      ELSE "send"]
             ELSE /\ ppc' = [ppc EXCEPT ![c] = IF program.matched THEN "recv"
                                                                 ELSE "failed"]
                  /\ UNCHANGED <<answer, got, owed, called>>
    /\ UNCHANGED <<program, dserverVars, seq, sends, stops>>

\* A datagram comes to a port that is closed: recv() or clnt_call() returns
\* the error.  Who has sent nothing since hears nothing.
PortClosed(c) ==
    /\ ppc[c] = "recv" /\ server \in {"exited", "failed"}
    /\ \E m \in ToServer : m.from = c /\ net' = net \ {m}
    /\ ppc' = [ppc EXCEPT ![c] = "failed"]
    /\ UNCHANGED <<program, dserverVars, seq, sends, answer, got, owed, called,
                   stops, mishaps>>

\* clnt_call() sends the call again.
Retry(c) ==
    /\ ppc[c] = "recv" /\ program.timer = "call" /\ sends[c] < Attempts
    /\ net' = net \cup {[Ask(c) EXCEPT !.seq = seq[c] - 1]}
    /\ sends' = [sends EXCEPT ![c] = @ + 1]
    /\ UNCHANGED <<program, dserverVars, ppc, seq, answer, got, owed, called,
                   stops, mishaps>>

\* clnt_call() gives up: exit(1).
CallTimesOut(c) ==
    /\ ppc[c] = "recv" /\ program.timer = "call" /\ sends[c] = Attempts
    /\ ppc' = [ppc EXCEPT ![c] = "failed"]
    /\ UNCHANGED <<program, net, dserverVars, seq, sends, answer, got, owed,
                   called, stops, mishaps>>

\* Mutant: no alarm is set.
NeverAlarm(c) == FALSE /\ UNCHANGED dgramVars

\* SIGALRM, 15 seconds after the interval began: nothing is on its way any
\* more.  cleanup() does not cancel it, so it may also end a client that has
\* all its answers and waits for the harness.
Alarm(c) ==
    /\ program.timer = "alarm"
    /\ \/ ppc[c] = "recv" /\ ToPeer(c) = {}
          /\ \A m \in ToServer : m.from # c
       \/ ppc[c] = "parked"
    /\ ppc' = [ppc EXCEPT ![c] = "failed"]
    /\ UNCHANGED <<program, net, dserverVars, seq, sends, answer, got, owed,
                   called, stops, mishaps>>

\* The harness has its results: cleanup(0) and exit.
Finish(c) ==
    /\ ppc[c] = "parked"
    /\ ppc' = [ppc EXCEPT ![c] = "done"]
    /\ UNCHANGED <<program, net, dserverVars, seq, sends, answer, got, owed,
                   called, stops, mishaps>>

\* -S: a few datagrams, one after the other.
SendStop ==
    /\ stops > 0
    /\ net' = net \cup {StopDgram(stops)} /\ stops' = stops - 1
    /\ UNCHANGED <<program, dserverVars, peerVars, mishaps>>

Lose ==
    /\ More /\ mishaps' = [mishaps EXCEPT !.lost = @ + 1]
    /\ \E m \in net : net' = net \ {m}
    /\ UNCHANGED <<program, dserverVars, peerVars, stops>>

-----------------------------------------------------------------------------
(* The servers.                                                            *)

Reply(m, s) == [to |-> m.from, from |-> "server", seq |-> s, size |-> 1]

\* Mutant: the server answers with its own count.
CountsItself(m) == last + 1

\* The answer's number: the server's own if the peer's is the next one,
\* the peer's if the two are out of step.
Sequence(m) == IF m.seq # last + 1 THEN m.seq ELSE last + 1

\* lat_udp: a negative number ends the server; everything else is echoed.
Echoes ==
    /\ program.name = "lat_udp" /\ server = "up"
    /\ \E m \in ToServer :
          IF m.seq < 0
          THEN /\ net' = net \ {m} /\ server' = "exited"
               /\ UNCHANGED <<last, mishaps>>
          ELSE /\ Takes(m, {Reply(m, Sequence(m))}) /\ last' = Sequence(m)
               /\ UNCHANGED server
    /\ UNCHANGED <<program, job, peerVars, stops>>

\* xact_prog_1(): RPC_XACT is answered, however often it comes; RPC_EXIT is
\* answered and ends the server.
Serves ==
    /\ program.name = "lat_rpc" /\ server = "up"
    /\ \E m \in ToServer :
          /\ server' = IF m.seq < 0 THEN "exited" ELSE "up"
          /\ Takes(m, IF m.seq < 0 THEN {} ELSE {Reply(m, m.seq)})
    /\ UNCHANGED <<program, last, job, peerVars, stops>>

\* bw_udp reads the two numbers.  A datagram of -S has only the first: on a
\* little-endian machine it is 2^32 - 1 and the size is what the buffer held,
\* on a big-endian one negative, so nothing happens.
TakesOrder ==
    /\ program.name = "bw_udp" /\ server = "up"
    /\ \E m \in ToServer :
          /\ Takes(m, {})
          /\ IF m.seq < 0
             THEN /\ server' = IF program.order = "little" THEN "spinning"
                                                           ELSE "up"
                  /\ UNCHANGED job
             ELSE /\ job' = [left |-> Ntohl(program.move),
                             size |-> Ntohl(program.msize), to |-> m.from]
                  /\ server' = "sending"
    /\ UNCHANGED <<program, last, peerVars, stops>>

\* sendto() until the account is empty; a datagram too large ends the server.
SendsOne ==
    /\ server = "sending"
    /\ IF job.left <= 0 THEN server' = "up" /\ UNCHANGED <<net, job>>
       ELSE IF job.size > MaxDgram
            THEN server' = "failed" /\ UNCHANGED <<net, job>>
       ELSE /\ net' = net \cup {[to |-> job.to, from |-> "server",
                                 seq |-> job.left, size |-> job.size]}
            /\ job' = [job EXCEPT !.left = @ - job.size]
            /\ UNCHANGED server
    /\ UNCHANGED <<program, last, peerVars, stops, mishaps>>

PeerStep(c) ==
    \/ Open(c) \/ Send(c) \/ Recv(c) \/ PortClosed(c) \/ Retry(c)
    \/ CallTimesOut(c) \/ Alarm(c) \/ Finish(c)
DgramServerStep == Echoes \/ Serves \/ TakesOrder \/ SendsOne

DgramProgress ==
    (\E c \in Peers : PeerStep(c)) \/ SendStop \/ DgramServerStep

DgramNext == DgramProgress \/ Lose

\* As long as some process can go on, one does.
DgramFairness == WF_dgramVars(DgramProgress)

-----------------------------------------------------------------------------
(* Properties.                                                             *)

DgramTypeOK ==
    /\ program \in Programs \cup {NoProgram}
    /\ server \in {"up", "sending", "spinning", "exited", "failed"}
    /\ ppc \in [Peers -> {"init", "send", "recv", "parked", "done", "failed"}]
    /\ called \in [Peers -> 0..Calls] /\ sends \in [Peers -> 0..Attempts]

\* A round is counted for its own answer: however datagrams are lost or
\* overtake each other, the answer lat_udp and lat_rpc take is the one to
\* their last question.  Nobody looks at the number in lat_udp, so there it
\* needs that no datagram comes twice; lat_rpc stands that too, and its own
\* repeated calls.  bw_udp has all it asked for after its first round (it
\* does not set the account up again for the others).
RoundsAreAnswered ==
    \A c \in Peers : ppc[c] \in {"send", "parked", "done"} /\ called[c] > 0 =>
        /\ \/ program.name = "lat_rpc"
           \/ program.name = "lat_udp" /\ mishaps.doubled = 0
           => answer[c] = seq[c] - 1
        /\ program.name = "bw_udp" /\ mishaps.doubled = 0
           => got[c] * program.msize >= program.move

\* Every client ends, whatever is lost and whenever the server goes: by the
\* alarm of lat_udp, by the timeout of lat_rpc.  bw_udp waits for ever for
\* what was lost, or for a server that -S sent into a loop.
PeersEnded ==
    program.name \in {"lat_udp", "lat_rpc"} =>
        \A c \in Peers : ppc[c] \in {"done", "failed"}

\* A server told to go goes although datagrams are lost: lat_udp says it
\* four times.  lat_rpc says it once, and bw_udp does not understand it.
ServerGone == program.name = "lat_udp" => server = "exited"
=============================================================================
