--------------------------- MODULE ServicesProofs ---------------------------
(***************************************************************************)
(* Proofs about the servers and their clients, for every program, any      *)
(* number of clients, rounds, calls and faults and any size of a message.  *)
(* First connections: types and bounds; the server goes only when it is    *)
(* told to; its signal handler never blocks it; rounds are whole.  Then    *)
(* datagrams, and every behaviour of MCServices: a program over            *)
(* connections runs and the datagram half is idle, or the other way round. *)
(***************************************************************************)
EXTENDS MCServices, FiniteSetTheorems, TLAPS

\* Each action by itself: the case split of every proof below.
LEMMA StreamSteps ==
    ASSUME StreamNext
    PROVE  \/ \E c \in Clients : Connect(c)
           \/ \E c \in Clients : Refused(c)
           \/ \E c \in Clients : Hello(c)
           \/ \E c \in Clients : Write(c)
           \/ \E c \in Clients : Read(c)
           \/ \E c \in Clients : Close(c)
           \/ \E c \in Clients : ClientDies(c)
           \/ Stop
           \/ \E l \in Listener : AcceptInline(l)
           \/ \E l \in Listener : AcceptFork(l)
           \/ \E l \in Listener : AcceptForkFails(l)
           \/ \E l \in Listener : InlineStops(l)
           \/ \E l \in Listener : InlineServes(l)
           \/ \E l \in Listener : InlineWriteFails(l)
           \/ \E l \in Listener : GoAway(l)
           \/ \E i \in Conn : i <= Len(conn) /\ WorkerStops(i)
           \/ \E i \in Conn : i <= Len(conn) /\ WorkerStarts(i)
           \/ \E i \in Conn : i <= Len(conn) /\ Echo(i)
           \/ \E i \in Conn : i <= Len(conn) /\ Push(i)
           \/ \E i \in Conn : i <= Len(conn) /\ WorkerEnds(i)
           \/ Deliver
           \/ Wait
BY DEF StreamNext, StreamProgress, ClientStep, ServerStep, WorkerStep

-----------------------------------------------------------------------------
(* What the proofs need to know of the programs.                           *)

Sent == {"none", "size", "eof", "zero", "get", "exit"}

\* What the record of a program says, and no more.
Proper(s) ==
    /\ s.listeners \in {0, 1, 2} /\ s.forks \in BOOLEAN
    /\ s.hello \in {"size", "eof", "get"} /\ s.stop \in {"eof", "zero", "exit"}
    /\ s.halts = {s.stop}
    /\ \A x \in s.serves : x \in {"size", "get"}
    /\ s.mode \in {"echo", "push", "none", "file"}
    /\ s.hello = "eof" <=> s.mode = "none"
    /\ s.stop = "eof" => s.name \in {"lat_tcp", "none"}
    /\ s.name = "lat_tcp" => s.hello # "eof"
    /\ s.name = "none" => s.listeners = 0

LEMMA ServiceFacts ==
    ASSUME NEW s \in Services \cup {NoService}
    PROVE  Proper(s)
<1>1. Proper(LatTcp)
    BY DEF LatTcp, Proper
<1>2. Proper(BwTcp)
    BY DEF BwTcp, Proper
<1>3. Proper(LatConnect)
    BY DEF LatConnect, Proper
<1>4. Proper(LatUnixConnect)
    BY DEF LatUnixConnect, Proper
<1>5. Proper(LatHttp)
    BY DEF LatHttp, Proper
<1>6. Proper(Lmhttp)
    BY DEF LatHttp, Lmhttp, Proper
<1>7. Proper(NoService)
    BY DEF LatTcp, NoService, Proper
<1>8. s \in {LatTcp, BwTcp, LatConnect, LatUnixConnect, LatHttp, Lmhttp,
            NoService}
    BY ServiceAssumption
<1> QED
    BY <1>1, <1>2, <1>3, <1>4, <1>5, <1>6, <1>7, <1>8

-----------------------------------------------------------------------------
(* Types.                                                                  *)

Connection ==
    [first : Sent, up : Nat, down : Nat, got : Nat,
     copen : BOOLEAN, sopen : BOOLEAN]

WorkerPc == {"none", "first", "serve", "unserved", "zombie", "reaped"}
ClientPc == {"connect", "hello", "write", "read", "next", "close", "done",
             "failed", "unconnected"}

ConnTypes ==
    /\ service \in Services \cup {NoService}
    /\ conn \in Seq(Connection)

ServerTypes ==
    /\ listening \subseteq Listener
    /\ at \in [Listener -> 0..Len(conn)] /\ queue \in Seq(1..Len(conn))
    /\ worker \in [Conn -> WorkerPc]
    /\ sigchld \in BOOLEAN /\ reaping \in BOOLEAN

ClientTypes ==
    /\ cpc \in [Clients -> ClientPc]
    /\ sock \in [Clients -> 0..Len(conn)]
    /\ rounds \in [Clients -> 0..Rounds] /\ todo \in [Clients -> Nat]
    /\ stopper \in {"connect", "done"}

\* A connected client has the connection it dialled.
Connected == {"hello", "write", "read", "next", "close"}
Sockets ==
    \A c \in Clients : cpc[c] \in Connected =>
        /\ sock[c] # 0
        /\ \A d \in Clients :
               cpc[d] \in Connected /\ sock[d] = sock[c] => d = c

\* The rounds still to do, in a program with one connection for all of
\* them and in one with a connection for each.
RoundsLeft ==
    \A c \in Clients :
        /\ cpc[c] \in {"connect", "hello", "write", "read", "next"} =>
               rounds[c] < Rounds
        /\ service.mode \notin PerRound =>
             /\ cpc[c] \in {"connect", "hello"} => rounds[c] = 0
             /\ cpc[c] = "close" => rounds[c] = Rounds
        /\ cpc[c] = "next" => service.hello = "eof"

\* Connections made, each for a round of a client, or by the stopper.
Dialled ==
    {s \in Clients \X (1..Rounds) :
        \/ s[2] <= rounds[s[1]]
        \/ s[2] = rounds[s[1]] + 1 /\ cpc[s[1]] \notin {"connect", "close"}}

ConnBounded ==
    Len(conn) <= Cardinality(Dialled) + (IF stopper = "done" THEN 1 ELSE 0)

BaseInv ==
    /\ ConnTypes /\ ServerTypes /\ ClientTypes
    /\ Sockets /\ RoundsLeft /\ ConnBounded

LEMMA MaxConnNat == MaxConn \in Nat \ {0} /\ Conn = 1..MaxConn
<1>1. Cardinality(Clients) \in Nat
    BY StreamAssumption, FS_CardinalityType
<1>2. Rounds \in Nat
    BY StreamAssumption
<1>3. Cardinality(Clients) * Rounds \in Nat
    BY <1>1, <1>2
<1> QED BY <1>3 DEF MaxConn, Conn

LEMMA AllRounds ==
    /\ IsFiniteSet(Clients \X (1..Rounds))
    /\ Cardinality(Clients \X (1..Rounds)) = Cardinality(Clients) * Rounds
<1>1. Rounds \in Nat /\ IsFiniteSet(Clients)
    BY StreamAssumption
<1>2. IsFiniteSet(1..Rounds) /\ Cardinality(1..Rounds) = Rounds
  <2>1. IsFiniteSet(1..Rounds)
    BY <1>1, FS_Interval
  <2>2. Cardinality(1..Rounds) = IF 1 > Rounds THEN 0 ELSE Rounds - 1 + 1
    BY <1>1, FS_Interval
  <2> QED BY <1>1, <2>1, <2>2
<1> QED BY <1>1, <1>2, FS_Product

\* The numbers of connections, which are the members of Conn, are enough.
LEMMA EnoughConn ==
    ASSUME ConnTypes, ClientTypes, ConnBounded
    PROVE  Len(conn) \in 0..MaxConn /\ \A i \in 1..Len(conn) : i \in Conn
<1>1. Dialled \subseteq Clients \X (1..Rounds)
    BY DEF Dialled
<1>2. /\ IsFiniteSet(Dialled)
      /\ Cardinality(Dialled) <= Cardinality(Clients) * Rounds
  <2> HIDE DEF Dialled
  <2> QED BY <1>1, AllRounds, FS_Subset
<1>3. Cardinality(Dialled) \in Nat
  <2> HIDE DEF Dialled
  <2> QED BY <1>2, FS_CardinalityType
<1>4. Len(conn) \in Nat
    BY DEF ConnTypes
<1>5. MaxConn \in Nat /\ Conn = 1..MaxConn
    BY MaxConnNat
<1>6. Cardinality(Dialled) + 1 <= MaxConn
  <2>1. Cardinality(Clients) * Rounds \in Nat
    BY MaxConnNat, StreamAssumption, FS_CardinalityType DEF MaxConn
  <2> QED BY <1>2, <1>3, <2>1 DEF MaxConn
<1>7. Len(conn) <= MaxConn
    BY <1>3, <1>4, <1>5, <1>6 DEF ConnBounded
<1> QED BY <1>4, <1>5, <1>7

LEMMA BaseBounded == BaseInv => Len(conn) <= MaxConn
BY EnoughConn DEF BaseInv

LEMMA BaseConns == BaseInv => \A i \in 1..Len(conn) : i \in Conn
BY EnoughConn DEF BaseInv

LEMMA DialledFinite ==
    ASSUME NEW S, S \subseteq Clients \X (1..Rounds)
    PROVE  IsFiniteSet(S) /\ Cardinality(S) \in Nat
BY AllRounds, FS_Subset, FS_CardinalityType

\* A step that dials nothing and gives up no round keeps the bound.
LEMMA BoundKept ==
    ASSUME ConnBounded, ConnTypes, Dialled \subseteq Dialled',
           Len(conn') = Len(conn), stopper' = stopper
    PROVE  ConnBounded'
<1>1. Dialled \subseteq Clients \X (1..Rounds)
      /\ Dialled' \subseteq Clients \X (1..Rounds)
    BY DEF Dialled
<1>2. /\ Cardinality(Dialled) \in Nat /\ Cardinality(Dialled') \in Nat
      /\ Cardinality(Dialled) <= Cardinality(Dialled')
  <2> HIDE DEF Dialled
  <2>1. IsFiniteSet(Dialled') /\ Cardinality(Dialled') \in Nat
    BY <1>1, DialledFinite
  <2>2. Cardinality(Dialled) \in Nat
    BY <1>1, DialledFinite
  <2> QED BY <2>1, <2>2, FS_Subset
<1>3. Len(conn) \in Nat
    BY DEF ConnTypes
<1> QED BY <1>2, <1>3 DEF ConnBounded

\* A step of the servers that opens no connection leaves the clients alone.
LEMMA ServerSide ==
    ASSUME BaseInv,
           service' = service, UNCHANGED clientVars, stopper' = stopper,
           conn' \in Seq(Connection), Len(conn') = Len(conn)
    PROVE  /\ ConnTypes' /\ ClientTypes' /\ Sockets' /\ RoundsLeft'
           /\ ConnBounded'
<1>1. cpc' = cpc /\ sock' = sock /\ rounds' = rounds /\ todo' = todo
    BY DEF clientVars
<1>2. ConnTypes' /\ ClientTypes'
    BY <1>1 DEF BaseInv, ConnTypes, ClientTypes
<1>3. Sockets' /\ RoundsLeft'
    BY <1>1 DEF BaseInv, Sockets, RoundsLeft
<1>4. ConnBounded'
    BY <1>1, BoundKept DEF BaseInv, Dialled
<1> QED BY <1>2, <1>3, <1>4

\* A step of one client that dials nothing leaves the others alone.
LEMMA ClientSide ==
    ASSUME BaseInv, NEW c \in Clients,
           service' = service, UNCHANGED serverVars, stopper' = stopper,
           sock' = sock, conn' \in Seq(Connection), Len(conn') = Len(conn),
           cpc' \in [Clients -> ClientPc], rounds' \in [Clients -> 0..Rounds],
           todo' \in [Clients -> Nat],
           \A d \in Clients \ {c} : cpc'[d] = cpc[d] /\ rounds'[d] = rounds[d],
           cpc'[c] \in Connected => cpc[c] \in Connected,
           \/ rounds'[c] = rounds[c] /\ cpc[c] \in {"connect", "close"}
           \/ rounds'[c] = rounds[c] /\ cpc'[c] \notin {"connect", "close"}
           \/ rounds'[c] = rounds[c] + 1,
           cpc'[c] \in {"connect", "hello", "write", "read", "next"} =>
               rounds'[c] < Rounds,
           service.mode \notin PerRound =>
               /\ cpc'[c] \in {"connect", "hello"} => rounds'[c] = 0
               /\ cpc'[c] = "close" => rounds'[c] = Rounds,
           cpc'[c] = "next" => service.hello = "eof"
    PROVE  BaseInv'
<1>1. ConnTypes' /\ ClientTypes'
    BY DEF BaseInv, ConnTypes, ClientTypes
<1>2. ServerTypes'
    BY DEF BaseInv, ServerTypes, serverVars
<1>3. Sockets'
    BY DEF BaseInv, Sockets
<1>4. RoundsLeft'
    BY DEF BaseInv, RoundsLeft
<1>5. Dialled \subseteq Dialled'
  <2> SUFFICES ASSUME NEW s \in Dialled
               PROVE  s \in Dialled'
    OBVIOUS
  <2>1. /\ s \in Clients \X (1..Rounds) /\ s[1] \in Clients /\ s[2] \in Nat
        /\ \/ s[2] <= rounds[s[1]]
           \/ /\ s[2] = rounds[s[1]] + 1
              /\ cpc[s[1]] \notin {"connect", "close"}
    BY StreamAssumption DEF Dialled
  <2>2. rounds[s[1]] \in Nat /\ rounds'[s[1]] \in Nat
    BY <2>1, StreamAssumption DEF BaseInv, ClientTypes
  <2>3. \/ s[2] <= rounds'[s[1]]
        \/ /\ s[2] = rounds'[s[1]] + 1
           /\ cpc'[s[1]] \notin {"connect", "close"}
    BY <2>1, <2>2
  <2> QED BY <2>1, <2>3 DEF Dialled
<1>6. ConnBounded'
    BY <1>5, BoundKept DEF BaseInv
<1> QED BY <1>1, <1>2, <1>3, <1>4, <1>6 DEF BaseInv

\* The connection array with one of its records replaced.
LEMMA Replaced ==
    ASSUME NEW s \in Seq(Connection), NEW i \in 1..Len(s),
           NEW r \in Connection
    PROVE  /\ [s EXCEPT ![i] = r] \in Seq(Connection)
           /\ Len([s EXCEPT ![i] = r]) = Len(s)
           /\ \A j \in 1..Len(s) :
                 [s EXCEPT ![i] = r][j] = IF j = i THEN r ELSE s[j]
OBVIOUS

\* What exiting processes leave keeps every connection and what it carried.
LEMMA Left ==
    ASSUME ConnTypes, ServerTypes, NEW left, NEW work,
           left \subseteq listening, work \in [Conn -> WorkerPc],
           Leaving(left, work)
    PROVE  /\ conn' \in Seq(Connection) /\ Len(conn') = Len(conn)
           /\ \A i \in 1..Len(conn) :
                 \/ conn'[i] = conn[i]
                 \/ conn'[i] = [conn[i] EXCEPT !.sopen = FALSE]
           /\ queue' \in {queue, <<>>}
           /\ listening' = left /\ worker' = work
           /\ at' \in [Listener -> 0..Len(conn)]
<1>1. /\ listening' = left /\ worker' = work
      /\ at' = [l \in Listener |-> IF l \in left THEN at[l] ELSE 0]
      /\ queue' \in {queue, <<>>}
    BY DEF Leaving
<1>2. PICK shut \in [DOMAIN conn -> BOOLEAN] :
          conn' = [i \in DOMAIN conn |->
                     IF shut[i] THEN [conn[i] EXCEPT !.sopen = FALSE]
                                ELSE conn[i]]
  <2> DEFINE T(i) ==
          \/ ~SomeoneHolds(left, work) /\ \E n \in 1..Len(queue) : queue[n] = i
          \/ \E l \in listening \ left : at[l] = i
          \/ worker[i] \in Alive /\ work[i] \notin Alive
          \/ /\ worker[i] = "unserved" /\ left = {}
             /\ \A w \in Conn : w > i => work[w] \notin Alive
  <2>1. conn' = [i \in DOMAIN conn |->
                   IF T(i) THEN [conn[i] EXCEPT !.sopen = FALSE]
                           ELSE conn[i]]
    BY DEF Leaving
  <2> HIDE DEF T
  <2>2. \E t \in [DOMAIN conn -> BOOLEAN] :
           \A i \in DOMAIN conn : t[i] <=> T(i)
    <3>1. [i \in DOMAIN conn |-> IF T(i) THEN TRUE ELSE FALSE]
              \in [DOMAIN conn -> BOOLEAN]
      OBVIOUS
    <3>2. \A i \in DOMAIN conn :
             [j \in DOMAIN conn |-> IF T(j) THEN TRUE ELSE FALSE][i] <=> T(i)
      OBVIOUS
    <3> QED BY <3>1, <3>2
  <2> QED BY <2>1, <2>2
<1>3. DOMAIN conn = 1..Len(conn) /\ Len(conn) \in Nat
    BY DEF ConnTypes
<1>4. \A i \in 1..Len(conn) :
          \/ conn'[i] = conn[i]
          \/ conn'[i] = [conn[i] EXCEPT !.sopen = FALSE]
    BY <1>2, <1>3
<1>5. \A i \in 1..Len(conn) : conn'[i] \in Connection
  <2> SUFFICES ASSUME NEW i \in 1..Len(conn)
               PROVE  conn'[i] \in Connection
    OBVIOUS
  <2>1. conn[i] \in Connection
    BY DEF ConnTypes
  <2>2. [conn[i] EXCEPT !.sopen = FALSE] \in Connection
    BY <2>1 DEF Connection
  <2> QED BY <1>4, <2>1, <2>2
<1>6. conn' \in [1..Len(conn) -> Connection]
    BY <1>2, <1>3, <1>5
<1>7. conn' \in Seq(Connection) /\ Len(conn') = Len(conn)
    BY <1>3, <1>6
<1>8. at' \in [Listener -> 0..Len(conn)]
    BY <1>1, <1>3 DEF ServerTypes
<1> QED BY <1>1, <1>4, <1>7, <1>8

LEMMA BaseInit == StreamInit \/ StreamIdle => BaseInv
<1> SUFFICES ASSUME StreamInit \/ StreamIdle PROVE BaseInv
    OBVIOUS
<1>1. /\ service \in Services \cup {NoService}
      /\ conn = <<>> /\ queue = <<>>
      /\ at = [l \in Listener |-> 0] /\ worker = [i \in Conn |-> "none"]
      /\ sigchld = FALSE /\ reaping = FALSE
      /\ sock = [c \in Clients |-> 0] /\ rounds = [c \in Clients |-> 0]
      /\ todo = [c \in Clients |-> 0] /\ stopper \in {"connect", "done"}
      /\ \/ cpc = [c \in Clients |-> "connect"]
         \/ cpc = [c \in Clients |-> "done"]
    BY DEF StreamInit, StreamIdle
<1>2. listening \subseteq Listener
  <2>1. service.listeners \in {0, 1, 2}
    BY <1>1, ServiceFacts DEF Proper
  <2> QED BY <2>1 DEF StreamInit, StreamIdle, Listener
<1>3. ConnTypes
    BY <1>1 DEF ConnTypes
<1>4. ServerTypes
  <2>1. Len(conn) = 0
    BY <1>1
  <2>2. queue \in Seq(1..Len(conn))
    BY <1>1
  <2>3. at \in [Listener -> 0..Len(conn)]
    BY <1>1, <2>1
  <2> QED BY <1>1, <1>2, <2>2, <2>3 DEF ServerTypes, WorkerPc
<1>5. ClientTypes
    BY <1>1, StreamAssumption DEF ClientTypes, ClientPc
<1>6. Sockets
    BY <1>1 DEF Sockets, Connected
<1>7. RoundsLeft
    BY <1>1, StreamAssumption DEF RoundsLeft
<1>8. ConnBounded
  <2>1. Dialled \subseteq Clients \X (1..Rounds)
    BY DEF Dialled
  <2>2. Cardinality(Dialled) \in Nat
    <3> HIDE DEF Dialled
    <3> QED BY <2>1, DialledFinite
  <2> QED BY <1>1, <2>2 DEF ConnBounded
<1> QED BY <1>3, <1>4, <1>5, <1>6, <1>7, <1>8 DEF BaseInv

\* A connected client's connection, and what becomes of it by a hang-up.
LEMMA OwnConn ==
    ASSUME BaseInv, NEW c \in Clients, cpc[c] \in Connected
    PROVE  /\ sock[c] \in 1..Len(conn) /\ DOMAIN conn = 1..Len(conn)
           /\ conn[sock[c]] \in Connection
           /\ Hangup(c) \in Seq(Connection) /\ Len(Hangup(c)) = Len(conn)
           /\ \A i \in 1..Len(conn) :
                 Hangup(c)[i] = IF i = sock[c]
                                THEN [conn[i] EXCEPT !.copen = FALSE]
                                ELSE conn[i]
<1>1. sock[c] \in 1..Len(conn) /\ DOMAIN conn = 1..Len(conn)
    BY DEF BaseInv, ConnTypes, ClientTypes, Sockets
<1>2. conn \in Seq(Connection) /\ conn[sock[c]] \in Connection
    BY <1>1 DEF BaseInv, ConnTypes
<1> DEFINE r == [conn[sock[c]] EXCEPT !.copen = FALSE]
<1>3. r \in Connection
    BY <1>2 DEF Connection
<1>4. Hangup(c) = [conn EXCEPT ![sock[c]] = r]
    BY DEF Hangup
<1> HIDE DEF r
<1>5. /\ Hangup(c) \in Seq(Connection) /\ Len(Hangup(c)) = Len(conn)
      /\ \A i \in 1..Len(conn) :
            Hangup(c)[i] = IF i = sock[c] THEN r ELSE conn[i]
    BY <1>1, <1>2, <1>3, <1>4, Replaced
<1> QED BY <1>1, <1>2, <1>5 DEF r

\* connect() of a client or of the stopper.
LEMMA Dialling ==
    ASSUME BaseInv, NEW first \in Sent, NEW closed \in BOOLEAN,
           Dial(first, closed)
    PROVE  /\ ConnTypes' /\ Len(conn') = Len(conn) + 1 /\ Len(conn) \in Nat
           /\ conn' = Append(conn, Fresh(first, closed))
           /\ \A i \in 1..Len(conn) : conn'[i] = conn[i]
           /\ conn'[Len(conn) + 1] = Fresh(first, closed)
           /\ ServerTypes'
<1>1. Fresh(first, closed) \in Connection
    BY DEF Fresh, Connection
<1>2. /\ conn' = Append(conn, Fresh(first, closed))
      /\ queue' = Append(queue, Len(conn) + 1) /\ service' = service
      /\ listening' = listening /\ at' = at /\ worker' = worker
      /\ sigchld' = sigchld /\ reaping' = reaping
    BY DEF Dial
<1>3. /\ conn' \in Seq(Connection) /\ Len(conn') = Len(conn) + 1
      /\ Len(conn) \in Nat
      /\ \A i \in 1..Len(conn) : conn'[i] = conn[i]
      /\ conn'[Len(conn) + 1] = Fresh(first, closed)
    BY <1>1, <1>2 DEF BaseInv, ConnTypes
<1>4. queue' \in Seq(1..Len(conn'))
  <2>1. queue \in Seq(1..Len(conn)) /\ 1..Len(conn) \subseteq 1..Len(conn')
    BY <1>3 DEF BaseInv, ServerTypes
  <2>2. queue \in Seq(1..Len(conn')) /\ Len(conn) + 1 \in 1..Len(conn')
    BY <1>3, <2>1
  <2> QED BY <1>2, <2>2
<1>5. at' \in [Listener -> 0..Len(conn')]
    BY <1>2, <1>3 DEF BaseInv, ServerTypes
<1>6. ServerTypes'
    BY <1>2, <1>4, <1>5 DEF BaseInv, ServerTypes
<1> QED BY <1>2, <1>3, <1>6 DEF BaseInv, ConnTypes

LEMMA ConnectBase ==
    ASSUME BaseInv, NEW c \in Clients, Connect(c)
    PROVE  BaseInv'
<1>1. /\ Dial("none", FALSE) /\ cpc[c] = "connect"
      /\ sock' = [sock EXCEPT ![c] = Len(conn) + 1]
      /\ cpc' = [cpc EXCEPT ![c] = "hello"]
      /\ rounds' = rounds /\ todo' = todo /\ stopper' = stopper
      /\ service' = service
    BY DEF Connect, Dial
<1>2. /\ ConnTypes' /\ Len(conn') = Len(conn) + 1 /\ Len(conn) \in Nat
      /\ ServerTypes'
  <2>1. "none" \in Sent
    BY DEF Sent
  <2> QED BY <1>1, <2>1, Dialling
<1>3. ClientTypes'
    BY <1>1, <1>2 DEF BaseInv, ClientTypes, ClientPc
<1>4. \A d \in Clients : /\ cpc'[d] = IF d = c THEN "hello" ELSE cpc[d]
                         /\ sock'[d] = IF d = c THEN Len(conn) + 1 ELSE sock[d]
                         /\ sock[d] \in 0..Len(conn)
    BY <1>1 DEF BaseInv, ClientTypes
<1>5. Sockets'
  <2> SUFFICES ASSUME NEW d \in Clients, cpc'[d] \in Connected
               PROVE  /\ sock'[d] # 0
                      /\ \A e \in Clients :
                            cpc'[e] \in Connected /\ sock'[e] = sock'[d]
                                => e = d
    BY DEF Sockets
  <2>1. CASE d = c
    BY <1>2, <1>4, <2>1
  <2>2. CASE d # c
    BY <1>2, <1>4, <2>2 DEF BaseInv, Sockets
  <2> QED BY <2>1, <2>2
<1>6. RoundsLeft'
    BY <1>1, <1>4 DEF BaseInv, RoundsLeft
<1>7. ConnBounded'
  <2> DEFINE new == <<c, rounds[c] + 1>>
  <2>1. rounds[c] \in Nat /\ rounds[c] < Rounds /\ Rounds \in Nat
    BY <1>1, StreamAssumption DEF BaseInv, ClientTypes, RoundsLeft
  <2>2. new \in Dialled' /\ new \notin Dialled
    BY <1>1, <1>4, <2>1 DEF Dialled
  <2>3. Dialled \subseteq Dialled'
    <3> SUFFICES ASSUME NEW s \in Dialled PROVE s \in Dialled'
      OBVIOUS
    <3>1. /\ s \in Clients \X (1..Rounds) /\ s[1] \in Clients
          /\ \/ s[2] <= rounds[s[1]]
             \/ /\ s[2] = rounds[s[1]] + 1
                /\ cpc[s[1]] \notin {"connect", "close"}
      BY DEF Dialled
    <3>2. cpc'[s[1]] \in {cpc[s[1]], "hello"}
      BY <1>4, <3>1
    <3> QED BY <1>1, <3>1, <3>2 DEF Dialled
  <2>4. Dialled \subseteq Clients \X (1..Rounds)
        /\ Dialled' \subseteq Clients \X (1..Rounds)
    BY DEF Dialled
  <2>5. Cardinality(Dialled') >= Cardinality(Dialled) + 1
        /\ Cardinality(Dialled) \in Nat /\ Cardinality(Dialled') \in Nat
    <3> HIDE DEF Dialled, new
    <3>1. IsFiniteSet(Dialled) /\ IsFiniteSet(Dialled')
          /\ Cardinality(Dialled) \in Nat /\ Cardinality(Dialled') \in Nat
      BY <2>4, DialledFinite
    <3>2. Cardinality(Dialled \cup {new}) = Cardinality(Dialled) + 1
      BY <2>2, <3>1, FS_AddElement
    <3>3. Dialled \cup {new} \subseteq Dialled'
      BY <2>2, <2>3
    <3>4. Cardinality(Dialled \cup {new}) <= Cardinality(Dialled')
      BY <3>1, <3>3, FS_Subset
    <3> QED BY <3>1, <3>2, <3>4
  <2> QED BY <1>1, <1>2, <2>5 DEF BaseInv, ConnBounded
<1> QED BY <1>2, <1>3, <1>5, <1>6, <1>7 DEF BaseInv

LEMMA StopBase ==
    ASSUME BaseInv, Stop
    PROVE  BaseInv'
<1>1. /\ Dial(service.stop, TRUE) /\ stopper = "connect" /\ stopper' = "done"
      /\ sock' = sock /\ cpc' = cpc /\ rounds' = rounds /\ todo' = todo
      /\ service' = service
    BY DEF Stop, Dial, clientVars
<1>2. /\ ConnTypes' /\ Len(conn') = Len(conn) + 1 /\ Len(conn) \in Nat
      /\ ServerTypes'
  <2>1. service.stop \in Sent
    BY ServiceFacts DEF BaseInv, ConnTypes, Proper, Sent
  <2> QED BY <1>1, <2>1, Dialling
<1>3. ClientTypes'
    BY <1>1, <1>2 DEF BaseInv, ClientTypes
<1>4. Sockets' /\ RoundsLeft'
    BY <1>1 DEF BaseInv, Sockets, RoundsLeft
<1>5. ConnBounded'
  <2>1. Dialled' = Dialled
    BY <1>1 DEF Dialled
  <2>2. Dialled \subseteq Clients \X (1..Rounds)
    BY DEF Dialled
  <2>3. Cardinality(Dialled) \in Nat /\ Cardinality(Dialled') = Cardinality(Dialled)
    <3> HIDE DEF Dialled
    <3> QED BY <2>1, <2>2, DialledFinite
  <2> QED BY <1>1, <1>2, <2>3 DEF BaseInv, ConnBounded
<1> QED BY <1>2, <1>3, <1>4, <1>5 DEF BaseInv

\* A connection with other amounts of data on it is still one.
LEMMA Refilled ==
    ASSUME NEW k \in Connection, NEW x \in Nat, NEW y \in Nat
    PROVE  /\ [k EXCEPT !.down = x, !.got = y] \in Connection
           /\ [k EXCEPT !.up = x, !.down = y] \in Connection
           /\ [k EXCEPT !.down = x, !.sopen = FALSE] \in Connection
           /\ [k EXCEPT !.up = x] \in Connection
           /\ [k EXCEPT !.down = x] \in Connection
BY DEF Connection

LEMMA ReadSomeStep ==
    ASSUME BaseInv, NEW c \in Clients, cpc[c] = "read",
           NEW n \in 1..Size, ReadSome(c, n)
    PROVE  /\ conn' \in Seq(Connection) /\ Len(conn') = Len(conn)
           /\ \A i \in 1..Len(conn) :
                 conn'[i] = IF i = sock[c]
                            THEN [conn[i] EXCEPT !.down = @ - n,
                                                 !.got = @ + n]
                            ELSE conn[i]
           /\ n <= conn[sock[c]].down
           /\ \E left \in Nat :
                 /\ left = IF n > todo[c] THEN 0 ELSE todo[c] - n
                 /\ \/ /\ \/ service.mode = "echo"
                          \/ service.mode = "push" /\ left = 0
                       /\ todo' = [todo EXCEPT ![c] = Size]
                       /\ rounds' = [rounds EXCEPT ![c] = @ + 1]
                       /\ cpc' = [cpc EXCEPT ![c] = AfterRound(c)]
                    \/ /\ service.mode = "push" => left > 0
                       /\ service.mode # "echo"
                       /\ todo' = [todo EXCEPT ![c] = left]
                       /\ rounds' = rounds
                       /\ cpc' = [cpc EXCEPT ![c] = "read"]
<1>1. /\ sock[c] \in 1..Len(conn) /\ DOMAIN conn = 1..Len(conn)
      /\ conn[sock[c]] \in Connection /\ conn \in Seq(Connection)
    BY OwnConn DEF Connected, BaseInv, ConnTypes
<1>2. n \in Nat /\ Size \in Nat /\ todo[c] \in Nat
    BY StreamAssumption DEF BaseInv, ClientTypes
<1>3. n <= conn[sock[c]].down /\ conn[sock[c]].down \in Nat
      /\ conn[sock[c]].got \in Nat
    BY <1>1, <1>2 DEF ReadSome, Connection
<1> DEFINE r == [conn[sock[c]] EXCEPT !.down = @ - n, !.got = @ + n]
<1>4. r \in Connection
  <2>1. /\ conn[sock[c]].down - n \in Nat /\ conn[sock[c]].got + n \in Nat
    BY <1>2, <1>3
  <2> QED BY <1>1, <2>1, Refilled
<1>5. conn' = [conn EXCEPT ![sock[c]] = r]
    BY <1>1 DEF ReadSome
<1>6. /\ conn' \in Seq(Connection) /\ Len(conn') = Len(conn)
      /\ \A i \in 1..Len(conn) :
            conn'[i] = IF i = sock[c] THEN r ELSE conn[i]
  <2> HIDE DEF r
  <2> QED BY <1>1, <1>4, <1>5, Replaced
<1> DEFINE left == IF n > todo[c] THEN 0 ELSE todo[c] - n
           over == \/ service.mode = "echo"
                   \/ service.mode = "push" /\ left = 0
<1>7. left \in Nat
    BY <1>2
<1>8. /\ todo' = [todo EXCEPT ![c] = IF over THEN Size ELSE left]
      /\ rounds' = [rounds EXCEPT ![c] = IF over THEN @ + 1 ELSE @]
      /\ cpc' = [cpc EXCEPT ![c] = IF over THEN AfterRound(c) ELSE "read"]
    BY DEF ReadSome
<1>9. CASE over
    BY <1>3, <1>6, <1>7, <1>8, <1>9
<1>10. CASE ~over
  <2>1. rounds' = rounds
    BY <1>8, <1>10 DEF BaseInv, ClientTypes
  <2>2. service.mode # "echo" /\ (service.mode = "push" => left > 0)
    BY <1>7, <1>10
  <2>3. /\ todo' = [todo EXCEPT ![c] = left]
        /\ cpc' = [cpc EXCEPT ![c] = "read"]
    BY <1>8, <1>10
  <2> HIDE DEF left, over
  <2> QED BY <1>3, <1>6, <1>7, <2>1, <2>2, <2>3 DEF left
<1> QED BY <1>9, <1>10

\* Where a client goes when a round is over.
LEMMA RoundOver ==
    ASSUME NEW c \in Clients
    PROVE  /\ AfterRound(c) \in {"close", "write", "read"}
           /\ AfterRound(c) # "close" =>
                 service.mode \notin PerRound /\ rounds'[c] # Rounds
           /\ AfterRound(c) = "close" =>
                 service.mode \in PerRound \/ rounds'[c] = Rounds
           /\ AfterRound(c) = "write" => service.mode = "echo"
           /\ AfterRound(c) = "read" => service.mode # "echo"
BY DEF AfterRound

LEMMA ReadBase ==
    ASSUME BaseInv, NEW c \in Clients, Read(c)
    PROVE  BaseInv'
<1>1. /\ cpc[c] = "read" /\ service' = service /\ UNCHANGED serverVars
      /\ stopper' = stopper /\ sock' = sock
    BY DEF Read
<1>2. /\ rounds \in [Clients -> 0..Rounds] /\ rounds[c] \in Nat
      /\ rounds[c] < Rounds /\ Rounds \in Nat /\ Size \in Nat
      /\ cpc \in [Clients -> ClientPc] /\ todo \in [Clients -> Nat]
    BY <1>1, StreamAssumption DEF BaseInv, ClientTypes, RoundsLeft
<1>3. {"close", "write", "read", "failed"} \subseteq ClientPc
    BY DEF ClientPc
<1>4. "read" \in Connected /\ "failed" \notin Connected
    BY DEF Connected
\* A round is over, or the last one.
<1>5. ASSUME rounds' = [rounds EXCEPT ![c] = @ + 1],
             cpc' = [cpc EXCEPT ![c] = AfterRound(c)],
             todo' \in [Clients -> Nat],
             conn' \in Seq(Connection), Len(conn') = Len(conn)
      PROVE  BaseInv'
  <2>1. rounds' \in [Clients -> 0..Rounds] /\ rounds'[c] = rounds[c] + 1
        /\ \A d \in Clients \ {c} : rounds'[d] = rounds[d]
    BY <1>2, <1>5
  <2>2. cpc' \in [Clients -> ClientPc] /\ cpc'[c] = AfterRound(c)
        /\ \A d \in Clients \ {c} : cpc'[d] = cpc[d]
    BY <1>2, <1>3, <1>5, RoundOver
  <2>3. cpc'[c] \in {"close", "write", "read"}
    BY <2>2, RoundOver
  <2>4. cpc'[c] \in {"write", "read"} => rounds'[c] < Rounds
    BY <1>2, <2>1, <2>2, RoundOver
  <2>5. service.mode \notin PerRound =>
            (cpc'[c] = "close" => rounds'[c] = Rounds)
    BY <2>2, RoundOver
  <2> QED
    BY <1>1, <1>4, <1>5, <2>1, <2>2, <2>3, <2>4, <2>5, ClientSide
<1>6. CASE \E n \in 1..Size : ReadSome(c, n)
  <2>1. PICK n \in 1..Size : ReadSome(c, n)
    BY <1>6
  <2>2. conn' \in Seq(Connection) /\ Len(conn') = Len(conn)
    BY <1>1, <2>1, ReadSomeStep
  <2>3. PICK left \in Nat :
          \/ /\ todo' = [todo EXCEPT ![c] = Size]
             /\ rounds' = [rounds EXCEPT ![c] = @ + 1]
             /\ cpc' = [cpc EXCEPT ![c] = AfterRound(c)]
          \/ /\ todo' = [todo EXCEPT ![c] = left]
             /\ rounds' = rounds
             /\ cpc' = [cpc EXCEPT ![c] = "read"]
    BY <1>1, <2>1, ReadSomeStep
  <2>4. CASE rounds' = [rounds EXCEPT ![c] = @ + 1]
             /\ cpc' = [cpc EXCEPT ![c] = AfterRound(c)]
    <3>1. todo' \in [Clients -> Nat]
      BY <1>2, <2>3
    <3> QED BY <1>5, <2>2, <2>4, <3>1
  <2>5. CASE rounds' = rounds /\ cpc' = [cpc EXCEPT ![c] = "read"]
    <3>1. /\ cpc' = cpc /\ rounds' = rounds
          /\ todo' \in [Clients -> Nat]
      BY <1>1, <1>2, <2>3, <2>5
    <3>2. \A d \in Clients \ {c} : cpc'[d] = cpc[d] /\ rounds'[d] = rounds[d]
      BY <3>1
    <3> QED
      BY <1>1, <1>2, <1>4, <2>2, <3>1, <3>2, ClientSide
  <2> QED BY <2>3, <2>4, <2>5
<1>7. CASE ReadEof(c)
  <2>1. CASE service.mode = "push"
    <3>1. /\ rounds' = rounds /\ todo' = todo /\ conn' = Hangup(c)
          /\ cpc' = [cpc EXCEPT ![c] = "failed"]
      BY <1>2, <1>7, <2>1 DEF ReadEof
    <3>2. conn' \in Seq(Connection) /\ Len(conn') = Len(conn)
      BY <1>1, <1>4, <3>1, OwnConn
    <3>3. /\ cpc' \in [Clients -> ClientPc] /\ cpc'[c] = "failed"
          /\ \A d \in Clients \ {c} : cpc'[d] = cpc[d]
      BY <1>2, <1>3, <3>1
    <3> QED BY <1>1, <1>2, <1>4, <3>1, <3>2, <3>3, ClientSide
  <2>2. CASE service.mode # "push"
    <3>1. /\ rounds' = [rounds EXCEPT ![c] = @ + 1]
          /\ cpc' = [cpc EXCEPT ![c] = AfterRound(c)]
          /\ todo' = todo /\ conn' = conn
      BY <1>7, <2>2 DEF ReadEof
    <3> QED BY <1>2, <1>5, <3>1 DEF BaseInv, ConnTypes
  <2> QED BY <2>1, <2>2
<1> QED BY <1>6, <1>7 DEF Read

LEMMA RefusedBase ==
    ASSUME BaseInv, NEW c \in Clients, Refused(c)
    PROVE  BaseInv'
<1>1. /\ cpc[c] = "connect" /\ service' = service /\ UNCHANGED serverVars
      /\ stopper' = stopper /\ sock' = sock /\ conn' = conn
      /\ rounds' = rounds /\ todo' = todo
    BY DEF Refused
<1>2. \E pc \in {"connect", "failed", "unconnected"} :
          cpc' = [cpc EXCEPT ![c] = pc]
    BY DEF Refused
<1>3. /\ cpc' \in [Clients -> ClientPc]
      /\ cpc'[c] \in {"connect", "failed", "unconnected"}
      /\ \A d \in Clients \ {c} : cpc'[d] = cpc[d]
    BY <1>2 DEF BaseInv, ClientTypes, ClientPc
<1>4. /\ rounds' \in [Clients -> 0..Rounds] /\ todo' \in [Clients -> Nat]
      /\ conn' \in Seq(Connection) /\ rounds'[c] < Rounds
      /\ service.mode \notin PerRound => rounds'[c] = 0
    BY <1>1 DEF BaseInv, ConnTypes, ClientTypes, RoundsLeft
<1>5. cpc'[c] \notin Connected
    BY <1>3 DEF Connected
<1> QED BY <1>1, <1>3, <1>4, <1>5, ClientSide

LEMMA HelloBase ==
    ASSUME BaseInv, NEW c \in Clients, Hello(c)
    PROVE  BaseInv'
<1>1. /\ cpc[c] = "hello" /\ service' = service /\ UNCHANGED serverVars
      /\ stopper' = stopper /\ sock' = sock /\ rounds' = rounds
      /\ todo' = [todo EXCEPT ![c] = Size]
    BY DEF Hello
<1>2. /\ rounds' \in [Clients -> 0..Rounds] /\ todo' \in [Clients -> Nat]
      /\ rounds'[c] < Rounds
    BY <1>1, StreamAssumption DEF BaseInv, ClientTypes, RoundsLeft
<1>3. cpc[c] \in Connected
    BY <1>1 DEF Connected
<1>4. \E pc \in {"next", "write", "read"} :
          /\ cpc' = [cpc EXCEPT ![c] = pc]
          /\ pc = "next" => service.hello = "eof"
    BY DEF Hello
<1>5. /\ cpc' \in [Clients -> ClientPc]
      /\ cpc'[c] \in {"next", "write", "read"}
      /\ cpc'[c] = "next" => service.hello = "eof"
      /\ \A d \in Clients \ {c} : cpc'[d] = cpc[d]
    BY <1>4 DEF BaseInv, ClientTypes, ClientPc
<1>6. conn' \in Seq(Connection) /\ Len(conn') = Len(conn)
  <2>1. CASE service.hello = "eof"
    BY <1>3, <2>1, OwnConn DEF Hello
  <2>2. CASE service.hello # "eof"
    <3>1. /\ conn \in Seq(Connection) /\ sock[c] \in 1..Len(conn)
          /\ conn[sock[c]] \in Connection
      BY <1>3, OwnConn DEF BaseInv, ConnTypes
    <3>2. [conn[sock[c]] EXCEPT !.first = service.hello] \in Connection
      <4>1. service.hello \in Sent
        BY ServiceFacts DEF BaseInv, ConnTypes, Proper, Sent
      <4> QED BY <3>1, <4>1 DEF Connection
    <3>3. conn' = [conn EXCEPT ![sock[c]] =
                      [conn[sock[c]] EXCEPT !.first = service.hello]]
      BY <2>2 DEF Hello
    <3> QED BY <3>1, <3>2, <3>3, Replaced
  <2> QED BY <2>1, <2>2
<1> QED BY <1>1, <1>2, <1>3, <1>5, <1>6, ClientSide

LEMMA WriteBase ==
    ASSUME BaseInv, NEW c \in Clients, Write(c)
    PROVE  BaseInv'
<1>1. /\ cpc[c] = "write" /\ service' = service /\ UNCHANGED serverVars
      /\ stopper' = stopper /\ sock' = sock /\ rounds' = rounds
      /\ todo' = todo
    BY DEF Write
<1>2. /\ rounds' \in [Clients -> 0..Rounds] /\ todo' \in [Clients -> Nat]
      /\ rounds'[c] < Rounds
    BY <1>1 DEF BaseInv, ClientTypes, RoundsLeft
<1>3. cpc[c] \in Connected
    BY <1>1 DEF Connected
<1>4. /\ cpc' \in [Clients -> ClientPc]
      /\ cpc'[c] \in {"read", "failed"}
      /\ \A d \in Clients \ {c} : cpc'[d] = cpc[d]
  <2>1. \E pc \in {"read", "failed"} : cpc' = [cpc EXCEPT ![c] = pc]
    BY DEF Write
  <2> QED BY <2>1 DEF BaseInv, ClientTypes, ClientPc
<1>5. conn' \in Seq(Connection) /\ Len(conn') = Len(conn)
  <2>1. /\ conn \in Seq(Connection) /\ sock[c] \in 1..Len(conn)
        /\ conn[sock[c]] \in Connection
    BY <1>3, OwnConn DEF BaseInv, ConnTypes
  <2>2. CASE conn' = [conn EXCEPT ![sock[c]].up = @ + Size]
    <3>1. conn[sock[c]].up + Size \in Nat
      BY <2>1, StreamAssumption DEF Connection
    <3>2. [conn[sock[c]] EXCEPT !.up = @ + Size] \in Connection
      BY <2>1, <3>1, Refilled
    <3>3. conn' = [conn EXCEPT ![sock[c]] =
                      [conn[sock[c]] EXCEPT !.up = @ + Size]]
      BY <2>2
    <3> QED BY <2>1, <3>2, <3>3, Replaced
  <2>3. conn' \in {conn, Hangup(c)} \/ conn' = [conn EXCEPT ![sock[c]].up = @ + Size]
    BY DEF Write
  <2> QED BY <1>3, <2>1, <2>2, <2>3, OwnConn
<1> QED BY <1>1, <1>2, <1>3, <1>4, <1>5, ClientSide

LEMMA CloseBase ==
    ASSUME BaseInv, NEW c \in Clients, Close(c)
    PROVE  BaseInv'
<1>1. /\ cpc[c] \in {"close", "next"} /\ service' = service
      /\ UNCHANGED serverVars /\ stopper' = stopper /\ sock' = sock
      /\ todo' = todo /\ conn' = Hangup(c)
      /\ rounds' = [rounds EXCEPT ![c] = IF cpc[c] = "next" THEN @ + 1 ELSE @]
      /\ cpc' = [cpc EXCEPT ![c] = IF rounds'[c] = Rounds THEN "done"
                                                          ELSE "connect"]
    BY DEF Close
<1>2. cpc[c] \in Connected
    BY <1>1 DEF Connected
<1>3. conn' \in Seq(Connection) /\ Len(conn') = Len(conn)
    BY <1>1, <1>2, OwnConn
<1>4. /\ rounds \in [Clients -> 0..Rounds] /\ rounds[c] \in Nat
      /\ rounds[c] <= Rounds /\ Rounds \in Nat
      /\ cpc[c] = "next" => rounds[c] < Rounds /\ service.hello = "eof"
      /\ cpc[c] = "close" /\ service.mode \notin PerRound =>
             rounds[c] = Rounds
    BY StreamAssumption DEF BaseInv, ClientTypes, RoundsLeft
<1>5. /\ rounds' \in [Clients -> 0..Rounds] /\ rounds'[c] <= Rounds
      /\ rounds'[c] = IF cpc[c] = "next" THEN rounds[c] + 1 ELSE rounds[c]
      /\ \A d \in Clients \ {c} : rounds'[d] = rounds[d]
    BY <1>1, <1>4
<1>6. /\ cpc' \in [Clients -> ClientPc]
      /\ cpc'[c] \in {"done", "connect"}
      /\ cpc'[c] = "connect" => rounds'[c] # Rounds
      /\ \A d \in Clients \ {c} : cpc'[d] = cpc[d]
    BY <1>1 DEF BaseInv, ClientTypes, ClientPc
<1>7. cpc'[c] \notin Connected
    BY <1>6 DEF Connected
<1>8. service.mode \notin PerRound => cpc'[c] = "done"
  <2>1. service.hello = "eof" => service.mode \in PerRound
    BY ServiceFacts DEF BaseInv, ConnTypes, Proper, PerRound
  <2> QED BY <1>1, <1>4, <1>5, <1>6, <2>1
<1>9. todo' \in [Clients -> Nat]
    BY <1>1 DEF BaseInv, ClientTypes
<1>10. \/ rounds'[c] = rounds[c] /\ cpc[c] \in {"connect", "close"}
       \/ rounds'[c] = rounds[c] + 1
    BY <1>1, <1>5
<1>11. cpc'[c] = "connect" => rounds'[c] < Rounds
    BY <1>4, <1>5, <1>6
<1>12. service.mode \notin PerRound =>
               /\ cpc'[c] \in {"connect", "hello"} => rounds'[c] = 0
               /\ cpc'[c] = "close" => rounds'[c] = Rounds
    BY <1>8
<1> QED
    BY <1>1, <1>3, <1>5, <1>6, <1>7, <1>9, <1>10, <1>11, <1>12, ClientSide

LEMMA ClientDiesBase ==
    ASSUME BaseInv, NEW c \in Clients, ClientDies(c)
    PROVE  BaseInv'
<1>1. /\ cpc[c] \notin {"connect", "done", "failed", "unconnected"}
      /\ service' = service /\ UNCHANGED serverVars
      /\ stopper' = stopper /\ sock' = sock /\ rounds' = rounds
      /\ todo' = todo /\ conn' = Hangup(c)
      /\ cpc' = [cpc EXCEPT ![c] = "failed"]
    BY DEF ClientDies
<1>2. /\ cpc \in [Clients -> ClientPc] /\ rounds \in [Clients -> 0..Rounds]
      /\ todo \in [Clients -> Nat]
    BY DEF BaseInv, ClientTypes
<1>3. cpc[c] \in Connected
    BY <1>1, <1>2 DEF Connected, ClientPc
<1>4. conn' \in Seq(Connection) /\ Len(conn') = Len(conn)
    BY <1>1, <1>3, OwnConn
<1>5. /\ cpc' \in [Clients -> ClientPc] /\ cpc'[c] = "failed"
      /\ \A d \in Clients \ {c} : cpc'[d] = cpc[d]
    BY <1>1, <1>2 DEF ClientPc
<1> QED BY <1>1, <1>2, <1>3, <1>4, <1>5, ClientSide

LEMMA LeaveBase ==
    ASSUME BaseInv, NEW left, NEW work,
           left \subseteq listening, work \in [Conn -> WorkerPc],
           Leaving(left, work), service' = service, UNCHANGED clientVars,
           stopper' = stopper, sigchld' \in BOOLEAN, reaping' \in BOOLEAN
    PROVE  BaseInv'
<1>1. /\ conn' \in Seq(Connection) /\ Len(conn') = Len(conn)
      /\ queue' \in {queue, <<>>} /\ listening' = left /\ worker' = work
      /\ at' \in [Listener -> 0..Len(conn)]
    BY Left DEF BaseInv
<1>2. queue \in Seq(1..Len(conn)) /\ <<>> \in Seq(1..Len(conn))
    BY DEF BaseInv, ServerTypes
<1>3. ServerTypes'
    BY <1>1, <1>2 DEF BaseInv, ServerTypes
<1> QED BY <1>1, <1>3, ServerSide DEF BaseInv

LEMMA WorkerKinds ==
    ASSUME worker \in [Conn -> WorkerPc], NEW i \in Conn
    PROVE  /\ Orphans \in [Conn -> WorkerPc]
           /\ [Orphans EXCEPT ![i] = "reaped"] \in [Conn -> WorkerPc]
           /\ \A w \in WorkerPc :
                 [worker EXCEPT ![i] = w] \in [Conn -> WorkerPc]
BY DEF Orphans, WorkerPc

\* Each action of the servers: the work of one of their processes.
LEMMA DieBase ==
    ASSUME BaseInv, NEW i \in Conn, Die(i), service' = service,
           UNCHANGED clientVars, stopper' = stopper, reaping' = reaping
    PROVE  BaseInv'
<1>1. worker \in [Conn -> WorkerPc] /\ reaping' \in BOOLEAN
    BY DEF BaseInv, ServerTypes
<1>2. sigchld' \in BOOLEAN
    BY DEF Die
<1>3. PICK w \in {"reaped", "zombie"} :
          Leaving(listening, [worker EXCEPT ![i] = w])
    BY DEF Die
<1>4. [worker EXCEPT ![i] = w] \in [Conn -> WorkerPc]
    BY <1>1, WorkerKinds DEF WorkerPc
<1> QED BY <1>1, <1>2, <1>3, <1>4, LeaveBase

LEMMA AcceptBase ==
    ASSUME BaseInv, NEW w \in WorkerPc, queue # <<>>,
           worker' \in {worker, [worker EXCEPT ![Head(queue)] = w]},
           queue' = Tail(queue), at' \in [Listener -> 0..Len(conn)],
           service' = service, listening' = listening, conn' = conn,
           sigchld' = sigchld, reaping' = reaping, UNCHANGED clientVars,
           stopper' = stopper
    PROVE  BaseInv'
<1>1. queue' \in Seq(1..Len(conn))
    BY DEF BaseInv, ServerTypes
<1>2. worker' \in [Conn -> WorkerPc]
    BY DEF BaseInv, ServerTypes
<1>3. ServerTypes'
    BY <1>1, <1>2 DEF BaseInv, ServerTypes
<1>4. conn' \in Seq(Connection)
    BY DEF BaseInv, ConnTypes
<1> QED BY <1>3, <1>4, ServerSide DEF BaseInv

\* Data moves on a connection, or the server closes it.
LEMMA FlowBase ==
    ASSUME BaseInv, NEW i \in 1..Len(conn), NEW r \in Connection,
           conn' = [conn EXCEPT ![i] = r],
           at' \in [Listener -> 0..Len(conn)],
           service' = service, listening' = listening, queue' = queue,
           worker' = worker, sigchld' = sigchld, reaping' = reaping,
           UNCHANGED clientVars, stopper' = stopper
    PROVE  BaseInv'
<1>1. conn' \in Seq(Connection) /\ Len(conn') = Len(conn)
    BY Replaced DEF BaseInv, ConnTypes
<1>2. ServerTypes'
    BY <1>1 DEF BaseInv, ServerTypes
<1> QED BY <1>1, <1>2, ServerSide DEF BaseInv

LEMMA HeadQueued ==
    ASSUME ServerTypes, queue # <<>>
    PROVE  /\ Head(queue) \in 1..Len(conn) /\ Len(queue) \in Nat \ {0}
           /\ Head(queue) = queue[1]
           /\ Len(Tail(queue)) = Len(queue) - 1
           /\ \A n \in 1..Len(Tail(queue)) : Tail(queue)[n] = queue[n + 1]
BY DEF ServerTypes

LEMMA BaseStep == BaseInv /\ [StreamNext]_streamVars => BaseInv'
<1> SUFFICES ASSUME BaseInv, [StreamNext]_streamVars PROVE BaseInv'
    OBVIOUS
<1>0. /\ conn \in Seq(Connection) /\ Len(conn) \in Nat
      /\ at \in [Listener -> 0..Len(conn)]
      /\ worker \in [Conn -> WorkerPc]
      /\ reaping \in BOOLEAN /\ sigchld \in BOOLEAN
    BY DEF BaseInv, ConnTypes, ServerTypes
<1>1. CASE UNCHANGED streamVars
  <2>1. ServerTypes'
    BY <1>1 DEF BaseInv, ServerTypes, streamVars, serverVars
  <2>2. conn' = conn /\ service' = service /\ UNCHANGED clientVars
        /\ stopper' = stopper
    BY <1>1 DEF streamVars
  <2> QED BY <1>0, <2>1, <2>2, ServerSide DEF BaseInv
<1>2. ASSUME NEW c \in Clients, Connect(c) PROVE BaseInv'
    BY <1>2, ConnectBase
<1>3. ASSUME NEW c \in Clients, Refused(c) PROVE BaseInv'
    BY <1>3, RefusedBase
<1>4. ASSUME NEW c \in Clients, Hello(c) PROVE BaseInv'
    BY <1>4, HelloBase
<1>5. ASSUME NEW c \in Clients, Write(c) PROVE BaseInv'
    BY <1>5, WriteBase
<1>6. ASSUME NEW c \in Clients, Read(c) PROVE BaseInv'
    BY <1>6, ReadBase
<1>7. ASSUME NEW c \in Clients, Close(c) PROVE BaseInv'
    BY <1>7, CloseBase
<1>8. ASSUME NEW c \in Clients, ClientDies(c) PROVE BaseInv'
    BY <1>8, ClientDiesBase
<1>9. CASE Stop
    BY <1>9, StopBase
<1>10. ASSUME NEW l \in Listener, AcceptInline(l) PROVE BaseInv'
  <2>1. Head(queue) \in 1..Len(conn)
    BY <1>10, HeadQueued DEF AcceptInline, BaseInv
  <2>2. at' \in [Listener -> 0..Len(conn)]
    BY <1>0, <1>10, <2>1 DEF AcceptInline
  <2>3. "none" \in WorkerPc
    BY DEF WorkerPc
  <2> QED BY <1>10, <2>2, <2>3, AcceptBase DEF AcceptInline
<1>11. ASSUME NEW l \in Listener, AcceptFork(l) PROVE BaseInv'
  <2>1. "first" \in WorkerPc
    BY DEF WorkerPc
  <2> QED BY <1>0, <1>11, <2>1, AcceptBase DEF AcceptFork
<1>12. ASSUME NEW l \in Listener, AcceptForkFails(l) PROVE BaseInv'
  <2>1. "unserved" \in WorkerPc
    BY DEF WorkerPc
  <2> QED BY <1>0, <1>12, <2>1, AcceptBase DEF AcceptForkFails
<1>13. ASSUME NEW l \in Listener, InlineStops(l) \/ InlineWriteFails(l)
       PROVE  BaseInv'
  <2>1. listening \ {l} \subseteq listening
    OBVIOUS
  <2> QED BY <1>0, <1>13, <2>1, LeaveBase DEF InlineStops, InlineWriteFails
<1>14. ASSUME NEW l \in Listener, InlineServes(l) PROVE BaseInv'
  <2>1. at[l] \in 1..Len(conn)
    BY <1>0, <1>14 DEF InlineServes
  <2>2. PICK sent \in Nat :
          conn' = [conn EXCEPT ![at[l]].down = sent, ![at[l]].sopen = FALSE]
    <3>1. (IF First(at[l]) \in service.serves THEN {0, Size} ELSE {0})
              \subseteq Nat
      BY StreamAssumption
    <3> QED BY <1>14, <3>1 DEF InlineServes
  <2>3. [conn[at[l]] EXCEPT !.down = sent, !.sopen = FALSE] \in Connection
    <3>1. conn[at[l]] \in Connection
      BY <1>0, <2>1
    <3> QED BY <3>1, Refilled
  <2>4. conn' = [conn EXCEPT ![at[l]] =
                    [conn[at[l]] EXCEPT !.down = sent, !.sopen = FALSE]]
    BY <1>0, <2>1, <2>2
  <2>5. at' \in [Listener -> 0..Len(conn)]
    BY <1>0, <1>14 DEF InlineServes
  <2> QED BY <1>14, <2>1, <2>3, <2>4, <2>5, FlowBase DEF InlineServes
<1>15. ASSUME NEW l \in Listener, GoAway(l) PROVE BaseInv'
  <2>1. listening \ {l} \subseteq listening /\ Orphans \in [Conn -> WorkerPc]
    BY <1>0 DEF Orphans, WorkerPc
  <2>2. sigchld' \in BOOLEAN /\ reaping' \in BOOLEAN
    BY <1>15 DEF GoAway
  <2> QED BY <1>15, <2>1, <2>2, LeaveBase DEF GoAway
<1>16. ASSUME NEW i \in Conn, i <= Len(conn), WorkerStops(i) PROVE BaseInv'
  <2>1. /\ {} \subseteq listening
        /\ [Orphans EXCEPT ![i] = "reaped"] \in [Conn -> WorkerPc]
    BY <1>0, WorkerKinds
  <2>2. sigchld' \in BOOLEAN /\ reaping' \in BOOLEAN
    BY <1>16 DEF WorkerStops
  <2>3. /\ Leaving({}, [Orphans EXCEPT ![i] = "reaped"])
        /\ service' = service /\ UNCHANGED clientVars /\ stopper' = stopper
    BY <1>16 DEF WorkerStops
  <2> DEFINE work == [Orphans EXCEPT ![i] = "reaped"]
             left == {}
  <2>4. /\ left \subseteq listening /\ work \in [Conn -> WorkerPc]
        /\ Leaving(left, work)
    BY <2>1, <2>3
  <2> HIDE DEF work, left
  <2> QED BY <2>2, <2>3, <2>4, LeaveBase
<1>17. ASSUME NEW i \in Conn, i <= Len(conn), WorkerStarts(i) PROVE BaseInv'
  <2>1. /\ service' = service /\ reaping' = reaping /\ UNCHANGED clientVars
        /\ stopper' = stopper
    BY <1>17 DEF WorkerStarts
  <2>2. CASE Die(i)
    BY <2>1, <2>2, DieBase
  <2>3. CASE worker' = [worker EXCEPT ![i] = "serve"]
             /\ UNCHANGED <<listening, at, queue, conn, sigchld>>
    <3>1. worker' \in [Conn -> WorkerPc]
      BY <1>0, <2>3, WorkerKinds DEF WorkerPc
    <3>2. ServerTypes'
      BY <2>1, <2>3, <3>1 DEF BaseInv, ServerTypes
    <3> QED BY <1>0, <2>1, <2>3, <3>2, ServerSide DEF BaseInv
  <2> QED BY <1>17, <2>2, <2>3 DEF WorkerStarts
<1>18. ASSUME NEW i \in Conn, i <= Len(conn), Echo(i) PROVE BaseInv'
  <2>1. i \in 1..Len(conn) /\ conn[i] \in Connection
    BY <1>0, <1>18, MaxConnNat
  <2>2. PICK n \in 1..Size :
          /\ n <= conn[i].up
          /\ conn' = [conn EXCEPT ![i].up = @ - n, ![i].down = @ + Size]
    BY <1>18 DEF Echo
  <2>3. conn[i].up - n \in Nat /\ conn[i].down + Size \in Nat
    BY <2>1, <2>2, StreamAssumption DEF Connection
  <2>4. [conn[i] EXCEPT !.up = @ - n, !.down = @ + Size] \in Connection
    BY <2>1, <2>3, Refilled
  <2>5. conn' = [conn EXCEPT ![i] =
                    [conn[i] EXCEPT !.up = @ - n, !.down = @ + Size]]
    BY <1>0, <2>1, <2>2
  <2> QED
    BY <1>0, <1>18, <2>1, <2>4, <2>5, FlowBase DEF Echo, serverVars
<1>19. ASSUME NEW i \in Conn, i <= Len(conn), Push(i) PROVE BaseInv'
  <2>1. i \in 1..Len(conn) /\ conn[i] \in Connection
    BY <1>0, <1>19, MaxConnNat
  <2>2. conn[i].down + Size \in Nat
    BY <2>1, StreamAssumption DEF Connection
  <2>3. [conn[i] EXCEPT !.down = @ + Size] \in Connection
    BY <2>1, <2>2, Refilled
  <2>4. conn' = [conn EXCEPT ![i] = [conn[i] EXCEPT !.down = @ + Size]]
    BY <1>19 DEF Push
  <2> QED
    BY <1>0, <1>19, <2>1, <2>3, <2>4, FlowBase DEF Push, serverVars
<1>20. ASSUME NEW i \in Conn, i <= Len(conn), WorkerEnds(i) PROVE BaseInv'
    BY <1>20, DieBase DEF WorkerEnds
<1>21. CASE Deliver
  <2>1. ServerTypes'
    BY <1>21 DEF BaseInv, ServerTypes, Deliver
  <2> QED BY <1>0, <1>21, <2>1, ServerSide DEF BaseInv, Deliver
<1>22. CASE Wait
  <2>1. worker' \in [Conn -> WorkerPc]
    BY <1>0, <1>22 DEF Wait, WorkerPc
  <2>2. ServerTypes'
    BY <1>22, <2>1 DEF BaseInv, ServerTypes, Wait
  <2> QED BY <1>0, <1>22, <2>2, ServerSide DEF BaseInv, Wait
<1> QED
    BY ONLY [StreamNext]_streamVars, StreamSteps, <1>1, <1>2, <1>3, <1>4,
       <1>5, <1>6, <1>7, <1>8, <1>9, <1>10, <1>11, <1>12, <1>13, <1>14,
       <1>15, <1>16, <1>17, <1>18, <1>19, <1>20, <1>21, <1>22

-----------------------------------------------------------------------------
(* The handler never blocks.                                               *)

\* A connection has no child before it has been accepted, and is accepted
\* once: no child is forgotten that has not been waited for.
QueueInv ==
    /\ \A n \in 1..Len(queue) : worker[queue[n]] = "none"
    /\ \A m, n \in 1..Len(queue) : queue[m] = queue[n] => m = n
    /\ \A i \in Conn : i > Len(conn) => worker[i] = "none"

\* Each signal, pending or being handled, has a dead child of its own.
Zombies == {i \in Conn : worker[i] = "zombie"}
Signals == (IF reaping THEN 1 ELSE 0) + (IF sigchld THEN 1 ELSE 0)
ReapInv == Signals <= Cardinality(Zombies)

LEMMA ZombiesFinite == IsFiniteSet(Zombies) /\ Cardinality(Zombies) \in Nat
<1>1. IsFiniteSet(Conn)
    BY MaxConnNat, FS_Interval
<1>2. Zombies \subseteq Conn
    BY DEF Zombies
<1> QED BY <1>1, <1>2, FS_Subset, FS_CardinalityType

LEMMA QueueInit == StreamInit \/ StreamIdle => QueueInv /\ ReapInv
<1> SUFFICES ASSUME StreamInit \/ StreamIdle PROVE QueueInv /\ ReapInv
    OBVIOUS
<1>1. /\ queue = <<>> /\ worker = [i \in Conn |-> "none"]
      /\ sigchld = FALSE /\ reaping = FALSE
    BY DEF StreamInit, StreamIdle
<1>2. QueueInv
    BY <1>1 DEF QueueInv
<1>3. ReapInv
    BY <1>1, ZombiesFinite DEF ReapInv, Signals
<1> QED BY <1>2, <1>3

\* Nothing is accepted; the queue may go, children may die.
LEMMA QueueKept ==
    ASSUME BaseInv, QueueInv, queue' \in {queue, <<>>},
           Len(conn') = Len(conn),
           \A i \in Conn : worker[i] = "none" => worker'[i] = "none"
    PROVE  QueueInv'
<1>1. \A n \in 1..Len(queue) : queue[n] \in Conn
    BY EnoughConn DEF BaseInv, ServerTypes
<1>2. Len(<<>>) = 0
    OBVIOUS
<1>3. CASE queue' = queue
    BY <1>1, <1>3 DEF QueueInv
<1>4. CASE queue' = <<>>
    BY <1>2, <1>4 DEF QueueInv
<1> QED BY <1>3, <1>4

\* The first of the queue is accepted, with a child or without.
LEMMA QueueTaken ==
    ASSUME BaseInv, QueueInv, queue # <<>>, queue' = Tail(queue),
           conn' = conn, NEW w \in WorkerPc \ {"zombie"},
           worker' \in {worker, [worker EXCEPT ![Head(queue)] = w]}
    PROVE  QueueInv' /\ Zombies' = Zombies
<1>1. /\ Head(queue) \in Conn /\ Len(queue) \in Nat \ {0}
      /\ Head(queue) = queue[1] /\ Len(queue') = Len(queue) - 1
      /\ \A n \in 1..Len(queue') : queue'[n] = queue[n + 1]
      /\ \A n \in 1..Len(queue) : queue[n] \in Conn
      /\ Head(queue) <= Len(conn) /\ Len(conn) \in Nat
  <2>1. Head(queue) \in 1..Len(conn) /\ Len(conn) \in Nat
        /\ \A n \in 1..Len(queue) : queue[n] \in 1..Len(conn)
    BY HeadQueued DEF BaseInv, ServerTypes, ConnTypes
  <2> QED BY <2>1, HeadQueued, EnoughConn DEF BaseInv
<1>2. \A i \in Conn :
          worker'[i] = worker[i] \/ (i = Head(queue) /\ worker'[i] = w)
    BY DEF BaseInv, ServerTypes
<1>3. worker[Head(queue)] = "none"
    BY <1>1 DEF QueueInv
<1>4. Zombies' = Zombies
    BY <1>2, <1>3 DEF Zombies
<1>5. ASSUME NEW n \in 1..Len(queue') PROVE worker'[queue'[n]] = "none"
  <2>1. n + 1 \in 1..Len(queue) /\ n + 1 # 1 /\ 1 \in 1..Len(queue)
    BY <1>1
  <2>2. queue[n + 1] # queue[1] /\ worker[queue[n + 1]] = "none"
    BY <2>1 DEF QueueInv
  <2> QED BY <1>1, <1>2, <2>1, <2>2
<1>6. ASSUME NEW m \in 1..Len(queue'), NEW n \in 1..Len(queue'),
             queue'[m] = queue'[n]
      PROVE  m = n
  <2>1. m + 1 \in 1..Len(queue) /\ n + 1 \in 1..Len(queue)
    BY <1>1
  <2>2. m + 1 = n + 1
    BY <1>1, <1>6, <2>1 DEF QueueInv
  <2> QED BY <2>2
<1>7. ASSUME NEW i \in Conn, i > Len(conn') PROVE worker'[i] = "none"
  <2>1. i # Head(queue)
    BY <1>1, <1>7, MaxConnNat
  <2> QED BY <1>2, <1>7, <2>1 DEF QueueInv
<1> QED BY <1>4, <1>5, <1>6, <1>7 DEF QueueInv

\* A new connection waits at the end of the queue.
LEMMA QueueGrows ==
    ASSUME BaseInv, QueueInv, NEW first \in Sent, NEW closed \in BOOLEAN,
           Dial(first, closed), BaseInv'
    PROVE  QueueInv' /\ Zombies' = Zombies
<1>1. /\ Len(conn') = Len(conn) + 1 /\ Len(conn) \in Nat
      /\ queue' = Append(queue, Len(conn) + 1) /\ worker' = worker
    BY Dialling DEF Dial
<1>2. queue \in Seq(1..Len(conn)) /\ Len(queue) \in Nat
    BY DEF BaseInv, ServerTypes
<1>3. /\ Len(queue') = Len(queue) + 1
      /\ \A n \in 1..Len(queue) : queue'[n] = queue[n]
      /\ queue'[Len(queue) + 1] = Len(conn) + 1
      /\ \A n \in 1..Len(queue) : queue[n] \in 1..Len(conn)
    BY <1>1, <1>2
<1>4. Len(conn) + 1 \in Conn
  <2>1. BaseInv' => (Len(conn) <= MaxConn)'
    BY BaseBounded, PTL
  <2> QED BY <1>1, <2>1, MaxConnNat DEF MaxConn
<1>5. worker[Len(conn) + 1] = "none"
    BY <1>1, <1>4 DEF QueueInv
<1>6. ASSUME NEW n \in 1..Len(queue') PROVE worker'[queue'[n]] = "none"
  <2>1. CASE n = Len(queue) + 1
    BY <1>1, <1>3, <1>5, <2>1
  <2>2. CASE n # Len(queue) + 1
    <3>1. n \in 1..Len(queue)
      BY <1>2, <1>3, <2>2
    <3> QED BY <1>1, <1>3, <3>1 DEF QueueInv
  <2> QED BY <2>1, <2>2
<1>7. ASSUME NEW m \in 1..Len(queue'), NEW n \in 1..Len(queue'),
             queue'[m] = queue'[n]
      PROVE  m = n
  <2>1. \A k \in 1..Len(queue') :
            k \in 1..Len(queue) \/ k = Len(queue) + 1
    BY <1>2, <1>3
  <2>2. ASSUME NEW k \in 1..Len(queue)
        PROVE  queue'[k] # queue'[Len(queue) + 1]
    <3>1. queue'[k] \in 1..Len(conn)
      BY <1>3
    <3> QED BY <1>1, <1>3, <3>1
  <2>3. CASE m \in 1..Len(queue) /\ n \in 1..Len(queue)
    BY <1>3, <1>7, <2>3 DEF QueueInv
  <2> QED BY <1>7, <2>1, <2>2, <2>3
<1>8. \A i \in Conn : i > Len(conn') => worker'[i] = "none"
    BY <1>1, MaxConnNat DEF QueueInv
<1>9. Zombies' = Zombies
    BY <1>1 DEF Zombies
<1> QED BY <1>6, <1>7, <1>8, <1>9 DEF QueueInv

\* No step but a connect() changes how many connections there are.
LEMMA SameLength ==
    ASSUME BaseInv, BaseInv', DOMAIN conn' = DOMAIN conn
    PROVE  Len(conn') = Len(conn)
<1>1. /\ Len(conn) \in Nat /\ Len(conn') \in Nat
      /\ DOMAIN conn = 1..Len(conn) /\ DOMAIN conn' = 1..Len(conn')
    BY DEF BaseInv, ConnTypes
<1> QED BY <1>1

LEMMA ClientConns ==
    ASSUME BaseInv, BaseInv', NEW c \in Clients,
           \/ Refused(c) \/ Hello(c) \/ Write(c) \/ Read(c) \/ Close(c)
           \/ ClientDies(c)
    PROVE  /\ Len(conn') = Len(conn) /\ UNCHANGED serverVars
           /\ service' = service
<1>1. UNCHANGED serverVars /\ service' = service
    BY DEF Refused, Hello, Write, Read, Close, ClientDies
<1>2. DOMAIN conn' = DOMAIN conn
  <2>1. CASE Refused(c)
    BY <2>1 DEF Refused
  <2>2. CASE Hello(c)
    BY <2>2 DEF Hello, Hangup
  <2>3. CASE Write(c)
    BY <2>3 DEF Write, Hangup
  <2>4. CASE Read(c)
    BY <2>4 DEF Read, ReadSome, ReadEof, Hangup
  <2>5. CASE Close(c) \/ ClientDies(c)
    BY <2>5 DEF Close, ClientDies, Hangup
  <2> QED BY <2>1, <2>2, <2>3, <2>4, <2>5
<1> QED BY <1>1, <1>2, SameLength

\* Signals are not more, and no dead child is waited for.
LEMMA ReapKept ==
    ASSUME BaseInv, ReapInv, Zombies' = Zombies,
           sigchld' \in {sigchld, FALSE}, reaping' \in {reaping, FALSE}
    PROVE  ReapInv'
<1>1. Signals' <= Signals /\ Signals \in Nat /\ Signals' \in Nat
  <2> DEFINE R(r) == IF r THEN 1 ELSE 0
  <2>1. \A r \in BOOLEAN : R(r) \in {0, 1} /\ R(FALSE) = 0
    OBVIOUS
  <2>2. sigchld \in BOOLEAN /\ reaping \in BOOLEAN
    BY DEF BaseInv, ServerTypes
  <2>3. /\ R(sigchld) \in {0, 1} /\ R(reaping) \in {0, 1}
        /\ R(sigchld') \in {R(sigchld), 0} /\ R(reaping') \in {R(reaping), 0}
    BY <2>1, <2>2
  <2>4. Signals = R(reaping) + R(sigchld)
        /\ Signals' = R(reaping') + R(sigchld')
    BY DEF Signals
  <2> HIDE DEF R
  <2> QED BY <2>3, <2>4
<1>2. Cardinality(Zombies) \in Nat
    BY ZombiesFinite
<1> HIDE DEF Zombies, Signals
<1>3. Cardinality(Zombies)' = Cardinality(Zombies)
    OBVIOUS
<1> QED BY <1>1, <1>2, <1>3 DEF ReapInv

\* A child that serves a connection dies.
LEMMA DieQueue ==
    ASSUME BaseInv, QueueInv, ReapInv, NEW i \in Conn, Die(i),
           worker[i] \in Alive, reaping' = reaping
    PROVE  QueueInv' /\ ReapInv'
<1>1. worker \in [Conn -> WorkerPc] /\ sigchld \in BOOLEAN
      /\ reaping \in BOOLEAN
    BY DEF BaseInv, ServerTypes
<1>2. PICK w \in {"reaped", "zombie"} :
          /\ Leaving(listening, [worker EXCEPT ![i] = w])
          /\ w = (IF listening = {} THEN "reaped" ELSE "zombie")
    BY DEF Die
<1>3. [worker EXCEPT ![i] = w] \in [Conn -> WorkerPc]
    BY <1>1, WorkerKinds DEF WorkerPc
<1>4. /\ Len(conn') = Len(conn) /\ queue' \in {queue, <<>>}
      /\ worker' = [worker EXCEPT ![i] = w]
    BY <1>2, <1>3, Left DEF BaseInv
<1>5. worker[i] \notin {"none", "zombie"}
    BY DEF Alive
<1>6. \A j \in Conn : worker'[j] = IF j = i THEN w ELSE worker[j]
    BY <1>1, <1>4
<1>7. QueueInv'
    BY <1>4, <1>5, <1>6, QueueKept
<1>8. CASE w = "reaped"
  <2>1. Zombies' = Zombies
    BY <1>5, <1>6, <1>8 DEF Zombies
  <2>2. sigchld' = FALSE
    BY <1>2, <1>8 DEF Die
  <2> QED BY <1>7, <2>1, <2>2, ReapKept
<1>9. CASE w = "zombie"
  <2>1. Zombies' = Zombies \cup {i} /\ i \notin Zombies
    BY <1>5, <1>6, <1>9 DEF Zombies
  <2>2. Cardinality(Zombies') = Cardinality(Zombies) + 1
        /\ Cardinality(Zombies) \in Nat
    <3> HIDE DEF Zombies
    <3> QED BY <2>1, ZombiesFinite, FS_AddElement
  <2>3. Signals' <= Signals + 1 /\ Signals \in Nat /\ Signals' \in Nat
    BY <1>1 DEF Signals, Die
  <2>4. ReapInv'
    <3> HIDE DEF Zombies, Signals
    <3> QED BY <2>2, <2>3 DEF ReapInv
  <2> QED BY <1>7, <2>4
<1> QED BY <1>8, <1>9

LEMMA QueueStep ==
    ASSUME BaseInv, BaseInv', QueueInv, ReapInv, [StreamNext]_streamVars
    PROVE  QueueInv' /\ ReapInv'
<1> DEFINE P == QueueInv' /\ ReapInv'
<1>0. /\ worker \in [Conn -> WorkerPc]
      /\ reaping \in BOOLEAN /\ sigchld \in BOOLEAN
    BY DEF BaseInv, ServerTypes
\* Steps that leave the servers' side alone.
<1>1. ASSUME UNCHANGED serverVars, Len(conn') = Len(conn) PROVE P
  <2>1. /\ worker' = worker /\ queue' = queue /\ sigchld' = sigchld
        /\ reaping' = reaping
    BY <1>1 DEF serverVars
  <2>2. QueueInv'
    BY <1>1, <2>1, QueueKept
  <2>3. Zombies' = Zombies
    BY <2>1 DEF Zombies
  <2> QED BY <2>1, <2>2, <2>3, ReapKept
<1>2. ASSUME UNCHANGED streamVars PROVE P
    BY <1>1, <1>2 DEF streamVars
<1>3. ASSUME NEW c \in Clients,
             \/ Refused(c) \/ Hello(c) \/ Write(c) \/ Read(c) \/ Close(c)
             \/ ClientDies(c)
      PROVE  P
    BY <1>1, <1>3, ClientConns
\* connect() of a client or the stopper.
<1>4. ASSUME NEW first \in Sent, NEW closed \in BOOLEAN, Dial(first, closed)
      PROVE  P
  <2>1. QueueInv' /\ Zombies' = Zombies
    BY <1>4, QueueGrows
  <2>2. sigchld' = sigchld /\ reaping' = reaping
    BY <1>4 DEF Dial
  <2> QED BY <2>1, <2>2, ReapKept
<1>5. ASSUME NEW c \in Clients, Connect(c) PROVE P
  <2>1. "none" \in Sent
    BY DEF Sent
  <2> QED BY <1>4, <1>5, <2>1 DEF Connect
<1>6. CASE Stop
  <2>1. service.stop \in Sent
    BY ServiceFacts DEF BaseInv, ConnTypes, Proper, Sent
  <2> QED BY <1>4, <1>6, <2>1 DEF Stop
\* accept().
<1>7. ASSUME NEW w \in WorkerPc \ {"zombie"}, queue # <<>>,
             queue' = Tail(queue), conn' = conn,
             worker' \in {worker, [worker EXCEPT ![Head(queue)] = w]},
             sigchld' = sigchld, reaping' = reaping
      PROVE  P
  <2>1. QueueInv' /\ Zombies' = Zombies
    BY <1>7, QueueTaken
  <2> QED BY <1>7, <2>1, ReapKept
<1>8. /\ "none" \in WorkerPc \ {"zombie"} /\ "first" \in WorkerPc \ {"zombie"}
      /\ "unserved" \in WorkerPc \ {"zombie"}
    BY DEF WorkerPc
<1>9. ASSUME NEW l \in Listener, AcceptInline(l) PROVE P
  <2>1. /\ queue # <<>> /\ queue' = Tail(queue) /\ conn' = conn
        /\ worker' = worker /\ sigchld' = sigchld /\ reaping' = reaping
    BY <1>9 DEF AcceptInline
  <2> QED BY <1>7, <1>8, <2>1
<1>10. ASSUME NEW l \in Listener, AcceptFork(l) PROVE P
  <2>1. /\ queue # <<>> /\ queue' = Tail(queue) /\ conn' = conn
        /\ worker' = [worker EXCEPT ![Head(queue)] = "first"]
        /\ sigchld' = sigchld /\ reaping' = reaping
    BY <1>10 DEF AcceptFork
  <2> QED BY <1>7, <1>8, <2>1
<1>11. ASSUME NEW l \in Listener, AcceptForkFails(l) PROVE P
  <2>1. /\ queue # <<>> /\ queue' = Tail(queue) /\ conn' = conn
        /\ worker' = [worker EXCEPT ![Head(queue)] = "unserved"]
        /\ sigchld' = sigchld /\ reaping' = reaping
    BY <1>11 DEF AcceptForkFails
  <2> QED BY <1>7, <1>8, <2>1
\* A listening process exits, with the signals for it.
<1>12. ASSUME NEW left, NEW work, left \subseteq listening,
              work \in [Conn -> WorkerPc], Leaving(left, work),
              \A i \in Conn : worker[i] = "none" => work[i] = "none",
              \/ work = worker /\ sigchld' = sigchld /\ reaping' = reaping
              \/ sigchld' = FALSE /\ reaping' = FALSE
       PROVE  P
  <2>1. /\ Len(conn') = Len(conn) /\ queue' \in {queue, <<>>}
        /\ worker' = work
    BY <1>12, Left DEF BaseInv
  <2>2. QueueInv'
    BY <1>12, <2>1, QueueKept
  <2>3. CASE work = worker /\ sigchld' = sigchld /\ reaping' = reaping
    <3>1. Zombies' = Zombies
      BY <2>1, <2>3 DEF Zombies
    <3> QED BY <2>2, <2>3, <3>1, ReapKept
  <2>4. CASE sigchld' = FALSE /\ reaping' = FALSE
    <3>1. (Cardinality(Zombies) \in Nat)'
      BY ZombiesFinite, PTL
    <3>2. Signals' = 0
      BY <2>4 DEF Signals
    <3>3. ReapInv'
      <4> HIDE DEF Zombies, Signals
      <4> QED BY <3>1, <3>2 DEF ReapInv
    <3> QED BY <2>2, <3>3
  <2> QED BY <1>12, <2>3, <2>4
<1>13. ASSUME NEW l \in Listener, InlineStops(l) \/ InlineWriteFails(l)
       PROVE  P
  <2>1. listening \ {l} \subseteq listening
    OBVIOUS
  <2>2. /\ Leaving(listening \ {l}, worker)
        /\ sigchld' = sigchld /\ reaping' = reaping
    BY <1>13 DEF InlineStops, InlineWriteFails
  <2> QED BY <1>0, <1>12, <2>1, <2>2
<1>14. ASSUME NEW l \in Listener, GoAway(l) PROVE P
  <2>1. /\ listening \ {l} \subseteq listening /\ Orphans \in [Conn -> WorkerPc]
        /\ \A i \in Conn : worker[i] = "none" => Orphans[i] = "none"
    BY <1>0 DEF Orphans, WorkerPc
  <2>2. /\ Leaving(listening \ {l}, Orphans)
        /\ sigchld' = FALSE /\ reaping' = FALSE
    BY <1>14 DEF GoAway
  <2> QED BY <1>12, <2>1, <2>2
<1>15. ASSUME NEW i \in Conn, i <= Len(conn), WorkerStops(i) PROVE P
  <2> DEFINE work == [Orphans EXCEPT ![i] = "reaped"]
             left == {}
  <2>1. left \subseteq listening /\ work \in [Conn -> WorkerPc]
    BY <1>0, WorkerKinds
  <2>2. worker[i] = "first"
    BY <1>15 DEF WorkerStops
  <2>3. \A j \in Conn : worker[j] = "none" => work[j] = "none"
    BY <1>0, <2>2 DEF Orphans
  <2>4. Leaving(left, work) /\ sigchld' = FALSE /\ reaping' = FALSE
    BY <1>15 DEF WorkerStops
  <2> HIDE DEF work, left
  <2> QED BY <1>12, <2>1, <2>3, <2>4
\* The children.
<1>16. ASSUME NEW i \in Conn, i <= Len(conn), WorkerStarts(i) PROVE P
  <2>1. worker[i] = "first" /\ reaping' = reaping
    BY <1>16 DEF WorkerStarts
  <2>2. CASE Die(i)
    BY <2>1, <2>2, DieQueue DEF Alive
  <2>3. CASE worker' = [worker EXCEPT ![i] = "serve"]
             /\ UNCHANGED <<listening, at, queue, conn, sigchld>>
    <3>1. \A j \in Conn : worker'[j] = IF j = i THEN "serve" ELSE worker[j]
      BY <1>0, <2>3
    <3>2. Zombies' = Zombies
      BY <2>1, <3>1 DEF Zombies
    <3>3. QueueInv'
      BY <2>1, <2>3, <3>1, QueueKept
    <3> QED BY <2>1, <2>3, <3>2, <3>3, ReapKept
  <2> QED BY <1>16, <2>2, <2>3 DEF WorkerStarts
<1>17. ASSUME NEW i \in Conn, i <= Len(conn), WorkerEnds(i) PROVE P
  <2>1. worker[i] \in Alive /\ reaping' = reaping /\ Die(i)
    BY <1>17 DEF WorkerEnds, Alive
  <2> QED BY <2>1, DieQueue
<1>18. ASSUME NEW i \in Conn, i <= Len(conn), Echo(i) \/ Push(i) PROVE P
  <2>1. DOMAIN conn' = DOMAIN conn /\ UNCHANGED serverVars
    BY <1>18 DEF Echo, Push
  <2> QED BY <1>1, <2>1, SameLength
<1>19. ASSUME NEW l \in Listener, InlineServes(l) PROVE P
  <2>1. /\ DOMAIN conn' = DOMAIN conn /\ queue' = queue /\ worker' = worker
        /\ sigchld' = sigchld /\ reaping' = reaping
    BY <1>19 DEF InlineServes
  <2>2. Len(conn') = Len(conn)
    BY <2>1, SameLength
  <2>3. QueueInv'
    BY <2>1, <2>2, QueueKept
  <2>4. Zombies' = Zombies
    BY <2>1 DEF Zombies
  <2> QED BY <2>1, <2>3, <2>4, ReapKept
\* The handler.
<1>20. CASE Deliver
  <2>1. /\ sigchld = TRUE /\ reaping = FALSE /\ sigchld' = FALSE
        /\ reaping' = TRUE /\ worker' = worker /\ queue' = queue
        /\ conn' = conn
    BY <1>0, <1>20 DEF Deliver
  <2>2. QueueInv'
    BY <2>1, QueueKept
  <2>3. Zombies' = Zombies /\ Signals' = Signals
    BY <2>1 DEF Zombies, Signals
  <2>4. ReapInv'
    <3> HIDE DEF Zombies, Signals
    <3> QED BY <2>3 DEF ReapInv
  <2> QED BY <2>2, <2>4
<1>21. CASE Wait
  <2>1. PICK i \in Conn :
            worker[i] = "zombie" /\ worker' = [worker EXCEPT ![i] = "reaped"]
    BY <1>21 DEF Wait
  <2>2. /\ reaping = TRUE /\ reaping' = FALSE /\ sigchld' = sigchld
        /\ queue' = queue /\ conn' = conn
    BY <1>0, <1>21 DEF Wait
  <2>3. \A j \in Conn : worker'[j] = IF j = i THEN "reaped" ELSE worker[j]
    BY <1>0, <2>1
  <2>4. QueueInv'
    BY <2>1, <2>2, <2>3, QueueKept
  <2>5. Zombies' = Zombies \ {i} /\ i \in Zombies
    BY <2>1, <2>3 DEF Zombies
  <2>6. Signals' = Signals - 1 /\ Signals \in Nat
    BY <1>0, <2>2 DEF Signals
  <2>7. Cardinality(Zombies') = Cardinality(Zombies) - 1
        /\ Cardinality(Zombies) \in Nat
    <3> HIDE DEF Zombies
    <3> QED BY <2>5, ZombiesFinite, FS_RemoveElement
  <2>8. ReapInv'
    <3> HIDE DEF Zombies, Signals
    <3> QED BY <2>6, <2>7 DEF ReapInv
  <2> QED BY <2>4, <2>8
<1> QED
    BY ONLY [StreamNext]_streamVars, StreamSteps, <1>2, <1>3, <1>5, <1>6,
       <1>9, <1>10, <1>11, <1>13, <1>14, <1>15, <1>16, <1>17, <1>18,
       <1>19, <1>20, <1>21

-----------------------------------------------------------------------------
(* What a step does to the connections.                                    *)

\* A client writes, reads or hangs up on its own connection only.
LEMMA ClientTouches ==
    ASSUME BaseInv, BaseInv', NEW c \in Clients,
           Hello(c) \/ Write(c) \/ Read(c) \/ Close(c) \/ ClientDies(c)
    PROVE  /\ cpc[c] \in Connected /\ sock[c] \in 1..Len(conn)
           /\ Len(conn') = Len(conn)
           /\ \A i \in 1..Len(conn) : i # sock[c] => conn'[i] = conn[i]
           /\ \/ conn'[sock[c]].first = conn[sock[c]].first
              \/ /\ Hello(c) /\ service.hello # "eof"
                 /\ conn'[sock[c]].first = service.hello
                 /\ conn'[sock[c]].copen = conn[sock[c]].copen
           /\ conn'[sock[c]].sopen = conn[sock[c]].sopen
           /\ \/ conn'[sock[c]].copen = conn[sock[c]].copen
              \/ Hello(c) /\ service.hello = "eof"
              \/ ~Hello(c)
           /\ \A d \in Clients \ {c} :
                 /\ cpc'[d] = cpc[d] /\ rounds'[d] = rounds[d]
                 /\ todo'[d] = todo[d]
           /\ sock' = sock /\ service' = service /\ UNCHANGED serverVars
<1>1. cpc[c] \in Connected
  <2>1. cpc[c] \in ClientPc
    BY DEF BaseInv, ClientTypes
  <2> QED BY <2>1 DEF Hello, Write, Read, Close, ClientDies, Connected, ClientPc
<1>2. Len(conn') = Len(conn) /\ UNCHANGED serverVars /\ service' = service
    BY ClientConns
<1>3. /\ sock[c] \in 1..Len(conn) /\ DOMAIN conn = 1..Len(conn)
      /\ conn[sock[c]] \in Connection
      /\ \A i \in 1..Len(conn) :
            Hangup(c)[i] = IF i = sock[c]
                           THEN [conn[i] EXCEPT !.copen = FALSE]
                           ELSE conn[i]
    BY <1>1, OwnConn
<1>4. /\ sock' = sock
      /\ \A d \in Clients \ {c} :
            /\ cpc'[d] = cpc[d] /\ rounds'[d] = rounds[d] /\ todo'[d] = todo[d]
  <2>1. /\ cpc \in [Clients -> ClientPc] /\ rounds \in [Clients -> 0..Rounds]
        /\ todo \in [Clients -> Nat]
    BY DEF BaseInv, ClientTypes
  <2>2. CASE Hello(c)
    BY <2>1, <2>2 DEF Hello
  <2>3. CASE Write(c)
    BY <2>1, <2>3 DEF Write
  <2>4. CASE Read(c)
    BY <2>1, <2>4 DEF Read, ReadSome, ReadEof
  <2>5. CASE Close(c)
    BY <2>1, <2>5 DEF Close
  <2>6. CASE ClientDies(c)
    BY <2>1, <2>6 DEF ClientDies
  <2> QED BY <2>2, <2>3, <2>4, <2>5, <2>6
<1>5. ASSUME conn' = Hangup(c)
      PROVE  /\ \A i \in 1..Len(conn) : i # sock[c] => conn'[i] = conn[i]
             /\ conn'[sock[c]].first = conn[sock[c]].first
             /\ conn'[sock[c]].sopen = conn[sock[c]].sopen
    BY <1>3, <1>5 DEF Connection
<1>6. CASE Hello(c)
  <2>1. CASE service.hello = "eof"
    BY <1>1, <1>2, <1>3, <1>4, <1>5, <1>6, <2>1 DEF Hello
  <2>2. CASE service.hello # "eof"
    <3>1. conn' = [conn EXCEPT ![sock[c]].first = service.hello]
      BY <1>6, <2>2 DEF Hello
    <3>2. /\ \A i \in 1..Len(conn) : i # sock[c] => conn'[i] = conn[i]
          /\ conn'[sock[c]] = [conn[sock[c]] EXCEPT !.first = service.hello]
      BY <1>3, <3>1
    <3>3. /\ conn'[sock[c]].first = service.hello
          /\ conn'[sock[c]].copen = conn[sock[c]].copen
          /\ conn'[sock[c]].sopen = conn[sock[c]].sopen
      BY <1>3, <3>2 DEF Connection
    <3> QED BY <1>1, <1>2, <1>3, <1>4, <1>6, <2>2, <3>2, <3>3
  <2> QED BY <2>1, <2>2
<1>7. CASE ~Hello(c) /\ conn' = Hangup(c)
    BY <1>1, <1>2, <1>3, <1>4, <1>5, <1>7
<1>8. CASE ~Hello(c) /\ conn' # Hangup(c)
  <2>1. /\ \A i \in 1..Len(conn) : i # sock[c] => conn'[i] = conn[i]
        /\ conn'[sock[c]].first = conn[sock[c]].first
        /\ conn'[sock[c]].sopen = conn[sock[c]].sopen
    <3>1. CASE conn' = conn
      BY <3>1
    <3>2. CASE Write(c) /\ conn' # conn
      <4>1. conn' = [conn EXCEPT ![sock[c]].up = @ + Size]
        BY <1>8, <3>2 DEF Write
      <4> QED BY <1>3, <4>1 DEF Connection
    <3>3. CASE Read(c) /\ conn' # conn
      <4>1. PICK n \in 1..Size : ReadSome(c, n)
        BY <1>8, <3>3 DEF Read, ReadEof
      <4>2. cpc[c] = "read"
        BY <3>3 DEF Read
      <4>3. \A i \in 1..Len(conn) :
               conn'[i] = IF i = sock[c]
                          THEN [conn[i] EXCEPT !.down = @ - n, !.got = @ + n]
                          ELSE conn[i]
        BY <4>1, <4>2, ReadSomeStep
      <4> QED BY <1>3, <4>3 DEF Connection
    <3> QED BY <1>8, <3>1, <3>2, <3>3 DEF Close, ClientDies
  <2> QED BY <1>1, <1>2, <1>3, <1>4, <1>8, <2>1
<1> QED BY <1>6, <1>7, <1>8

\* The connections keep who opened them, what they brought and what was
\* read from them.
Same(i) ==
    /\ conn'[i].first = conn[i].first /\ conn'[i].copen = conn[i].copen
    /\ conn'[i].got = conn[i].got
    /\ conn'[i].sopen => conn[i].sopen

Flows(i) == conn'[i].up # conn[i].up \/ conn'[i].down # conn[i].down

ServerAction ==
    \/ \E l \in Listener : \/ AcceptInline(l) \/ AcceptFork(l)
                           \/ AcceptForkFails(l) \/ InlineStops(l)
                           \/ InlineServes(l) \/ InlineWriteFails(l)
                           \/ GoAway(l)
    \/ \E i \in Conn : i <= Len(conn) /\ (\/ WorkerStops(i) \/ WorkerStarts(i)
                                          \/ Echo(i) \/ Push(i)
                                          \/ WorkerEnds(i))
    \/ Deliver \/ Wait \/ UNCHANGED streamVars

LEMMA ServerTouches ==
    ASSUME BaseInv, BaseInv', ServerAction
    PROVE  /\ UNCHANGED clientVars /\ service' = service
           /\ Len(conn') = Len(conn)
           /\ \A i \in 1..Len(conn) :
                 /\ Same(i)
                 /\ Flows(i) =>
                       \/ Echo(i) \/ Push(i)
                       \/ \E l \in Listener : InlineServes(l) /\ at[l] = i
<1>1. /\ DOMAIN conn = 1..Len(conn) /\ worker \in [Conn -> WorkerPc]
      /\ \A i \in 1..Len(conn) : conn[i] \in Connection
    BY DEF BaseInv, ConnTypes, ServerTypes
<1>2. ASSUME conn' = conn, UNCHANGED clientVars, service' = service
      PROVE  /\ Len(conn') = Len(conn)
             /\ \A i \in 1..Len(conn) : Same(i) /\ ~Flows(i)
    BY <1>2 DEF Same, Flows
<1>3. ASSUME NEW left, NEW work, left \subseteq listening,
             work \in [Conn -> WorkerPc], Leaving(left, work)
      PROVE  /\ Len(conn') = Len(conn)
             /\ \A i \in 1..Len(conn) : Same(i) /\ ~Flows(i)
  <2>1. /\ Len(conn') = Len(conn)
        /\ \A i \in 1..Len(conn) :
              \/ conn'[i] = conn[i]
              \/ conn'[i] = [conn[i] EXCEPT !.sopen = FALSE]
    BY <1>3, Left DEF BaseInv
  <2> QED BY <1>1, <2>1 DEF Same, Flows, Connection
<1>4. ASSUME NEW l \in Listener,
             AcceptInline(l) \/ AcceptFork(l) \/ AcceptForkFails(l)
      PROVE  conn' = conn /\ UNCHANGED clientVars /\ service' = service
    BY <1>4 DEF AcceptInline, AcceptFork, AcceptForkFails
<1>5. ASSUME Deliver \/ Wait \/ UNCHANGED streamVars
      PROVE  conn' = conn /\ UNCHANGED clientVars /\ service' = service
    BY <1>5 DEF Deliver, Wait, streamVars
<1>6. ASSUME NEW l \in Listener,
             InlineStops(l) \/ InlineWriteFails(l) \/ GoAway(l)
      PROVE  /\ UNCHANGED clientVars /\ service' = service
             /\ Len(conn') = Len(conn)
             /\ \A i \in 1..Len(conn) : Same(i) /\ ~Flows(i)
  <2>1. Orphans \in [Conn -> WorkerPc] /\ listening \ {l} \subseteq listening
    BY <1>1 DEF Orphans, WorkerPc
  <2>2. UNCHANGED clientVars /\ service' = service
    BY <1>6 DEF InlineStops, InlineWriteFails, GoAway
  <2>3. Leaving(listening \ {l}, worker) \/ Leaving(listening \ {l}, Orphans)
    BY <1>6 DEF InlineStops, InlineWriteFails, GoAway
  <2> QED BY <1>1, <1>3, <2>1, <2>2, <2>3
<1>7. ASSUME NEW i \in Conn, WorkerStops(i) \/ WorkerStarts(i) \/ WorkerEnds(i)
      PROVE  /\ UNCHANGED clientVars /\ service' = service
             /\ Len(conn') = Len(conn)
             /\ \A j \in 1..Len(conn) : Same(j) /\ ~Flows(j)
  <2>1. UNCHANGED clientVars /\ service' = service
    BY <1>7 DEF WorkerStops, WorkerStarts, WorkerEnds
  <2>2. CASE WorkerStops(i)
    <3> DEFINE work == [Orphans EXCEPT ![i] = "reaped"]
               left == {}
    <3>1. left \subseteq listening /\ work \in [Conn -> WorkerPc]
          /\ Leaving(left, work)
      BY <1>1, <2>2, WorkerKinds DEF WorkerStops
    <3> HIDE DEF work, left
    <3> QED BY <1>3, <2>1, <3>1
  <2>3. CASE Die(i)
    <3>1. PICK w \in {"reaped", "zombie"} :
              Leaving(listening, [worker EXCEPT ![i] = w])
      BY <2>3 DEF Die
    <3>2. [worker EXCEPT ![i] = w] \in [Conn -> WorkerPc]
      BY <1>1, WorkerKinds DEF WorkerPc
    <3> QED BY <1>3, <2>1, <3>1, <3>2
  <2>4. CASE conn' = conn
    BY <1>2, <2>1, <2>4
  <2> QED BY <1>7, <2>2, <2>3, <2>4 DEF WorkerStarts, WorkerEnds
<1>8. ASSUME NEW i \in Conn, i <= Len(conn), Echo(i) \/ Push(i)
      PROVE  /\ UNCHANGED clientVars /\ service' = service
             /\ Len(conn') = Len(conn)
             /\ \A j \in 1..Len(conn) : Same(j) /\ (Flows(j) => j = i)
  <2>1. UNCHANGED clientVars /\ service' = service
        /\ DOMAIN conn' = DOMAIN conn
    BY <1>8 DEF Echo, Push
  <2>2. i \in 1..Len(conn) /\ Size \in Nat
    BY <1>1, <1>8, MaxConnNat, StreamAssumption DEF BaseInv, ConnTypes
  <2>3. CASE Push(i)
    <3>1. \A j \in 1..Len(conn) :
             conn'[j] = IF j = i THEN [conn[j] EXCEPT !.down = @ + Size]
                        ELSE conn[j]
      BY <1>1, <2>2, <2>3 DEF Push
    <3>2. \A j \in 1..Len(conn) : Same(j) /\ (Flows(j) => j = i)
      BY <1>1, <3>1 DEF Same, Flows, Connection
    <3> QED BY <2>1, <3>2, SameLength
  <2>4. CASE Echo(i)
    <3>1. PICK n \in 1..Size :
             conn' = [conn EXCEPT ![i].up = @ - n, ![i].down = @ + Size]
      BY <2>4 DEF Echo
    <3> DEFINE x == conn[i].up - n
               y == conn[i].down + Size
    <3>2. conn' = [conn EXCEPT ![i] = [conn[i] EXCEPT !.up = x, !.down = y]]
      BY <1>1, <2>2, <3>1
    <3> HIDE DEF x, y
    <3>3. conn[i] \in Connection
      BY <1>1, <2>2
    <3>4. conn'[i].first = conn[i].first /\ conn'[i].copen = conn[i].copen
          /\ conn'[i].got = conn[i].got /\ conn'[i].sopen = conn[i].sopen
      BY <1>1, <2>2, <3>2, <3>3 DEF Connection
    <3>5. \A j \in 1..Len(conn) : j # i => conn'[j] = conn[j]
      BY <1>1, <3>2
    <3>6. \A j \in 1..Len(conn) : Same(j) /\ (Flows(j) => j = i)
      BY <3>4, <3>5 DEF Same, Flows
    <3> QED BY <2>1, <3>6, SameLength
  <2> QED BY <1>8, <2>3, <2>4
<1>9. ASSUME NEW l \in Listener, InlineServes(l)
      PROVE  /\ UNCHANGED clientVars /\ service' = service
             /\ Len(conn') = Len(conn)
             /\ \A j \in 1..Len(conn) : Same(j) /\ (Flows(j) => j = at[l])
  <2>1. UNCHANGED clientVars /\ service' = service
        /\ DOMAIN conn' = DOMAIN conn
    BY <1>9 DEF InlineServes
  <2>2. PICK sent \in {0, Size} :
          conn' = [conn EXCEPT ![at[l]].down = sent, ![at[l]].sopen = FALSE]
    BY <1>9 DEF InlineServes
  <2>3. \A j \in 1..Len(conn) :
           conn'[j] = IF j = at[l]
                      THEN [conn[j] EXCEPT !.down = sent, !.sopen = FALSE]
                      ELSE conn[j]
    BY <1>1, <2>2
  <2>4. \A j \in 1..Len(conn) : Same(j) /\ (Flows(j) => j = at[l])
    BY <1>1, <2>3 DEF Same, Flows, Connection
  <2> QED BY <2>1, <2>4, SameLength
<1> QED
  <2>1. CASE \E l \in Listener : AcceptInline(l) \/ AcceptFork(l)
                                    \/ AcceptForkFails(l)
    BY <1>2, <1>4, <2>1
  <2>2. CASE Deliver \/ Wait \/ UNCHANGED streamVars
    BY <1>2, <1>5, <2>2
  <2>3. CASE \E l \in Listener : \/ InlineStops(l) \/ InlineWriteFails(l)
                                  \/ GoAway(l)
    BY <1>6, <2>3
  <2>4. CASE \E i \in Conn : WorkerStops(i) \/ WorkerStarts(i) \/ WorkerEnds(i)
    BY <1>7, <2>4
  <2>5. CASE \E i \in Conn : i <= Len(conn) /\ (Echo(i) \/ Push(i))
    BY <1>8, <2>5
  <2>6. CASE \E l \in Listener : InlineServes(l)
    BY <1>9, <2>6
  <2> QED BY <2>1, <2>2, <2>3, <2>4, <2>5, <2>6 DEF ServerAction

-----------------------------------------------------------------------------
(* What a connection brought first, and why a server goes.                 *)

\* A client that has sent its first message has sent it, one that has not
\* has sent nothing.
ClientFirst ==
    \A c \in Clients : cpc[c] \in Connected =>
        /\ cpc[c] = "hello" => conn[sock[c]].first = "none"
        /\ cpc[c] \in {"write", "read", "close"} =>
               conn[sock[c]].first # "none"

LEMMA ClientPcStep ==
    ASSUME BaseInv, NEW c \in Clients,
           Hello(c) \/ Write(c) \/ Read(c) \/ Close(c) \/ ClientDies(c)
    PROVE  /\ cpc'[c] # "hello"
           /\ cpc'[c] \in {"write", "read", "close"} =>
                 \/ cpc[c] \in {"write", "read", "close"}
                 \/ Hello(c) /\ service.hello # "eof"
<1>1. cpc \in [Clients -> ClientPc]
    BY DEF BaseInv, ClientTypes
<1>2. CASE Hello(c)
    BY <1>1, <1>2 DEF Hello
<1>3. CASE Write(c)
    BY <1>1, <1>3 DEF Write
<1>4. CASE Read(c)
  <2>1. cpc[c] = "read"
    BY <1>4 DEF Read
  <2>2. cpc'[c] \in {"failed", "read", AfterRound(c)}
    BY <1>1, <1>4 DEF Read, ReadSome, ReadEof
  <2> QED BY <2>1, <2>2, RoundOver
<1>5. CASE Close(c)
    BY <1>1, <1>5 DEF Close
<1>6. CASE ClientDies(c)
    BY <1>1, <1>6 DEF ClientDies
<1> QED BY <1>2, <1>3, <1>4, <1>5, <1>6

LEMMA FaultyGrows ==
    ASSUME [StreamNext]_streamVars
    PROVE  faulty \subseteq faulty' /\ service' = service
<1>1. CASE UNCHANGED streamVars
    BY <1>1 DEF streamVars
<1>2. ASSUME NEW c \in Clients,
             \/ Connect(c) \/ Refused(c) \/ Hello(c) \/ Write(c) \/ Read(c)
             \/ Close(c) \/ ClientDies(c)
      PROVE  faulty \subseteq faulty' /\ service' = service
    BY <1>2 DEF Connect, Dial, Refused, Hello, Write, Read, ReadSome, ReadEof,
                InParts, Close, ClientDies
<1>3. ASSUME NEW l \in Listener,
             \/ AcceptInline(l) \/ AcceptFork(l) \/ AcceptForkFails(l)
             \/ InlineStops(l) \/ InlineServes(l) \/ InlineWriteFails(l)
             \/ GoAway(l)
      PROVE  faulty \subseteq faulty' /\ service' = service
    BY <1>3 DEF AcceptInline, AcceptFork, AcceptForkFails, InlineStops,
                InlineServes, InlineWriteFails, GoAway
<1>4. ASSUME NEW i \in Conn,
             \/ WorkerStops(i) \/ WorkerStarts(i) \/ Echo(i) \/ Push(i)
             \/ WorkerEnds(i)
      PROVE  faulty \subseteq faulty' /\ service' = service
    BY <1>4 DEF WorkerStops, WorkerStarts, Echo, InParts, Push, WorkerEnds
<1>5. CASE Stop \/ Deliver \/ Wait
    BY <1>5 DEF Stop, Dial, Deliver, Wait
<1> QED BY <1>1, <1>2, <1>3, <1>4, <1>5, StreamSteps

\* Who moves: a client that connects, one that is refused, one that uses
\* its connection, the stopper, or the servers.
LEMMA WhoMoves ==
    ASSUME [StreamNext]_streamVars
    PROVE  \/ \E c \in Clients : Connect(c) \/ Refused(c)
           \/ \E c \in Clients : \/ Hello(c) \/ Write(c) \/ Read(c) \/ Close(c)
                                 \/ ClientDies(c)
           \/ Stop
           \/ ServerAction
<1>1. CASE UNCHANGED streamVars
    BY <1>1 DEF ServerAction
<1>2. CASE StreamNext
    BY <1>2, StreamSteps DEF ServerAction
<1> QED BY <1>1, <1>2

LEMMA ConnectStep ==
    ASSUME BaseInv, NEW c \in Clients, Connect(c)
    PROVE  /\ Len(conn) \in Nat /\ Len(conn') = Len(conn) + 1
           /\ \A i \in 1..Len(conn) : conn'[i] = conn[i]
           /\ conn'[Len(conn) + 1] = Fresh("none", FALSE)
           /\ sock' = [sock EXCEPT ![c] = Len(conn) + 1]
           /\ cpc' = [cpc EXCEPT ![c] = "hello"] /\ cpc[c] = "connect"
           /\ UNCHANGED <<service, listening, at, worker, rounds, todo, faulty>>
<1>1. /\ Dial("none", FALSE) /\ cpc[c] = "connect"
      /\ sock' = [sock EXCEPT ![c] = Len(conn) + 1]
      /\ cpc' = [cpc EXCEPT ![c] = "hello"] /\ UNCHANGED <<rounds, todo>>
    BY DEF Connect
<1>2. "none" \in Sent /\ FALSE \in BOOLEAN
    BY DEF Sent
<1>3. UNCHANGED <<service, listening, at, worker, faulty>>
    BY <1>1 DEF Dial
<1> QED BY <1>1, <1>2, <1>3, Dialling

LEMMA StopStep ==
    ASSUME BaseInv, Stop
    PROVE  /\ Len(conn) \in Nat /\ Len(conn') = Len(conn) + 1
           /\ \A i \in 1..Len(conn) : conn'[i] = conn[i]
           /\ conn'[Len(conn) + 1] = Fresh(service.stop, TRUE)
           /\ UNCHANGED <<service, listening, at, worker, clientVars, faulty>>
<1>1. Dial(service.stop, TRUE) /\ UNCHANGED clientVars
    BY DEF Stop
<1>2. service.stop \in Sent /\ TRUE \in BOOLEAN
    BY ServiceFacts DEF BaseInv, ConnTypes, Proper, Sent
<1>3. UNCHANGED <<service, listening, at, worker, faulty>>
    BY <1>1 DEF Dial
<1> QED BY <1>1, <1>2, <1>3, Dialling

LEMMA ClientFirstStep ==
    ASSUME BaseInv, BaseInv', ClientFirst, [StreamNext]_streamVars
    PROVE  ClientFirst'
<1>1. /\ cpc \in [Clients -> ClientPc] /\ sock \in [Clients -> 0..Len(conn)]
      /\ \A d \in Clients : cpc[d] \in Connected => sock[d] \in 1..Len(conn)
      /\ Len(conn) \in Nat
    BY DEF BaseInv, ConnTypes, ClientTypes, Sockets
<1>2. ASSUME NEW c \in Clients, Connect(c)
      PROVE  ClientFirst'
  <2> SUFFICES ASSUME NEW d \in Clients, cpc'[d] \in Connected
               PROVE  /\ cpc'[d] = "hello" => conn'[sock'[d]].first = "none"
                      /\ cpc'[d] \in {"write", "read", "close"} =>
                             conn'[sock'[d]].first # "none"
    BY DEF ClientFirst
  <2>1. /\ \A i \in 1..Len(conn) : conn'[i] = conn[i]
        /\ conn'[Len(conn) + 1].first = "none"
        /\ sock' = [sock EXCEPT ![c] = Len(conn) + 1]
        /\ cpc' = [cpc EXCEPT ![c] = "hello"]
    BY <1>2, ConnectStep DEF Fresh
  <2>2. CASE d = c
    BY <1>1, <2>1, <2>2
  <2>3. CASE d # c
    BY <1>1, <2>1, <2>3 DEF ClientFirst
  <2> QED BY <2>2, <2>3
<1>3. ASSUME NEW c \in Clients, Refused(c)
      PROVE  ClientFirst'
  <2>1. /\ conn' = conn /\ sock' = sock /\ cpc'[c] \notin Connected
        /\ \A d \in Clients \ {c} : cpc'[d] = cpc[d]
    BY <1>1, <1>3 DEF Refused, Connected
  <2> QED BY <2>1 DEF ClientFirst
<1>4. ASSUME NEW c \in Clients,
             Hello(c) \/ Write(c) \/ Read(c) \/ Close(c) \/ ClientDies(c)
      PROVE  ClientFirst'
  <2>1. /\ cpc[c] \in Connected /\ sock' = sock
        /\ \A i \in 1..Len(conn) : i # sock[c] => conn'[i] = conn[i]
        /\ \/ conn'[sock[c]].first = conn[sock[c]].first
           \/ /\ Hello(c) /\ service.hello # "eof"
              /\ conn'[sock[c]].first = service.hello
        /\ \A d \in Clients \ {c} : cpc'[d] = cpc[d]
    BY <1>4, ClientTouches
  <2>2. service.hello # "none"
    BY ServiceFacts DEF BaseInv, ConnTypes, Proper
  <2>3. /\ cpc'[c] # "hello"
        /\ cpc'[c] \in {"write", "read", "close"} =>
              \/ cpc[c] \in {"write", "read", "close"}
              \/ Hello(c) /\ service.hello # "eof"
    BY <1>4, ClientPcStep
  <2>4. Hello(c) /\ service.hello # "eof" =>
            conn'[sock[c]].first = service.hello
    <3> SUFFICES ASSUME Hello(c), service.hello # "eof"
                 PROVE  conn'[sock[c]].first = service.hello
      OBVIOUS
    <3>1. /\ sock[c] \in DOMAIN conn /\ conn[sock[c]] \in Connection
      BY <2>1, OwnConn
    <3>2. conn' = [conn EXCEPT ![sock[c]].first = service.hello]
      BY DEF Hello
    <3> QED BY <3>1, <3>2 DEF Connection
  <2> SUFFICES ASSUME NEW d \in Clients, cpc'[d] \in Connected
               PROVE  /\ cpc'[d] = "hello" => conn'[sock[d]].first = "none"
                      /\ cpc'[d] \in {"write", "read", "close"} =>
                             conn'[sock[d]].first # "none"
    BY <2>1 DEF ClientFirst
  <2>5. CASE d = c
    BY <2>1, <2>2, <2>3, <2>4, <2>5 DEF ClientFirst
  <2>6. CASE d # c
    <3>1. cpc[d] \in Connected /\ cpc'[d] = cpc[d] /\ sock[d] # sock[c]
      BY <2>1, <2>6 DEF BaseInv, Sockets
    <3> QED BY <1>1, <2>1, <3>1 DEF ClientFirst
  <2> QED BY <2>5, <2>6
<1>5. CASE Stop
  <2>1. /\ \A i \in 1..Len(conn) : conn'[i] = conn[i]
        /\ cpc' = cpc /\ sock' = sock
    BY <1>5, StopStep DEF clientVars
  <2> QED BY <1>1, <2>1 DEF ClientFirst
<1>6. CASE ServerAction
  <2>1. /\ \A i \in 1..Len(conn) : conn'[i].first = conn[i].first
        /\ cpc' = cpc /\ sock' = sock
    BY <1>6, ServerTouches DEF Same, clientVars
  <2> QED BY <1>1, <2>1 DEF ClientFirst
<1> QED BY <1>2, <1>3, <1>4, <1>5, <1>6, WhoMoves

\* What a connection brought first stays; whether it brought nothing and is
\* closed changes only in the two ways a client of that sort leaves it.
LEMMA FirstKept ==
    ASSUME BaseInv, BaseInv', ClientFirst, [StreamNext]_streamVars
    PROVE  /\ Len(conn) \in Nat /\ Len(conn') \in Nat
           /\ Len(conn) <= Len(conn')
           /\ \A i \in 1..Len(conn) :
                 conn[i].first # "none" => conn'[i].first = conn[i].first
<1>1. /\ \A d \in Clients : cpc[d] \in Connected => sock[d] \in 1..Len(conn)
      /\ Len(conn) \in Nat /\ Len(conn') \in Nat
    BY DEF BaseInv, ConnTypes, ClientTypes, Sockets
<1>2. ASSUME NEW c \in Clients, Connect(c)
      PROVE  /\ Len(conn) <= Len(conn')
             /\ \A i \in 1..Len(conn) : conn'[i] = conn[i]
  <2>1. /\ Len(conn') = Len(conn) + 1
        /\ \A i \in 1..Len(conn) : conn'[i] = conn[i]
    BY <1>2, ConnectStep
  <2> QED BY <1>1, <2>1
<1>3. ASSUME NEW c \in Clients, Refused(c)
      PROVE  conn' = conn
    BY <1>3 DEF Refused
<1>4. ASSUME NEW c \in Clients,
             Hello(c) \/ Write(c) \/ Read(c) \/ Close(c) \/ ClientDies(c)
      PROVE  /\ Len(conn) <= Len(conn')
             /\ \A i \in 1..Len(conn) :
                   conn[i].first # "none" => conn'[i].first = conn[i].first
  <2>1. /\ Len(conn') = Len(conn)
        /\ \A i \in 1..Len(conn) : i # sock[c] => conn'[i] = conn[i]
        /\ \/ conn'[sock[c]].first = conn[sock[c]].first
           \/ Hello(c)
    BY <1>4, ClientTouches
  <2>2. cpc[c] = "hello" => conn[sock[c]].first = "none"
    BY DEF ClientFirst, Connected
  <2>3. Hello(c) => cpc[c] = "hello"
    BY DEF Hello
  <2> QED BY <1>1, <2>1, <2>2, <2>3
<1>5. CASE Stop
    BY <1>1, <1>5, StopStep
<1>6. CASE ServerAction
    BY <1>1, <1>6, ServerTouches DEF Same
<1> QED BY <1>1, <1>2, <1>3, <1>4, <1>5, <1>6, WhoMoves

DiedFirst == [what |-> "client", when |-> "hello"]
DiedReading == [what |-> "client", when |-> "read"]
HourOver == [what |-> "alarm", when |-> "hour"]

\* A reason for a server to go: the ones StopsOnRequest names.
Asked ==
    \/ \E i \in DOMAIN conn : conn[i].first = service.stop
    \/ HourOver \in faulty
    \/ service.name = "lat_tcp" /\ DiedFirst \in faulty
    \/ service.mode = "file" /\ DiedReading \in faulty

\* A connection to lat_tcp that is closed and brought nothing is the one of
\* a client that died.
Unsaid ==
    service.name = "lat_tcp" =>
        \A i \in 1..Len(conn) :
            conn[i].first = "none" /\ ~conn[i].copen => DiedFirst \in faulty

\* A client of lmhttp closes when the server has closed, unless it dies:
\* only one that died reading leaves the server a request and no reader.
FileClients ==
    service.mode = "file" =>
        \A c \in Clients :
            /\ cpc[c] # "write"
            /\ cpc[c] = "hello" => conn[sock[c]].copen
            /\ cpc[c] = "close" => ~conn[sock[c]].sopen

LeftUnread ==
    service.mode = "file" =>
        \A i \in 1..Len(conn) :
            /\ conn[i].first \in service.serves
            /\ conn[i].sopen /\ ~conn[i].copen
            => DiedReading \in faulty

StopInv ==
    /\ listening # 1..service.listeners => Asked
    /\ Unsaid
    /\ FileClients /\ LeftUnread

LEMMA AskedKept ==
    ASSUME BaseInv, BaseInv', ClientFirst, Asked, [StreamNext]_streamVars
    PROVE  Asked'
<1>1. faulty \subseteq faulty' /\ service' = service
    BY FaultyGrows
<1>2. /\ DOMAIN conn = 1..Len(conn) /\ DOMAIN conn' = 1..Len(conn')
    BY DEF BaseInv, ConnTypes
<1>3. service.stop # "none"
    BY ServiceFacts DEF BaseInv, ConnTypes, Proper
<1>4. ASSUME NEW i \in 1..Len(conn), conn[i].first = service.stop
      PROVE  i \in 1..Len(conn') /\ conn'[i].first = service.stop
    BY <1>3, <1>4, FirstKept
<1> QED BY <1>1, <1>2, <1>4 DEF Asked

LEMMA UnsaidStep ==
    ASSUME BaseInv, BaseInv', ClientFirst, Unsaid, [StreamNext]_streamVars
    PROVE  Unsaid'
<1>1. faulty \subseteq faulty' /\ service' = service
    BY FaultyGrows
<1> SUFFICES ASSUME service.name = "lat_tcp", NEW i \in 1..Len(conn'),
                    conn'[i].first = "none", ~conn'[i].copen
             PROVE  DiedFirst \in faulty'
    BY <1>1 DEF Unsaid
<1>2. service.hello \notin {"eof", "none"} /\ service.stop # "none"
    BY ServiceFacts DEF BaseInv, ConnTypes, Proper
<1>3. Len(conn) \in Nat
    BY DEF BaseInv, ConnTypes
<1>4. ASSUME i \in 1..Len(conn), conn[i].first = "none", ~conn[i].copen
      PROVE  DiedFirst \in faulty'
    BY <1>1, <1>4 DEF Unsaid
<1>5. ASSUME NEW c \in Clients, Connect(c)
      PROVE  DiedFirst \in faulty'
  <2>1. /\ Len(conn') = Len(conn) + 1
        /\ \A j \in 1..Len(conn) : conn'[j] = conn[j]
        /\ conn'[Len(conn) + 1] = Fresh("none", FALSE)
    BY <1>5, ConnectStep
  <2>2. Fresh("none", FALSE).copen = TRUE
    BY Zenon DEF Fresh
  <2>3. i # Len(conn) + 1
    BY <2>1, <2>2
  <2>4. i \in 1..Len(conn) /\ conn'[i] = conn[i]
    BY <1>3, <2>1, <2>3
  <2> QED BY <1>4, <2>4
<1>6. ASSUME NEW c \in Clients, Refused(c)
      PROVE  DiedFirst \in faulty'
  <2>1. conn' = conn
    BY <1>6 DEF Refused
  <2> QED BY <1>4, <2>1
<1>7. ASSUME NEW c \in Clients,
             Hello(c) \/ Write(c) \/ Read(c) \/ Close(c) \/ ClientDies(c)
      PROVE  DiedFirst \in faulty'
  <2>1. /\ cpc[c] \in Connected /\ Len(conn') = Len(conn)
        /\ \A j \in 1..Len(conn) : j # sock[c] => conn'[j] = conn[j]
        /\ \/ conn'[sock[c]].first = conn[sock[c]].first
           \/ conn'[sock[c]].first = service.hello
        /\ \/ conn'[sock[c]].copen = conn[sock[c]].copen
           \/ Hello(c) /\ service.hello = "eof"
           \/ ~Hello(c)
    BY <1>7, ClientTouches
  <2>2. CASE i # sock[c]
    BY <1>4, <2>1, <2>2
  <2>3. CASE i = sock[c] /\ conn'[i].copen = conn[i].copen
    BY <1>2, <1>4, <2>1, <2>3
  <2>4. CASE i = sock[c] /\ ~Hello(c)
    <3>1. conn[sock[c]].first = "none"
      BY <1>2, <2>1, <2>4
    <3>2. cpc[c] = "hello"
      BY <1>2, <2>1, <3>1 DEF ClientFirst, Connected, BaseInv, RoundsLeft
    <3>3. ClientDies(c)
      BY <1>7, <2>4, <3>2 DEF Write, Read, Close
    <3> QED BY <3>2, <3>3 DEF ClientDies, DiedFirst
  <2> QED BY <1>2, <2>1, <2>2, <2>3, <2>4
<1>8. CASE Stop
  <2>1. /\ Len(conn') = Len(conn) + 1
        /\ \A j \in 1..Len(conn) : conn'[j] = conn[j]
        /\ conn'[Len(conn) + 1].first = service.stop
    BY <1>8, StopStep DEF Fresh
  <2> QED BY <1>2, <1>3, <1>4, <2>1
<1>9. CASE ServerAction
    BY <1>4, <1>9, ServerTouches DEF Same
<1> QED BY <1>5, <1>6, <1>7, <1>8, <1>9, WhoMoves

\* The request to go, or what lat_tcp takes for it.
LEMMA RequestRead ==
    ASSUME BaseInv, Unsaid, NEW i \in 1..Len(conn), Readable(i),
           First(i) \in service.halts
    PROVE  Asked \/ service.listeners = 0
<1>1. /\ service.halts = {service.stop}
      /\ service.stop = "eof" => service.name \in {"lat_tcp", "none"}
      /\ service.name = "none" => service.listeners = 0
    BY ServiceFacts DEF BaseInv, ConnTypes, Proper
<1>2. DOMAIN conn = 1..Len(conn)
    BY DEF BaseInv, ConnTypes
<1>3. CASE conn[i].first = "none"
  <2>1. service.stop = "eof" /\ ~conn[i].copen
    BY <1>1, <1>3 DEF First, Readable
  <2> QED BY <1>1, <1>3, <2>1 DEF Unsaid, Asked
<1>4. CASE conn[i].first # "none"
    BY <1>1, <1>2, <1>4 DEF First, Asked
<1> QED BY <1>3, <1>4

\* Only a process that goes stops listening.
LEMMA ListeningKept ==
    ASSUME BaseInv, [StreamNext]_streamVars
    PROVE  \/ listening' = listening
           \/ \E l \in Listener : \/ InlineStops(l) \/ InlineWriteFails(l)
                                  \/ GoAway(l)
           \/ \E i \in Conn : i <= Len(conn) /\ WorkerStops(i)
<1>1. ASSUME NEW c \in Clients,
             \/ Connect(c) \/ Refused(c) \/ Hello(c) \/ Write(c) \/ Read(c)
             \/ Close(c) \/ ClientDies(c)
      PROVE  listening' = listening
    BY <1>1 DEF Connect, Dial, Refused, Hello, Write, Read, Close, ClientDies,
                serverVars
<1>2. ASSUME NEW l \in Listener,
             \/ AcceptInline(l) \/ AcceptFork(l) \/ AcceptForkFails(l)
             \/ InlineServes(l)
      PROVE  listening' = listening
    BY <1>2 DEF AcceptInline, AcceptFork, AcceptForkFails, InlineServes
<1>3. ASSUME NEW i \in Conn,
             WorkerStarts(i) \/ Echo(i) \/ Push(i) \/ WorkerEnds(i)
      PROVE  listening' = listening
    BY <1>3 DEF WorkerStarts, Echo, Push, WorkerEnds, Die, Leaving, serverVars
<1>4. CASE Stop \/ Deliver \/ Wait \/ UNCHANGED streamVars
    BY <1>4 DEF Stop, Dial, Deliver, Wait, streamVars, serverVars
<1> QED BY <1>1, <1>2, <1>3, <1>4, StreamSteps

LEMMA FileStep ==
    ASSUME BaseInv, BaseInv', ClientFirst, FileClients, LeftUnread,
           [StreamNext]_streamVars
    PROVE  FileClients' /\ LeftUnread'
<1>1. faulty \subseteq faulty' /\ service' = service
    BY FaultyGrows
<1> SUFFICES ASSUME service.mode = "file"
             PROVE  FileClients' /\ LeftUnread'
    BY <1>1 DEF FileClients, LeftUnread
<1>2. /\ \A x \in service.serves : x \in {"size", "get"}
      /\ service.stop \in {"eof", "zero", "exit"} /\ service.hello # "eof"
    BY ServiceFacts DEF BaseInv, ConnTypes, Proper
<1>3. /\ Len(conn) \in Nat /\ cpc \in [Clients -> ClientPc]
      /\ \A i \in 1..Len(conn) : conn[i] \in Connection
      /\ \A d \in Clients : cpc[d] \in Connected => sock[d] \in 1..Len(conn)
    BY DEF BaseInv, ConnTypes, ClientTypes, Sockets
<1>4. ASSUME NEW c \in Clients, Connect(c)
      PROVE  FileClients' /\ LeftUnread'
  <2>1. /\ Len(conn') = Len(conn) + 1
        /\ \A i \in 1..Len(conn) : conn'[i] = conn[i]
        /\ conn'[Len(conn) + 1] = Fresh("none", FALSE)
        /\ sock' = [sock EXCEPT ![c] = Len(conn) + 1]
        /\ cpc' = [cpc EXCEPT ![c] = "hello"]
    BY <1>4, ConnectStep
  <2>2. /\ conn'[Len(conn) + 1].first = "none"
        /\ conn'[Len(conn) + 1].copen = TRUE
    <3>1. /\ Fresh("none", FALSE).first = "none"
          /\ Fresh("none", FALSE).copen = TRUE
      BY Zenon DEF Fresh
    <3> QED BY <2>1, <3>1
  <2>3. LeftUnread'
    <3> SUFFICES ASSUME NEW i \in 1..Len(conn'),
                        conn'[i].first \in service.serves,
                        conn'[i].sopen, ~conn'[i].copen
                 PROVE  DiedReading \in faulty'
      BY <1>1 DEF LeftUnread
    <3>1. i # Len(conn) + 1
      BY <2>2
    <3>2. i \in 1..Len(conn) /\ conn'[i] = conn[i]
      BY <1>3, <2>1, <3>1
    <3> QED BY <1>1, <3>2 DEF LeftUnread
  <2>4. FileClients'
    <3> SUFFICES ASSUME NEW d \in Clients
                 PROVE  /\ cpc'[d] # "write"
                        /\ cpc'[d] = "hello" => conn'[sock'[d]].copen
                        /\ cpc'[d] = "close" => ~conn'[sock'[d]].sopen
      BY DEF FileClients
    <3>1. sock \in [Clients -> 0..Len(conn)]
      BY DEF BaseInv, ClientTypes
    <3>2. CASE d = c
      BY <1>3, <2>1, <2>2, <3>1, <3>2
    <3>3. CASE d # c
      BY <1>3, <2>1, <3>1, <3>3 DEF FileClients, Connected
    <3> QED BY <3>2, <3>3
  <2> QED BY <2>3, <2>4
<1>5. ASSUME NEW c \in Clients, Refused(c)
      PROVE  FileClients' /\ LeftUnread'
  <2>1. /\ conn' = conn /\ sock' = sock
        /\ cpc'[c] \in {"connect", "failed", "unconnected"}
        /\ \A d \in Clients \ {c} : cpc'[d] = cpc[d]
    BY <1>3, <1>5 DEF Refused
  <2> QED BY <1>1, <2>1 DEF FileClients, LeftUnread
<1>6. ASSUME NEW c \in Clients,
             Hello(c) \/ Write(c) \/ Read(c) \/ Close(c) \/ ClientDies(c)
      PROVE  FileClients' /\ LeftUnread'
  <2> DEFINE s == sock[c]
  <2>1. /\ cpc[c] \in Connected /\ s \in 1..Len(conn)
        /\ Len(conn') = Len(conn)
        /\ \A i \in 1..Len(conn) : i # s => conn'[i] = conn[i]
        /\ conn'[s].sopen = conn[s].sopen
        /\ Hello(c) \/ conn'[s].first = conn[s].first
        /\ Hello(c) => conn'[s].copen = conn[s].copen
        /\ \A d \in Clients \ {c} : cpc'[d] = cpc[d]
        /\ sock' = sock
    BY <1>2, <1>6, ClientTouches
  <2>2. ~Write(c)
    BY DEF Write, FileClients
  \* What becomes of its own connection.
  <2>3. /\ cpc'[c] \notin {"write", "hello"}
        /\ cpc'[c] = "close" => ~conn[s].sopen
        /\ \/ conn'[s].copen \/ ~conn[s].sopen
           \/ conn'[s].first \notin service.serves
           \/ conn'[s].copen = conn[s].copen /\ conn'[s].first = conn[s].first
           \/ DiedReading \in faulty'
    <3>1. CASE Hello(c)
      <4>1. cpc[c] = "hello" /\ cpc'[c] = "read"
        BY <1>2, <1>3, <3>1 DEF Hello
      <4> QED BY <2>1, <3>1, <4>1 DEF FileClients
    <3>2. CASE Read(c)
      <4>1. CASE ReadEof(c)
        <5>1. ~conn[s].sopen /\ cpc'[c] = AfterRound(c)
          BY <1>3, <4>1 DEF ReadEof
        <5>2. AfterRound(c) = "close"
          BY DEF AfterRound, PerRound
        <5> QED BY <5>1, <5>2
      <4>2. ASSUME NEW n \in 1..Size, ReadSome(c, n)
            PROVE  /\ cpc'[c] = "read"
                   /\ conn'[s].copen = conn[s].copen
                   /\ conn'[s].first = conn[s].first
        <5>1. cpc'[c] = "read"
          BY <1>3, <4>2 DEF ReadSome
        <5>2. cpc[c] = "read"
          BY <3>2 DEF Read
        <5>3. conn'[s] = [conn[s] EXCEPT !.down = @ - n, !.got = @ + n]
          BY <2>1, <4>2, <5>2, ReadSomeStep
        <5> QED BY <1>3, <2>1, <5>1, <5>3 DEF Connection
      <4> QED BY <3>2, <4>1, <4>2 DEF Read
    <3>3. CASE Close(c)
      <4>1. cpc[c] # "next"
        BY <1>2 DEF BaseInv, RoundsLeft
      <4>2. cpc[c] = "close" /\ cpc'[c] \in {"done", "connect"}
        BY <1>3, <3>3, <4>1 DEF Close
      <4> QED BY <4>2 DEF FileClients
    <3>4. CASE ClientDies(c)
      <4>1. /\ cpc[c] \in {"hello", "read", "close"} /\ cpc'[c] = "failed"
            /\ faulty' = faulty \cup {[what |-> "client", when |-> cpc[c]]}
        <5>1. cpc[c] \notin {"write", "next"}
          BY <1>2 DEF FileClients, BaseInv, RoundsLeft
        <5> QED BY <1>3, <2>1, <3>4, <5>1 DEF ClientDies, Connected
      <4>2. CASE cpc[c] = "hello"
        <5>1. ~Hello(c) => conn'[s].first = "none"
          BY <2>1, <4>2 DEF ClientFirst
        <5> QED BY <1>2, <3>1, <4>1, <5>1
      <4>3. CASE cpc[c] = "read"
        BY <4>1, <4>3 DEF DiedReading
      <4>4. CASE cpc[c] = "close"
        BY <4>1, <4>4 DEF FileClients
      <4> QED BY <4>1, <4>2, <4>3, <4>4
    <3> QED BY <1>6, <2>2, <3>1, <3>2, <3>3, <3>4
  <2>4. FileClients'
    <3> SUFFICES ASSUME NEW d \in Clients
                 PROVE  /\ cpc'[d] # "write"
                        /\ cpc'[d] = "hello" => conn'[sock[d]].copen
                        /\ cpc'[d] = "close" => ~conn'[sock[d]].sopen
      BY <2>1 DEF FileClients
    <3>1. CASE d = c
      BY <2>1, <2>3, <3>1
    <3>2. CASE d # c /\ cpc[d] \in Connected
      <4>1. sock[d] # s /\ sock[d] \in 1..Len(conn)
        BY <1>3, <2>1, <3>2 DEF BaseInv, Sockets
      <4> QED BY <2>1, <3>2, <4>1 DEF FileClients
    <3>3. CASE d # c /\ cpc[d] \notin Connected
      BY <2>1, <3>3 DEF Connected
    <3> QED BY <3>1, <3>2, <3>3
  <2>5. LeftUnread'
    <3> SUFFICES ASSUME NEW i \in 1..Len(conn),
                        conn'[i].first \in service.serves,
                        conn'[i].sopen, ~conn'[i].copen
                 PROVE  DiedReading \in faulty'
      BY <1>1, <2>1 DEF LeftUnread
    <3>1. CASE i = s
      BY <1>1, <2>1, <2>3, <3>1 DEF LeftUnread
    <3>2. CASE i # s
      BY <1>1, <2>1, <3>2 DEF LeftUnread
    <3> QED BY <3>1, <3>2
  <2> QED BY <2>4, <2>5
<1>7. CASE Stop
  <2>1. /\ Len(conn') = Len(conn) + 1 /\ cpc' = cpc /\ sock' = sock
        /\ \A i \in 1..Len(conn) : conn'[i] = conn[i]
        /\ conn'[Len(conn) + 1].first = service.stop
    BY <1>7, StopStep DEF Fresh, clientVars
  <2>2. LeftUnread'
    BY <1>1, <1>2, <1>3, <2>1 DEF LeftUnread
  <2>3. FileClients'
    BY <1>1, <1>3, <2>1 DEF FileClients, Connected
  <2> QED BY <2>2, <2>3
<1>8. CASE ServerAction
  <2>1. /\ cpc' = cpc /\ sock' = sock /\ Len(conn') = Len(conn)
        /\ \A i \in 1..Len(conn) :
              /\ conn'[i].first = conn[i].first
              /\ conn'[i].copen = conn[i].copen
              /\ conn'[i].sopen => conn[i].sopen
    BY <1>8, ServerTouches DEF Same, clientVars
  <2>2. LeftUnread'
    BY <1>1, <2>1 DEF LeftUnread
  <2>3. FileClients'
    BY <1>1, <1>3, <2>1 DEF FileClients, Connected
  <2> QED BY <2>2, <2>3
<1> QED BY <1>4, <1>5, <1>6, <1>7, <1>8, WhoMoves

LEMMA StopInvInit == StreamInit \/ StreamIdle => ClientFirst /\ StopInv
<1> SUFFICES ASSUME StreamInit \/ StreamIdle
             PROVE  ClientFirst /\ StopInv
    OBVIOUS
<1>1. 1..NoService.listeners = {}
    BY DEF NoService, LatTcp
<1>2. /\ conn = <<>> /\ \A c \in Clients : cpc[c] \notin Connected
      /\ listening = 1..service.listeners
  <2>1. CASE StreamInit
    BY <2>1 DEF StreamInit, Connected
  <2>2. CASE StreamIdle
    BY <1>1, <2>2 DEF StreamIdle, Connected
  <2> QED BY <2>1, <2>2
<1>3. Len(conn) = 0
    BY <1>2
<1> QED BY <1>2, <1>3 DEF ClientFirst, StopInv, Unsaid, FileClients,
                          LeftUnread, Connected

LEMMA StopInvStep ==
    ASSUME BaseInv, BaseInv', ClientFirst, StopInv, [StreamNext]_streamVars
    PROVE  StopInv'
<1>1. faulty \subseteq faulty' /\ service' = service
    BY FaultyGrows
<1>2. Unsaid' /\ FileClients' /\ LeftUnread'
    BY UnsaidStep, FileStep DEF StopInv
<1>3. CASE Asked
    BY <1>2, <1>3, AskedKept DEF StopInv
<1> SUFFICES ASSUME ~Asked, listening' # 1..service.listeners
             PROVE  Asked'
    BY <1>1, <1>2, <1>3 DEF StopInv
<1>4. listening = 1..service.listeners
    BY DEF StopInv
<1>5. ASSUME NEW l \in Listener, InlineStops(l)
      PROVE  FALSE
  <2>1. /\ l \in listening /\ at[l] # 0 /\ Readable(at[l])
        /\ First(at[l]) \in service.halts
    BY <1>5 DEF InlineStops
  <2>2. at[l] \in 1..Len(conn) /\ service.listeners # 0
    BY <1>4, <2>1 DEF BaseInv, ConnTypes, ServerTypes
  <2> QED BY <2>1, <2>2, RequestRead DEF StopInv
<1>6. ASSUME NEW i \in Conn, i <= Len(conn), WorkerStops(i)
      PROVE  FALSE
  <2>1. Readable(i) /\ First(i) \in service.halts /\ listening' = {}
    BY <1>6 DEF WorkerStops, Leaving
  <2>2. i \in 1..Len(conn) /\ service.listeners # 0
    BY <1>6, <2>1, MaxConnNat DEF BaseInv, ConnTypes
  <2> QED BY <2>1, <2>2, RequestRead DEF StopInv
<1>7. ASSUME NEW l \in Listener, GoAway(l)
      PROVE  Asked'
    BY <1>7 DEF GoAway, Asked, HourOver
<1>8. ASSUME NEW l \in Listener, InlineWriteFails(l)
      PROVE  FALSE
  <2>1. /\ l \in listening /\ at[l] # 0 /\ service.mode = "file"
        /\ conn[at[l]].first \in service.serves
        /\ conn[at[l]].sopen /\ ~conn[at[l]].copen
    BY <1>8 DEF InlineWriteFails
  <2>2. at[l] \in 1..Len(conn)
    BY <2>1 DEF BaseInv, ConnTypes, ServerTypes
  <2> QED BY <2>1, <2>2 DEF StopInv, LeftUnread, Asked
<1> QED BY <1>4, <1>5, <1>6, <1>7, <1>8, ListeningKept

\* What StopInv is for.
LEMMA StopsFollows == BaseInv /\ StopInv => StopsOnRequest
<1> SUFFICES ASSUME BaseInv, StopInv,
                    service.listeners > Cardinality(listening)
             PROVE  Asked
    BY DEF StopsOnRequest, Asked, HourOver, DiedFirst, DiedReading
<1>1. service.listeners \in {0, 1, 2}
    BY ServiceFacts DEF BaseInv, ConnTypes, Proper
<1>2. Cardinality(1..service.listeners) = service.listeners
    BY <1>1, FS_Interval
<1>3. listening # 1..service.listeners
    BY <1>1, <1>2
<1> QED BY <1>3 DEF StopInv

-----------------------------------------------------------------------------
(* The rounds of the clients.                                              *)

\* Only who has sent its first message is served.
Served == \A i \in 1..Len(conn) : worker[i] = "serve" => conn[i].first # "none"

HelloFlow(c) ==
    /\ cpc[c] = "hello" => /\ conn[sock[c]].up = 0 /\ conn[sock[c]].down = 0
                           /\ conn[sock[c]].got = 0
    /\ cpc[c] = "write" => service.mode = "echo"

\* One message is under way while lat_tcp waits for its answer.
EchoFlow(c) ==
    LET k == conn[sock[c]]
    IN  service.mode = "echo" /\ Parts \notin faulty /\ k.sopen =>
            /\ k.got = Size * rounds[c]
            /\ cpc[c] \in {"write", "close"} => k.up = 0 /\ k.down = 0
            /\ cpc[c] = "read" => k.up + k.down = Size /\ k.up \in {0, Size}

\* What bw_tcp has read and what it still waits for are its rounds.
PushFlow(c) ==
    LET k == conn[sock[c]]
    IN  service.mode = "push" =>
            /\ cpc[c] = "read" => /\ k.got + todo[c] >= Size * rounds[c] + Size
                                  /\ todo[c] <= Size
            /\ cpc[c] = "close" => k.got >= Size * rounds[c]

ClientFlow(c) == HelloFlow(c) /\ EchoFlow(c) /\ PushFlow(c)

RoundInv ==
    /\ Served
    /\ \A c \in Clients : cpc[c] \in Connected => ClientFlow(c)

\* What a client finds on its connection when nobody used it.
LEMMA FlowKept ==
    ASSUME NEW c \in Clients, ClientFlow(c),
           cpc'[c] = cpc[c], rounds'[c] = rounds[c], todo'[c] = todo[c],
           sock'[c] = sock[c], service' = service, faulty \subseteq faulty',
           conn'[sock[c]].up = conn[sock[c]].up,
           conn'[sock[c]].down = conn[sock[c]].down,
           conn'[sock[c]].got = conn[sock[c]].got,
           conn'[sock[c]].sopen => conn[sock[c]].sopen
    PROVE  ClientFlow(c)'
<1>1. HelloFlow(c)'
    BY DEF ClientFlow, HelloFlow
<1>2. EchoFlow(c)'
    BY DEF ClientFlow, EchoFlow
<1>3. PushFlow(c)'
    BY DEF ClientFlow, PushFlow
<1> QED BY <1>1, <1>2, <1>3 DEF ClientFlow

LEMMA OneMore ==
    ASSUME NEW r \in Nat
    PROVE  Size * r \in Nat /\ Size * (r + 1) = Size * r + Size
<1>1. Size \in Nat
    BY StreamAssumption
<1> QED BY <1>1

LEMMA HelloFlows ==
    ASSUME BaseInv, BaseInv', NEW c \in Clients, ClientFlow(c), Hello(c),
           cpc'[c] \in Connected
    PROVE  ClientFlow(c)'
<1>1. /\ cpc[c] = "hello" /\ sock' = sock /\ rounds' = rounds
      /\ faulty' = faulty /\ service' = service
      /\ cpc \in [Clients -> ClientPc] /\ todo \in [Clients -> Nat]
      /\ todo' = [todo EXCEPT ![c] = Size] /\ Size \in Nat
    BY StreamAssumption DEF Hello, BaseInv, ClientTypes
<1>2. /\ conn[sock[c]].up = 0 /\ conn[sock[c]].down = 0
      /\ conn[sock[c]].got = 0
    BY <1>1 DEF ClientFlow, HelloFlow
<1>3. CASE service.hello = "eof"
  <2>1. service.mode = "none"
    BY <1>3, ServiceFacts DEF BaseInv, ConnTypes, Proper
  <2>2. cpc'[c] = "next"
    BY <1>1, <1>3 DEF Hello
  <2> QED BY <1>1, <2>1, <2>2 DEF ClientFlow, HelloFlow, EchoFlow, PushFlow
<1>4. CASE service.hello # "eof"
  <2>1. conn' = [conn EXCEPT ![sock[c]].first = service.hello]
    BY <1>4 DEF Hello
  <2>2. sock[c] \in DOMAIN conn /\ conn[sock[c]] \in Connection
    BY <1>1, OwnConn DEF Connected
  <2>3. /\ conn'[sock[c]].up = 0 /\ conn'[sock[c]].down = 0
        /\ conn'[sock[c]].got = 0
    BY <1>2, <2>1, <2>2 DEF Connection
  <2>4. cpc'[c] = IF service.mode = "echo" THEN "write" ELSE "read"
    BY <1>1, <1>4 DEF Hello
  <2>5. service.mode \in {"echo", "push"} => Size * rounds[c] = 0
    <3>1. service.mode \in {"echo", "push"} => rounds[c] = 0
      BY <1>1 DEF BaseInv, RoundsLeft, PerRound
    <3> QED BY <1>1, <3>1
  <2>6. HelloFlow(c)'
    BY <1>1, <2>4 DEF HelloFlow
  <2>7. EchoFlow(c)'
    BY <1>1, <2>3, <2>4, <2>5 DEF EchoFlow
  <2>8. PushFlow(c)'
    BY <1>1, <2>3, <2>4, <2>5 DEF PushFlow
  <2> QED BY <2>6, <2>7, <2>8 DEF ClientFlow
<1> QED BY <1>3, <1>4

LEMMA WriteFlows ==
    ASSUME BaseInv, BaseInv', NEW c \in Clients, ClientFlow(c), Write(c),
           cpc'[c] \in Connected
    PROVE  ClientFlow(c)'
<1>1. /\ cpc[c] = "write" /\ sock' = sock /\ rounds' = rounds
      /\ faulty' = faulty /\ service' = service /\ todo' = todo
      /\ cpc \in [Clients -> ClientPc] /\ Size \in Nat
      /\ service.mode = "echo"
    BY StreamAssumption DEF Write, BaseInv, ClientTypes, ClientFlow, HelloFlow
<1>2. sock[c] \in DOMAIN conn /\ conn[sock[c]] \in Connection
    BY <1>1, OwnConn DEF Connected
<1>3. cpc'[c] = "read"
    BY <1>1 DEF Write, Connected
<1>4. CASE ~conn[sock[c]].sopen
  <2>1. conn' = conn
    BY <1>1, <1>3, <1>4 DEF Write
  <2> QED BY <1>1, <1>3, <1>4, <2>1 DEF ClientFlow, HelloFlow, EchoFlow,
                                         PushFlow
<1>5. CASE conn[sock[c]].sopen
  <2>1. conn' = [conn EXCEPT ![sock[c]].up = @ + Size]
    BY <1>5 DEF Write
  <2>2. /\ conn'[sock[c]].up = conn[sock[c]].up + Size
        /\ conn'[sock[c]].down = conn[sock[c]].down
        /\ conn'[sock[c]].got = conn[sock[c]].got
    BY <1>2, <2>1 DEF Connection
  <2>3. EchoFlow(c)'
    BY <1>1, <1>3, <1>5, <2>2 DEF ClientFlow, EchoFlow
  <2> QED BY <1>1, <1>3, <2>3 DEF ClientFlow, HelloFlow, PushFlow
<1> QED BY <1>4, <1>5

LEMMA ReadFlows ==
    ASSUME BaseInv, BaseInv', NEW c \in Clients, ClientFlow(c), Read(c),
           cpc'[c] \in Connected
    PROVE  ClientFlow(c)'
<1>1. /\ cpc[c] = "read" /\ sock' = sock /\ service' = service
      /\ cpc \in [Clients -> ClientPc] /\ rounds \in [Clients -> 0..Rounds]
      /\ todo \in [Clients -> Nat] /\ Size \in Nat /\ Rounds \in Nat
      /\ rounds[c] \in Nat /\ todo[c] \in Nat
    BY StreamAssumption DEF Read, BaseInv, ClientTypes
<1>2. /\ sock[c] \in 1..Len(conn) /\ conn[sock[c]] \in Connection
      /\ conn[sock[c]].up \in Nat /\ conn[sock[c]].down \in Nat
      /\ conn[sock[c]].got \in Nat
    BY <1>1, OwnConn DEF Connected, Connection
<1>3. CASE ReadEof(c)
  <2>1. CASE service.mode = "push"
    BY <1>1, <1>3, <2>1 DEF ReadEof, Connected
  <2>2. CASE service.mode # "push"
    <3>1. conn' = conn /\ ~conn[sock[c]].sopen /\ cpc'[c] = AfterRound(c)
      BY <1>1, <1>3, <2>2 DEF ReadEof
    <3>2. HelloFlow(c)'
      BY <1>1, <3>1, RoundOver DEF HelloFlow
    <3> QED BY <1>1, <2>2, <3>1, <3>2 DEF ClientFlow, EchoFlow, PushFlow
  <2> QED BY <2>1, <2>2
<1>4. CASE \E n \in 1..Size : ReadSome(c, n)
  <2>1. PICK n \in 1..Size : ReadSome(c, n)
    BY <1>4
  <2>2. n \in Nat /\ n <= conn[sock[c]].down
    <3>1. n <= conn[sock[c]].down
      BY <1>1, <2>1, ReadSomeStep
    <3> QED BY <1>1, <2>1, <3>1
  <2>10. \A i \in 1..Len(conn) :
             conn'[i] = IF i = sock[c]
                        THEN [conn[i] EXCEPT !.down = @ - n, !.got = @ + n]
                        ELSE conn[i]
    BY <1>1, <2>1, ReadSomeStep
  <2>3. /\ conn'[sock[c]].up = conn[sock[c]].up
        /\ conn'[sock[c]].down = conn[sock[c]].down - n
        /\ conn'[sock[c]].got = conn[sock[c]].got + n
        /\ conn'[sock[c]].sopen = conn[sock[c]].sopen
    <3> DEFINE x == conn[sock[c]].down - n
               y == conn[sock[c]].got + n
    <3>1. conn'[sock[c]] = [conn[sock[c]] EXCEPT !.down = x, !.got = y]
      BY <1>2, <2>10
    <3> HIDE DEF x, y
    <3>2. /\ conn'[sock[c]].up = conn[sock[c]].up /\ conn'[sock[c]].down = x
          /\ conn'[sock[c]].got = y
          /\ conn'[sock[c]].sopen = conn[sock[c]].sopen
      BY <1>2, <3>1 DEF Connection
    <3> QED BY <3>2 DEF x, y
  <2>4. PICK left \in Nat :
          /\ left = IF n > todo[c] THEN 0 ELSE todo[c] - n
          /\ \/ /\ \/ service.mode = "echo"
                   \/ service.mode = "push" /\ left = 0
                /\ todo' = [todo EXCEPT ![c] = Size]
                /\ rounds' = [rounds EXCEPT ![c] = @ + 1]
                /\ cpc' = [cpc EXCEPT ![c] = AfterRound(c)]
             \/ /\ service.mode = "push" => left > 0
                /\ service.mode # "echo"
                /\ todo' = [todo EXCEPT ![c] = left]
                /\ rounds' = rounds
                /\ cpc' = [cpc EXCEPT ![c] = "read"]
    BY <1>1, <2>1, ReadSomeStep
  <2>5. cpc'[c] \in {"read", AfterRound(c)} /\ faulty \subseteq faulty'
        /\ (service.mode = "echo" => cpc'[c] = AfterRound(c))
    BY <1>1, <2>1, <2>4 DEF ReadSome, InParts
  <2>6. HelloFlow(c)'
    <3>1. cpc'[c] # "hello" /\ (cpc'[c] = "write" => service.mode = "echo")
      BY <2>5, RoundOver
    <3> QED BY <1>1, <3>1 DEF HelloFlow
  <2>7. Size * rounds[c] \in Nat
        /\ Size * (rounds[c] + 1) = Size * rounds[c] + Size
    BY <1>1, OneMore
  <2>8. EchoFlow(c)'
    <3> SUFFICES ASSUME service.mode = "echo", Parts \notin faulty',
                        conn[sock[c]].sopen
                 PROVE  /\ conn'[sock[c]].got = Size * rounds'[c]
                        /\ conn'[sock[c]].up = 0 /\ conn'[sock[c]].down = 0
                        /\ cpc'[c] # "read"
      BY <1>1, <2>3 DEF EchoFlow
    <3>1. ~(n < Size) /\ n \in 1..Size
      BY <2>1 DEF ReadSome, InParts
    <3>2. n = Size
      BY <1>1, <3>1
    <3>3. /\ conn[sock[c]].got = Size * rounds[c]
          /\ conn[sock[c]].up + conn[sock[c]].down = Size
          /\ conn[sock[c]].up \in {0, Size}
      BY <1>1, <2>5 DEF ClientFlow, EchoFlow
    <3>4. rounds'[c] = rounds[c] + 1 /\ cpc'[c] = AfterRound(c)
      BY <1>1, <2>4
    <3>5. conn[sock[c]].up = 0 /\ conn[sock[c]].down = Size
      <4>1. Size \in 1..conn[sock[c]].down
        BY <1>1, <1>2, <2>2, <3>1, <3>2
      <4> QED BY <1>1, <1>2, <3>3, <4>1
    <3>6. conn'[sock[c]].got = Size * rounds'[c]
      BY <2>3, <2>7, <3>2, <3>3, <3>4
    <3> QED BY <1>1, <1>2, <2>3, <3>2, <3>4, <3>5, <3>6, RoundOver
  <2>9. PushFlow(c)'
    <3> SUFFICES ASSUME service.mode = "push"
                 PROVE  /\ cpc'[c] = "read" =>
                              /\ conn'[sock[c]].got + todo'[c]
                                     >= Size * rounds'[c] + Size
                              /\ todo'[c] <= Size
                        /\ cpc'[c] = "close" =>
                              conn'[sock[c]].got >= Size * rounds'[c]
      BY <1>1 DEF PushFlow
    <3>1. /\ conn[sock[c]].got + todo[c] >= Size * rounds[c] + Size
          /\ todo[c] <= Size
      BY <1>1 DEF ClientFlow, PushFlow
    <3> DEFINE p == Size * rounds[c]
               q == Size * rounds'[c]
    <3>2. CASE left = 0
      <4>1. /\ rounds' = [rounds EXCEPT ![c] = @ + 1]
            /\ todo' = [todo EXCEPT ![c] = Size]
        BY <2>4, <3>2
      <4>2. rounds'[c] = rounds[c] + 1 /\ todo'[c] = Size
        BY <1>1, <4>1
      <4>3. q = p + Size /\ p \in Nat
        BY <2>7, <4>2
      <4>4. todo[c] <= n
        BY <1>1, <2>2, <2>4, <3>2
      <4>5. conn[sock[c]].got + todo[c] >= p + Size
        BY <3>1
      <4> HIDE DEF p, q
      <4>6. conn'[sock[c]].got >= q
        BY <1>1, <1>2, <2>2, <2>3, <4>3, <4>4, <4>5
      <4>7. conn'[sock[c]].got + todo'[c] >= q + Size
        BY <1>1, <1>2, <2>2, <2>3, <4>2, <4>3, <4>6
      <4> QED BY <1>1, <4>2, <4>6, <4>7 DEF q
    <3>3. CASE left # 0
      <4>1. /\ todo' = [todo EXCEPT ![c] = left] /\ rounds' = rounds
            /\ cpc' = [cpc EXCEPT ![c] = "read"]
        BY <2>4, <3>3
      <4>2. todo'[c] = left /\ rounds'[c] = rounds[c] /\ cpc'[c] = "read"
        BY <1>1, <4>1
      <4>3. left = todo[c] - n
        BY <2>4, <3>3
      <4>4. p \in Nat /\ conn[sock[c]].got + todo[c] >= p + Size
        BY <2>7, <3>1
      <4> HIDE DEF p
      <4>5. conn'[sock[c]].got + todo'[c] >= p + Size
        BY <1>1, <1>2, <2>2, <2>3, <4>2, <4>3, <4>4
      <4>6. todo'[c] <= Size
        BY <1>1, <2>2, <3>1, <4>2, <4>3
      <4> QED BY <4>2, <4>5, <4>6 DEF p
    <3> QED BY <3>2, <3>3
  <2> QED BY <2>6, <2>8, <2>9 DEF ClientFlow
<1> QED BY <1>3, <1>4 DEF Read

\* What the servers put on a connection, and take from it.
LEMMA ServerFlows ==
    ASSUME BaseInv, BaseInv', ClientFirst, RoundInv, ServerAction,
           NEW c \in Clients, cpc[c] \in Connected,
           faulty \subseteq faulty'
    PROVE  ClientFlow(c)'
<1> DEFINE i == sock[c]
<1>1. /\ UNCHANGED clientVars /\ service' = service
      /\ \A j \in 1..Len(conn) :
            /\ Same(j)
            /\ Flows(j) => \/ Echo(j) \/ Push(j)
                           \/ \E l \in Listener : InlineServes(l) /\ at[l] = j
    BY ServerTouches
<1>2. i \in 1..Len(conn) /\ DOMAIN conn = 1..Len(conn)
      /\ conn[i] \in Connection
    BY OwnConn
<1>3. /\ cpc' = cpc /\ sock' = sock /\ rounds' = rounds /\ todo' = todo
    BY <1>1 DEF clientVars
<1>4. /\ conn'[i].got = conn[i].got
      /\ conn'[i].sopen => conn[i].sopen
    BY <1>1, <1>2 DEF Same
<1>5. ClientFlow(c)
    BY DEF RoundInv
<1>6. CASE ~Flows(i)
    BY <1>1, <1>3, <1>4, <1>5, <1>6, FlowKept DEF Flows
<1>7. PushFlow(c)'
    BY <1>1, <1>3, <1>4, <1>5 DEF ClientFlow, PushFlow
<1>8. CASE Push(i)
  <2>1. worker[i] = "serve" /\ service.mode = "push"
    BY <1>8 DEF Push
  <2>2. cpc[c] # "hello"
    BY <1>2, <2>1 DEF RoundInv, Served, ClientFirst, Connected
  <2>3. HelloFlow(c)' /\ EchoFlow(c)'
    BY <1>1, <1>3, <1>5, <2>1, <2>2 DEF ClientFlow, HelloFlow, EchoFlow
  <2> QED BY <1>7, <2>3 DEF ClientFlow
<1>9. CASE Echo(i)
  <2>1. worker[i] = "serve" /\ service.mode = "echo" /\ conn[i].up > 0
    BY <1>9 DEF Echo
  <2>2. cpc[c] # "hello"
    BY <1>2, <2>1 DEF RoundInv, Served, ClientFirst, Connected
  <2>3. HelloFlow(c)'
    BY <1>1, <1>3, <1>5, <2>2 DEF ClientFlow, HelloFlow
  <2>4. PICK n \in 1..Size :
           /\ n <= conn[i].up /\ InParts(n)
           /\ conn' = [conn EXCEPT ![i].up = @ - n, ![i].down = @ + Size]
    BY <1>9 DEF Echo
  <2>5. /\ conn'[i].up = conn[i].up - n
        /\ conn'[i].down = conn[i].down + Size
    <3> DEFINE x == conn[i].up - n
               y == conn[i].down + Size
    <3>1. conn' = [conn EXCEPT ![i] = [conn[i] EXCEPT !.up = x, !.down = y]]
      BY <1>2, <2>4
    <3> HIDE DEF x, y
    <3>2. conn'[i] = [conn[i] EXCEPT !.up = x, !.down = y]
      BY <1>2, <3>1
    <3>3. conn'[i].up = x /\ conn'[i].down = y
      BY <1>2, <3>2 DEF Connection
    <3> QED BY <3>3 DEF x, y
  <2>6. EchoFlow(c)'
    <3> SUFFICES ASSUME Parts \notin faulty', conn'[i].sopen
                 PROVE  /\ conn'[i].got = Size * rounds[c]
                        /\ cpc[c] \notin {"write", "close"}
                        /\ cpc[c] = "read" => /\ conn'[i].up = 0
                                              /\ conn'[i].down = Size
      BY <1>1, <1>3, StreamAssumption DEF EchoFlow
    <3>1. /\ conn[i].got = Size * rounds[c]
          /\ cpc[c] \in {"write", "close"} => conn[i].up = 0
          /\ cpc[c] = "read" => /\ conn[i].up + conn[i].down = Size
                                /\ conn[i].up \in {0, Size}
      BY <1>4, <1>5, <2>1 DEF ClientFlow, EchoFlow
    <3>2. ~(n < Size) /\ Size \in Nat
      BY <2>1, <2>4, StreamAssumption DEF InParts
    <3>3. n = Size
      BY <2>4, <3>2
    <3>4. conn[i].up \in Nat /\ conn[i].down \in Nat
      BY <1>2 DEF Connection
    <3> QED BY <1>4, <2>1, <2>5, <3>1, <3>2, <3>3, <3>4
  <2> QED BY <1>7, <2>3, <2>6 DEF ClientFlow
<1>10. CASE \E l \in Listener : InlineServes(l) /\ at[l] = i
  <2>1. PICK l \in Listener : InlineServes(l) /\ at[l] = i
    BY <1>10
  <2>2. PICK sent \in {0, Size} :
           /\ First(i) \notin service.serves => sent = 0
           /\ conn' = [conn EXCEPT ![i].down = sent, ![i].sopen = FALSE]
    BY <2>1 DEF InlineServes
  <2>3. /\ conn'[i].up = conn[i].up /\ conn'[i].down = sent
        /\ ~conn'[i].sopen
    <3>1. conn'[i] = [conn[i] EXCEPT !.down = sent, !.sopen = FALSE]
      BY <1>2, <2>2
    <3> QED BY <1>2, <3>1 DEF Connection
  <2>4. cpc[c] = "hello" => sent = 0
    <3>1. "eof" \notin service.serves
      BY ServiceFacts DEF BaseInv, ConnTypes, Proper
    <3> QED BY <2>2, <3>1 DEF First, ClientFirst, Connected
  <2>5. HelloFlow(c)' /\ EchoFlow(c)'
    BY <1>1, <1>3, <1>4, <1>5, <2>3, <2>4 DEF ClientFlow, HelloFlow, EchoFlow
  <2> QED BY <1>7, <2>5 DEF ClientFlow
<1> QED BY <1>1, <1>2, <1>6, <1>8, <1>9, <1>10

\* Only WorkerStarts() begins to serve.
LEMMA ServesSince ==
    ASSUME BaseInv, [StreamNext]_streamVars, NEW i \in Conn,
           worker'[i] = "serve", worker[i] # "serve"
    PROVE  WorkerStarts(i) /\ i <= Len(conn)
<1>1. worker \in [Conn -> WorkerPc]
    BY DEF BaseInv, ServerTypes
<1>2. worker' # worker
    OBVIOUS
<1>3. ASSUME NEW c \in Clients,
             \/ Connect(c) \/ Refused(c) \/ Hello(c) \/ Write(c) \/ Read(c)
             \/ Close(c) \/ ClientDies(c)
      PROVE  FALSE
    BY <1>2, <1>3 DEF Connect, Dial, Refused, Hello, Write, Read, Close,
                      ClientDies, serverVars
<1>4. ASSUME NEW l \in Listener,
             \/ AcceptInline(l) \/ InlineStops(l) \/ InlineServes(l)
             \/ InlineWriteFails(l)
      PROVE  FALSE
    BY <1>2, <1>4 DEF AcceptInline, InlineStops, InlineServes,
                      InlineWriteFails, Leaving
<1>5. ASSUME NEW l \in Listener, AcceptFork(l) \/ AcceptForkFails(l)
      PROVE  FALSE
  <2>1. \/ worker' = [worker EXCEPT ![Head(queue)] = "first"]
        \/ worker' = [worker EXCEPT ![Head(queue)] = "unserved"]
    BY <1>5 DEF AcceptFork, AcceptForkFails
  <2> QED BY <1>1, <2>1
<1>6. ASSUME NEW l \in Listener, GoAway(l)
      PROVE  FALSE
    BY <1>6 DEF GoAway, Leaving, Orphans
<1>7. ASSUME NEW j \in Conn, WorkerStops(j)
      PROVE  FALSE
  <2>1. worker' = [Orphans EXCEPT ![j] = "reaped"]
    BY <1>7 DEF WorkerStops, Leaving
  <2> QED BY <2>1 DEF Orphans
<1>8. ASSUME NEW j \in Conn, Die(j)
      PROVE  FALSE
  <2>1. worker' = [worker EXCEPT ![j] = IF listening = {} THEN "reaped"
                                                          ELSE "zombie"]
    BY <1>8 DEF Die, Leaving
  <2> QED BY <1>1, <2>1
<1>9. ASSUME NEW j \in Conn, Echo(j) \/ Push(j) \/ WorkerEnds(j)
      PROVE  FALSE
    BY <1>2, <1>8, <1>9 DEF Echo, Push, WorkerEnds, serverVars
<1>10. ASSUME NEW j \in Conn, WorkerStarts(j)
       PROVE  j = i
  <2>1. worker' = [worker EXCEPT ![j] = "serve"]
    BY <1>8, <1>10 DEF WorkerStarts
  <2> QED BY <1>1, <2>1
<1>11. CASE Stop \/ Deliver \/ UNCHANGED streamVars
    BY <1>2, <1>11 DEF Stop, Dial, Deliver, streamVars, serverVars
<1>12. CASE Wait
    BY <1>1, <1>12 DEF Wait
<1> QED BY <1>3, <1>4, <1>5, <1>6, <1>7, <1>9, <1>10, <1>11, <1>12, StreamSteps

LEMMA RoundInvInit == StreamInit \/ StreamIdle => RoundInv
<1> SUFFICES ASSUME StreamInit \/ StreamIdle
             PROVE  RoundInv
    OBVIOUS
<1>1. conn = <<>> /\ \A c \in Clients : cpc[c] \notin Connected
  <2>1. CASE StreamInit
    BY <2>1 DEF StreamInit, Connected
  <2>2. CASE StreamIdle
    BY <2>2 DEF StreamIdle, Connected
  <2> QED BY <2>1, <2>2
<1>2. Len(conn) = 0
    BY <1>1
<1> QED BY <1>1, <1>2 DEF RoundInv, Served

LEMMA ServedStep ==
    ASSUME BaseInv, BaseInv', QueueInv, ClientFirst, Served,
           [StreamNext]_streamVars
    PROVE  Served'
<1>1. /\ Len(conn) \in Nat /\ Len(conn') \in Nat
      /\ \A i \in 1..Len(conn) :
            conn[i].first # "none" => conn'[i].first = conn[i].first
    BY FirstKept
<1>2. \A i \in 1..Len(conn') : i \in Conn
  <2>1. BaseInv' => (\A i \in 1..Len(conn) : i \in Conn)'
    BY BaseConns, PTL
  <2> QED BY <2>1
<1> SUFFICES ASSUME NEW i \in 1..Len(conn'), worker'[i] = "serve"
             PROVE  conn'[i].first # "none"
    BY DEF Served
<1>3. i \in Conn /\ i \in Nat
    BY <1>1, <1>2
<1>4. CASE worker[i] = "serve"
  <2>1. i \in 1..Len(conn)
    BY <1>1, <1>3, <1>4 DEF QueueInv
  <2> QED BY <1>1, <1>4, <2>1 DEF Served
<1>5. CASE worker[i] # "serve"
  <2>1. WorkerStarts(i) /\ i \in 1..Len(conn)
    BY <1>1, <1>3, <1>5, ServesSince
  <2>2. worker'[i] = "serve" /\ worker[i] = "first"
    BY <2>1 DEF WorkerStarts
  <2>3. First(i) \in service.serves
    <3>1. worker \in [Conn -> WorkerPc]
      BY DEF BaseInv, ServerTypes
    <3>2. Die(i) => worker'[i] # "serve"
      BY <1>3, <3>1 DEF Die, Leaving
    <3> QED BY <2>1, <3>2 DEF WorkerStarts
  <2>4. "eof" \notin service.serves
    BY ServiceFacts DEF BaseInv, ConnTypes, Proper
  <2>5. conn[i].first # "none"
    BY <2>3, <2>4 DEF First
  <2> QED BY <1>1, <2>1, <2>5
<1> QED BY <1>4, <1>5

LEMMA RoundInvStep ==
    ASSUME BaseInv, BaseInv', QueueInv, ClientFirst, RoundInv,
           [StreamNext]_streamVars
    PROVE  RoundInv'
<1>1. Served'
    BY ServedStep DEF RoundInv
<1>2. faulty \subseteq faulty' /\ service' = service
    BY FaultyGrows
<1>3. /\ cpc \in [Clients -> ClientPc] /\ rounds \in [Clients -> 0..Rounds]
      /\ sock \in [Clients -> 0..Len(conn)] /\ Len(conn) \in Nat
      /\ \A d \in Clients : cpc[d] \in Connected => sock[d] \in 1..Len(conn)
    BY DEF BaseInv, ConnTypes, ClientTypes, Sockets
<1> SUFFICES ASSUME NEW d \in Clients, cpc'[d] \in Connected
             PROVE  ClientFlow(d)'
    BY <1>1 DEF RoundInv
<1>4. ASSUME cpc'[d] = cpc[d], rounds'[d] = rounds[d], todo'[d] = todo[d],
             sock'[d] = sock[d], conn'[sock[d]] = conn[sock[d]]
      PROVE  ClientFlow(d)'
  <2>1. ClientFlow(d)
    BY <1>4 DEF RoundInv
  <2> QED BY <1>2, <1>4, <2>1, FlowKept
<1>5. ASSUME NEW c \in Clients, Connect(c)
      PROVE  ClientFlow(d)'
  <2>1. /\ \A i \in 1..Len(conn) : conn'[i] = conn[i]
        /\ conn'[Len(conn) + 1] = Fresh("none", FALSE)
        /\ sock' = [sock EXCEPT ![c] = Len(conn) + 1]
        /\ cpc' = [cpc EXCEPT ![c] = "hello"] /\ cpc[c] = "connect"
        /\ UNCHANGED <<rounds, todo>>
    BY <1>5, ConnectStep
  <2>2. CASE d # c
    <3>1. cpc'[d] = cpc[d] /\ sock'[d] = sock[d]
      BY <1>3, <2>1, <2>2
    <3>2. conn'[sock[d]] = conn[sock[d]]
      BY <1>3, <2>1, <3>1
    <3> QED BY <1>4, <2>1, <3>1, <3>2
  <2>3. CASE d = c
    <3>1. cpc'[d] = "hello" /\ sock'[d] = Len(conn) + 1
      BY <1>3, <2>1, <2>3
    <3>2. /\ conn'[sock'[d]].up = 0 /\ conn'[sock'[d]].down = 0
          /\ conn'[sock'[d]].got = 0
      BY <2>1, <3>1 DEF Fresh
    <3>3. service.mode = "echo" => Size * rounds'[d] = 0
      <4>1. service.mode = "echo" => rounds[d] = 0
        BY <2>1, <2>3 DEF BaseInv, RoundsLeft, PerRound
      <4> QED BY <2>1, <4>1, StreamAssumption
    <3>4. HelloFlow(d)'
      BY <3>1, <3>2 DEF HelloFlow
    <3>5. EchoFlow(d)'
      BY <1>2, <3>1, <3>2, <3>3 DEF EchoFlow
    <3>6. PushFlow(d)'
      BY <3>1 DEF PushFlow
    <3> QED BY <3>4, <3>5, <3>6 DEF ClientFlow
  <2> QED BY <2>2, <2>3
<1>6. ASSUME NEW c \in Clients, Refused(c)
      PROVE  ClientFlow(d)'
  <2>1. /\ UNCHANGED <<conn, sock, rounds, todo>>
        /\ cpc'[c] \notin Connected
        /\ \A e \in Clients \ {c} : cpc'[e] = cpc[e]
    BY <1>3, <1>6 DEF Refused, Connected
  <2>2. d # c
    BY <2>1
  <2> QED BY <1>4, <2>1, <2>2
<1>7. ASSUME NEW c \in Clients,
             Hello(c) \/ Write(c) \/ Read(c) \/ Close(c) \/ ClientDies(c)
      PROVE  ClientFlow(d)'
  <2>1. /\ cpc[c] \in Connected
        /\ \A i \in 1..Len(conn) : i # sock[c] => conn'[i] = conn[i]
        /\ \A e \in Clients \ {c} :
              /\ cpc'[e] = cpc[e] /\ rounds'[e] = rounds[e]
              /\ todo'[e] = todo[e]
        /\ sock' = sock
    BY <1>7, ClientTouches
  <2>2. CASE d # c
    <3>1. cpc[d] \in Connected /\ sock[d] # sock[c]
      BY <2>1, <2>2 DEF BaseInv, Sockets
    <3>2. conn'[sock[d]] = conn[sock[d]]
      BY <1>3, <2>1, <3>1
    <3> QED BY <1>4, <2>1, <2>2, <3>2
  <2>3. CASE d = c
    <3>1. ClientFlow(c)
      BY <2>1 DEF RoundInv
    <3>2. ~Close(c) /\ ~ClientDies(c)
      BY <1>3, <2>3 DEF Close, ClientDies, Connected
    <3> QED BY <1>7, <2>3, <3>1, <3>2, HelloFlows, WriteFlows, ReadFlows
  <2> QED BY <2>2, <2>3
<1>8. CASE Stop
  <2>1. /\ \A i \in 1..Len(conn) : conn'[i] = conn[i]
        /\ cpc' = cpc /\ sock' = sock /\ rounds' = rounds /\ todo' = todo
    BY <1>8, StopStep DEF clientVars
  <2>2. conn'[sock[d]] = conn[sock[d]]
    BY <1>3, <2>1
  <2> QED BY <1>4, <2>1, <2>2
<1>9. CASE ServerAction
  <2>1. cpc[d] \in Connected
    BY <1>9, ServerTouches DEF clientVars
  <2> QED BY <1>2, <1>9, <2>1, ServerFlows
<1> QED BY <1>5, <1>6, <1>7, <1>8, <1>9, WhoMoves

-----------------------------------------------------------------------------
(* The invariant and what it is for.                                       *)

StreamInv ==
    BaseInv /\ QueueInv /\ ReapInv /\ ClientFirst /\ StopInv /\ RoundInv

\* The invariant holds in every state of a run of these programs, and in a
\* run of others where this half is idle.
THEOREM StreamsSafe ==
    /\ StreamInit \/ StreamIdle => StreamInv
    /\ StreamInv /\ [StreamNext]_streamVars => StreamInv'
<1>1. StreamInit \/ StreamIdle => StreamInv
    BY BaseInit, QueueInit, StopInvInit, RoundInvInit DEF StreamInv
<1>2. ASSUME StreamInv, [StreamNext]_streamVars
      PROVE  StreamInv'
  <2>1. /\ BaseInv /\ QueueInv /\ ReapInv /\ ClientFirst /\ StopInv
        /\ RoundInv
    BY <1>2 DEF StreamInv
  <2>2. BaseInv'
    BY <1>2, <2>1, BaseStep
  <2>3. QueueInv' /\ ReapInv'
    BY <1>2, <2>1, <2>2, QueueStep
  <2>4. ClientFirst' /\ StopInv'
    BY <1>2, <2>1, <2>2, ClientFirstStep, StopInvStep
  <2>5. RoundInv'
    BY <1>2, <2>1, <2>2, RoundInvStep
  <2> QED BY <2>2, <2>3, <2>4, <2>5 DEF StreamInv
<1> QED BY <1>1, <1>2

\* The types that the runs check.
LEMMA TypesFollow == StreamInv => StreamTypeOK
<1> SUFFICES ASSUME StreamInv
             PROVE  StreamTypeOK
    OBVIOUS
<1>1. /\ ConnTypes /\ ServerTypes /\ ClientTypes
      /\ \A i \in 1..Len(conn) : i \in Conn
      /\ Len(conn) <= MaxConn /\ MaxConn \in Nat /\ Len(conn) \in Nat
    BY BaseConns, BaseBounded, MaxConnNat DEF StreamInv, BaseInv, ConnTypes
<1>2. at \in [Listener -> 0..MaxConn]
    BY <1>1 DEF ServerTypes
<1>3. queue \in Seq(Conn)
  <2>1. 1..Len(conn) \subseteq Conn /\ queue \in Seq(1..Len(conn))
    BY <1>1 DEF ServerTypes
  <2> QED BY <2>1
<1>4. DOMAIN conn \subseteq Conn
    BY <1>1 DEF ConnTypes
<1> QED BY <1>1, <1>2, <1>3, <1>4 DEF StreamTypeOK, ConnTypes, ServerTypes,
                                       ClientTypes, WorkerPc, ClientPc

\* The handler has a child to wait for.
LEMMA WaitFollows == StreamInv => WaitNeverBlocks
<1>1. ReapInv => (reaping \/ sigchld => Cardinality(Zombies) >= Signals)
    BY ZombiesFinite DEF ReapInv, Signals
<1> QED BY <1>1 DEF StreamInv, WaitNeverBlocks, Zombies, Signals

\* The rounds of lat_tcp and bw_tcp.
LEMMA RoundsFollow == StreamInv => RoundsCarryMessages
<1> SUFFICES ASSUME StreamInv, NEW c \in Clients
             PROVE  /\ service.mode = "echo" /\ Parts \notin faulty
                         /\ conn[sock[c]].sopen /\ cpc[c] \in {"write", "close"}
                         => /\ conn[sock[c]].up = 0 /\ conn[sock[c]].down = 0
                            /\ conn[sock[c]].got = Size * rounds[c]
                    /\ service.mode = "push" /\ cpc[c] \in {"read", "close"} =>
                         conn[sock[c]].got >= Size * rounds[c]
    BY DEF RoundsCarryMessages
<1>1. cpc[c] \in {"write", "read", "close"} => ClientFlow(c)
    BY DEF StreamInv, RoundInv, Connected
<1>2. ASSUME service.mode = "echo"
      PROVE  /\ Parts \notin faulty /\ conn[sock[c]].sopen
                  /\ cpc[c] \in {"write", "close"}
                  => /\ conn[sock[c]].up = 0 /\ conn[sock[c]].down = 0
                     /\ conn[sock[c]].got = Size * rounds[c]
    BY <1>1, <1>2 DEF ClientFlow, EchoFlow
<1>3. ASSUME service.mode = "push", cpc[c] \in {"read", "close"}
      PROVE  conn[sock[c]].got >= Size * rounds[c]
  <2>1. CASE cpc[c] = "close"
    BY <1>1, <1>3, <2>1 DEF ClientFlow, PushFlow
  <2>2. CASE cpc[c] = "read"
    <3>1. /\ conn[sock[c]].got + todo[c] >= Size * rounds[c] + Size
          /\ todo[c] <= Size
      BY <1>1, <1>3, <2>2 DEF ClientFlow, PushFlow
    <3>2. /\ rounds[c] \in Nat /\ todo[c] \in Nat /\ Size \in Nat
          /\ conn[sock[c]] \in Connection
      BY <2>2, OwnConn, StreamAssumption DEF StreamInv, BaseInv, ClientTypes,
                                              Connected
    <3>3. conn[sock[c]].got \in Nat
      BY <3>2 DEF Connection
    <3>4. Size * rounds[c] \in Nat
      BY <3>2, OneMore
    <3> QED BY <3>1, <3>2, <3>3, <3>4
  <2> QED BY <1>3, <2>1, <2>2
<1> QED BY <1>2, <1>3

-----------------------------------------------------------------------------
(* Both halves, as MCServices runs them.                                   *)

\* The connection half of a run, whichever half is used.
LEMMA StreamHalf == ServicesSpec => []StreamInv
<1>1. ServicesInit => StreamInv
    BY StreamsSafe DEF ServicesInit
<1>2. StreamInv /\ [ServicesNext]_servicesVars => StreamInv'
  <2> SUFFICES ASSUME StreamInv, [ServicesNext]_servicesVars
               PROVE  StreamInv'
    OBVIOUS
  <2>1. [StreamNext]_streamVars
    BY DEF ServicesNext, servicesVars
  <2> QED BY <2>1, StreamsSafe
<1> QED BY <1>1, <1>2, PTL DEF ServicesSpec

\* A connection server goes away only because it was told to, because its
\* hour is over, or because a client died: lat_tcp, before it sent the size
\* of its messages, which doserver() takes for the request; lmhttp, while it
\* waited for its file, where rdwr() exits.
THEOREM GoesOnRequest == ServicesSpec => []StopsOnRequest
<1>1. StreamInv => StopsOnRequest
    BY StopsFollows DEF StreamInv
<1> QED BY <1>1, StreamHalf, PTL

\* sigchld_wait_handler() always finds a child to wait for: SIGCHLDs that
\* are pending and handlers that run are never more than the zombies.
THEOREM HandlerNeverBlocks == ServicesSpec => []WaitNeverBlocks
BY StreamHalf, WaitFollows, PTL

\* lat_tcp starts a round with nothing under way and counts as many
\* messages as it has got, bw_tcp has read what it counts.
THEOREM StreamRounds == ServicesSpec => []RoundsCarryMessages
BY StreamHalf, RoundsFollow, PTL

-----------------------------------------------------------------------------
(* The datagram half.                                                      *)

LEMMA DgramSteps ==
    ASSUME DgramNext
    PROVE  \/ \E c \in Peers : Open(c)
           \/ \E c \in Peers : Send(c)
           \/ \E c \in Peers : Recv(c)
           \/ \E c \in Peers : PortClosed(c)
           \/ \E c \in Peers : Retry(c)
           \/ \E c \in Peers : CallTimesOut(c)
           \/ \E c \in Peers : Alarm(c)
           \/ \E c \in Peers : Finish(c)
           \/ SendStop \/ Lose \/ Echoes \/ Serves \/ TakesOrder \/ SendsOne
BY DEF DgramNext, DgramProgress, PeerStep, DgramServerStep

\* What the record of a program says, and no more.
Known(p) ==
    /\ p.name \in {"lat_udp", "bw_udp", "lat_rpc", "none"}
    /\ p.msize \in Nat /\ p.move \in Nat
    /\ p.name = "lat_rpc" <=> p.matched
    /\ p.timer = "call" => p.name = "lat_rpc"

LEMMA ProgramFacts ==
    ASSUME NEW p \in Programs \cup {NoProgram}
    PROVE  Known(p)
<1>1. Known(LatUdp)
    BY DEF LatUdp, Known
<1>2. Known(LatRpc)
    BY DEF LatRpc, Known
<1>3. Known(BwUdp) /\ Known(Little(BwUdp))
    BY DEF BwUdp, Little, Known
<1>4. Known(BwUdpWhole) /\ Known(Little(BwUdpWhole))
    BY DEF BwUdp, BwUdpWhole, Little, Known
<1>5. Known(NoProgram)
    BY DEF LatUdp, NoProgram, Known
<1>6. p \in {LatUdp, LatRpc, BwUdp, BwUdpWhole, Little(BwUdp),
            Little(BwUdpWhole), NoProgram}
    BY ProgramAssumption
<1> QED BY <1>1, <1>2, <1>3, <1>4, <1>5, <1>6

ServerPc == {"up", "sending", "spinning", "exited", "failed"}
PeerPc == {"init", "send", "recv", "parked", "done", "failed"}

DgramTypes ==
    /\ program \in Programs \cup {NoProgram} /\ server \in ServerPc
    /\ server = "sending" => program.name = "bw_udp"
    /\ mishaps \in [lost : Nat, doubled : Nat]
    /\ ppc \in [Peers -> PeerPc] /\ seq \in [Peers -> Nat]
    /\ sends \in [Peers -> 0..Attempts] /\ DOMAIN answer = Peers
    /\ got \in [Peers -> Nat] /\ owed \in [Peers -> Int]
    /\ called \in [Peers -> 0..Calls]

\* A client that is at work has rounds left, and none yet when it begins.
CallsLeft(c) ==
    /\ ppc[c] \in {"init", "send", "recv"} => called[c] < Calls
    /\ ppc[c] = "init" => got[c] = 0 /\ called[c] = 0

\* The account of bw_udp: what was to be moved and has not come.
Account(c) ==
    program.name = "bw_udp" =>
        /\ ppc[c] \in {"send", "recv", "parked"} \/ called[c] > 0 =>
               owed[c] = program.move - got[c] * program.msize
        /\ called[c] > 0 => owed[c] <= 0

Answered(c) ==
    \/ program.name = "lat_rpc"
    \/ program.name = "lat_udp" /\ mishaps.doubled = 0
    => (ppc[c] \in {"send", "parked", "done"} /\ called[c] > 0 =>
            answer[c] = seq[c] - 1)

\* A question of client c, or an answer for it.
Between(m, c) == (m.to = "server" /\ m.from = c) \/ m.to = c

\* While no datagram comes twice lat_udp has one of them on its way at most,
\* and only while it waits.
Quiet(c) ==
    program.name = "lat_udp" /\ mishaps.doubled = 0 =>
        /\ ppc[c] \in {"init", "send", "parked", "done"} =>
               \A m \in net : ~Between(m, c)
        /\ ppc[c] = "recv" =>
               /\ \A m \in net : Between(m, c) => m.seq = seq[c] - 1
               /\ \A m, n \in net : Between(m, c) /\ Between(n, c) => m = n

PeerOK(c) == CallsLeft(c) /\ Account(c) /\ Answered(c) /\ Quiet(c)

DgramInv == DgramTypes /\ \A c \in Peers : PeerOK(c)

LEMMA DgramInvInit == DgramInit \/ DgramIdle => DgramInv
<1> SUFFICES ASSUME DgramInit \/ DgramIdle
             PROVE  DgramInv
    OBVIOUS
<1>1. /\ 0 \in 0..Calls /\ 0 \in 0..Attempts /\ 0 < Calls
    BY DgramAssumption
<1>2. /\ net = {} /\ mishaps = [lost |-> 0, doubled |-> 0]
      /\ program \in Programs \cup {NoProgram} /\ server \in {"up", "exited"}
      /\ ppc \in [Peers -> {"init", "done"}]
      /\ seq = [c \in Peers |-> 0] /\ sends = [c \in Peers |-> 0]
      /\ answer = [c \in Peers |-> -1] /\ got = [c \in Peers |-> 0]
      /\ owed = [c \in Peers |-> 0] /\ called = [c \in Peers |-> 0]
    BY DEF DgramInit, DgramIdle
<1>3. DgramTypes
    BY <1>1, <1>2 DEF DgramTypes, ServerPc, PeerPc
<1>4. ASSUME NEW c \in Peers
      PROVE  PeerOK(c)
    BY <1>1, <1>2 DEF PeerOK, CallsLeft, Account, Answered, Quiet
<1> QED BY <1>3, <1>4 DEF DgramInv

\* What every step keeps, and that no duplicate is forgotten.
LEMMA DgramFrame ==
    ASSUME DgramTypes, [DgramNext]_dgramVars
    PROVE  /\ program' = program
           /\ mishaps' \in [lost : Nat, doubled : Nat]
           /\ mishaps'.doubled = 0 => mishaps.doubled = 0
<1>1. program' = program
  <2>1. CASE UNCHANGED dgramVars
    BY <2>1 DEF dgramVars
  <2>2. CASE DgramNext
    BY <2>2, DgramSteps DEF Open, Send, Recv, PortClosed, Retry, CallTimesOut,
          Alarm, Finish, SendStop, Lose, Echoes, Serves, TakesOrder, SendsOne
  <2> QED BY <2>1, <2>2
<1>2. \/ mishaps' = mishaps
      \/ mishaps' = [mishaps EXCEPT !.doubled = @ + 1]
      \/ mishaps' = [mishaps EXCEPT !.lost = @ + 1]
  <2>1. CASE UNCHANGED dgramVars
    BY <2>1 DEF dgramVars
  <2>2. CASE DgramNext
    BY <2>2, DgramSteps DEF Open, Send, Recv, PortClosed, Retry, CallTimesOut,
          Alarm, Finish, SendStop, Lose, Echoes, Serves, TakesOrder, SendsOne,
          Takes
  <2> QED BY <2>1, <2>2
<1> QED BY <1>1, <1>2 DEF DgramTypes

\* A client whose variables stay, when the network gets nothing new for it.
LEMMA PeerKept ==
    ASSUME NEW c \in Peers, PeerOK(c), program' = program,
           mishaps'.doubled = 0 => mishaps.doubled = 0,
           ppc'[c] = ppc[c], seq'[c] = seq[c], answer'[c] = answer[c],
           got'[c] = got[c], owed'[c] = owed[c], called'[c] = called[c],
           program.name = "lat_udp" /\ mishaps'.doubled = 0 =>
               \A m \in net' : Between(m, c) => m \in net
    PROVE  PeerOK(c)'
<1>1. CallsLeft(c)' /\ Account(c)' /\ Answered(c)'
    BY DEF PeerOK, CallsLeft, Account, Answered
<1>2. Quiet(c)'
  <2> SUFFICES ASSUME program.name = "lat_udp", mishaps'.doubled = 0
               PROVE  /\ ppc[c] \in {"init", "send", "parked", "done"} =>
                            \A m \in net' : ~Between(m, c)
                      /\ ppc[c] = "recv" =>
                            /\ \A m \in net' :
                                  Between(m, c) => m.seq = seq[c] - 1
                            /\ \A m, n \in net' :
                                  Between(m, c) /\ Between(n, c) => m = n
    BY DEF Quiet, Between
  <2> QED BY DEF PeerOK, Quiet
<1> QED BY <1>1, <1>2 DEF PeerOK

LEMMA DgramTypesStep ==
    ASSUME DgramInv, [DgramNext]_dgramVars
    PROVE  DgramTypes'
<1>1. /\ program' = program
      /\ mishaps' \in [lost : Nat, doubled : Nat] /\ DgramTypes
    BY DgramFrame DEF DgramInv
<1>2. /\ Calls \in Nat \ {0} /\ Attempts \in Nat \ {0}
      /\ program.msize \in Nat /\ program.move \in Nat
    BY <1>1, ProgramFacts, DgramAssumption DEF DgramTypes, Known
<1>3. \A c \in Peers : ppc[c] \in {"init", "send", "recv"} => called[c] < Calls
    BY DEF DgramInv, PeerOK, CallsLeft
<1>4. CASE UNCHANGED dgramVars
    BY <1>1, <1>4 DEF dgramVars, dserverVars, peerVars, DgramTypes
<1>5. ASSUME NEW c \in Peers, Open(c)
      PROVE  DgramTypes'
    BY <1>1, <1>2, <1>5 DEF Open, dserverVars, DgramTypes, PeerPc
<1>6. ASSUME NEW c \in Peers, Send(c)
      PROVE  DgramTypes'
  <2>1. /\ server' = server /\ answer' = answer /\ got' = got /\ owed' = owed
        /\ seq' = [seq EXCEPT ![c] = @ + 1]
        /\ sends' = [sends EXCEPT ![c] = 1] /\ ppc[c] = "send"
    BY <1>6 DEF Send, dserverVars
  <2>2. seq' \in [Peers -> Nat] /\ sends' \in [Peers -> 0..Attempts]
    BY <1>1, <1>2, <2>1 DEF DgramTypes
  <2>3. ppc' \in [Peers -> PeerPc]
    BY <1>1, <1>6 DEF Send, DgramTypes, PeerPc
  <2>4. called' \in [Peers -> 0..Calls]
    <3>1. called[c] + 1 \in 0..Calls
      BY <1>1, <1>2, <1>3, <2>1 DEF DgramTypes
    <3>2. called' = called \/ called' = [called EXCEPT ![c] = @ + 1]
      BY <1>6 DEF Send
    <3> QED BY <1>1, <3>1, <3>2 DEF DgramTypes
  <2> QED BY <1>1, <2>1, <2>2, <2>3, <2>4 DEF DgramTypes
<1>7. ASSUME NEW c \in Peers, Recv(c)
      PROVE  DgramTypes'
  <2>1. /\ server' = server /\ seq' = seq /\ sends' = sends /\ ppc[c] = "recv"
    BY <1>7 DEF Recv, dserverVars
  <2>2. ppc' \in [Peers -> PeerPc] /\ DOMAIN answer' = Peers
    BY <1>1, <1>7 DEF Recv, DgramTypes, PeerPc
  <2>3. got' \in [Peers -> Nat]
    <3>1. got' = got \/ got' = [got EXCEPT ![c] = @ + 1]
      BY <1>7 DEF Recv
    <3> QED BY <1>1, <3>1 DEF DgramTypes
  <2>4. owed' \in [Peers -> Int]
    <3>1. owed' = owed \/ owed' = [owed EXCEPT ![c] = @ - program.msize]
      BY <1>7 DEF Recv
    <3> QED BY <1>1, <1>2, <3>1 DEF DgramTypes
  <2>5. called' \in [Peers -> 0..Calls]
    <3>1. called[c] + 1 \in 0..Calls /\ called[c] \in 0..Calls
      BY <1>1, <1>2, <1>3, <2>1 DEF DgramTypes
    <3>2. \/ called' = called
          \/ \E n \in {called[c], called[c] + 1} :
                called' = [called EXCEPT ![c] = n]
      BY <1>7 DEF Recv
    <3> QED BY <1>1, <3>1, <3>2 DEF DgramTypes
  <2> QED BY <1>1, <2>1, <2>2, <2>3, <2>4, <2>5 DEF DgramTypes
<1>8. ASSUME NEW c \in Peers,
             PortClosed(c) \/ CallTimesOut(c) \/ Alarm(c) \/ Finish(c)
      PROVE  DgramTypes'
  <2>1. /\ server' = server /\ seq' = seq /\ sends' = sends
        /\ answer' = answer /\ got' = got /\ owed' = owed /\ called' = called
        /\ ppc' \in {[ppc EXCEPT ![c] = "failed"], [ppc EXCEPT ![c] = "done"]}
    BY <1>8 DEF PortClosed, CallTimesOut, Alarm, Finish, dserverVars
  <2> QED BY <1>1, <2>1 DEF DgramTypes, PeerPc
<1>9. ASSUME NEW c \in Peers, Retry(c)
      PROVE  DgramTypes'
  <2>1. /\ server' = server /\ seq' = seq /\ ppc' = ppc
        /\ answer' = answer /\ got' = got /\ owed' = owed /\ called' = called
        /\ sends' = [sends EXCEPT ![c] = @ + 1] /\ sends[c] < Attempts
    BY <1>9 DEF Retry, dserverVars
  <2>2. sends' \in [Peers -> 0..Attempts]
    BY <1>1, <1>2, <2>1 DEF DgramTypes
  <2> QED BY <1>1, <2>1, <2>2 DEF DgramTypes
<1>10. CASE SendStop \/ Lose \/ Echoes \/ Serves \/ TakesOrder \/ SendsOne
  <2>1. UNCHANGED peerVars
    BY <1>10 DEF SendStop, Lose, Echoes, Serves, TakesOrder, SendsOne
  <2>2. /\ server' \in ServerPc
        /\ server' = "sending" => program.name = "bw_udp"
    BY <1>1, <1>10 DEF SendStop, Lose, Echoes, Serves, TakesOrder, SendsOne,
                       dserverVars, DgramTypes, ServerPc
  <2> QED BY <1>1, <2>1, <2>2 DEF DgramTypes, peerVars
<1> QED BY <1>4, <1>5, <1>6, <1>7, <1>8, <1>9, <1>10, DgramSteps

\* What a datagram is: its addresses.
LEMMA Addresses ==
    ASSUME NEW c \in Peers
    PROVE  /\ ~Between(StopDgram(stops), c)
           /\ Between(Ask(c), c)
           /\ \A d \in Peers \ {c} : ~Between(Ask(d), c)
           /\ c # "server" /\ c # "stopper"
           /\ \A m \in ToPeer(c) : Between(m, c)
           /\ \A m \in ToServer : \A s :
                 Between(Reply(m, s), c) => Between(m, c)
<1>1. c # "server" /\ c # "stopper"
    BY DgramAssumption
<1>2. \A d \in Peers : d # "server" /\ d # "stopper"
    BY DgramAssumption
<1> QED BY <1>1, <1>2 DEF Between, StopDgram, Ask, Reply, ToPeer, ToServer

LEMMA ServerKeeps ==
    ASSUME DgramInv, NEW c \in Peers,
           SendStop \/ Lose \/ Echoes \/ Serves \/ TakesOrder \/ SendsOne
    PROVE  PeerOK(c)'
<1>1. /\ program' = program /\ DgramTypes /\ PeerOK(c)
      /\ mishaps'.doubled = 0 => mishaps.doubled = 0
      /\ mishaps.doubled \in Nat
    BY DgramFrame DEF DgramInv, DgramTypes, DgramNext, DgramProgress,
                      DgramServerStep
<1>2. /\ ppc' = ppc /\ seq' = seq /\ answer' = answer /\ got' = got
      /\ owed' = owed /\ called' = called
    BY DEF SendStop, Lose, Echoes, Serves, TakesOrder, SendsOne, peerVars
<1>3. CASE \A m \in net' : Between(m, c) => m \in net
    BY <1>1, <1>2, <1>3, PeerKept
<1>4. CASE program.name # "lat_udp"
    BY <1>1, <1>2, <1>4, PeerKept
<1>5. CASE SendStop
    BY <1>3, <1>5, Addresses DEF SendStop
<1>6. CASE Lose
    BY <1>3, <1>6 DEF Lose
<1>7. CASE Serves \/ TakesOrder \/ SendsOne
    BY <1>1, <1>4, <1>7 DEF Serves, TakesOrder, SendsOne, DgramTypes
<1>8. CASE Echoes /\ program.name = "lat_udp"
  <2>1. CallsLeft(c)' /\ Account(c)' /\ Answered(c)'
    BY <1>1, <1>2 DEF PeerOK, CallsLeft, Account, Answered
  <2>2. Quiet(c)'
    <3> SUFFICES ASSUME mishaps'.doubled = 0
                 PROVE  Quiet(c)'
      BY DEF Quiet
    <3>1. mishaps.doubled = 0 /\ Quiet(c)
      BY <1>1 DEF PeerOK
    <3>2. PICK m \in ToServer :
             IF m.seq < 0 THEN net' = net \ {m}
             ELSE Takes(m, {Reply(m, Sequence(m))})
      BY <1>8 DEF Echoes
    <3>3. CASE net' = net \ {m}
      BY <1>1, <1>2, <3>3, PeerKept DEF PeerOK
    <3>4. CASE net' = (net \ {m}) \cup {Reply(m, Sequence(m))}
      <4> DEFINE r == Reply(m, Sequence(m))
      <4>1. r.seq = m.seq /\ m \in net
        BY <3>2 DEF Reply, Sequence, ToServer
      <4>2. Between(r, c) => Between(m, c)
        BY <3>2, Addresses
      <4> HIDE DEF r
      <4>3. net' = (net \ {m}) \cup {r}
        BY <3>4 DEF r
      <4>4. CASE ~Between(r, c)
        <5>1. \A x \in net' : Between(x, c) => x \in net
          BY <4>3, <4>4
        <5> QED BY <1>1, <1>2, <5>1, PeerKept DEF PeerOK
      <4>5. CASE Between(r, c)
        <5>1. ppc[c] \notin {"init", "send", "parked", "done"}
          BY <1>8, <3>1, <4>1, <4>2, <4>5 DEF Quiet
        <5>2. ppc[c] = "recv" =>
                 \A x \in net' : Between(x, c) => x = r
          BY <1>8, <3>1, <4>1, <4>2, <4>3, <4>5 DEF Quiet
        <5>3. ppc[c] = "recv" => r.seq = seq[c] - 1
          BY <1>8, <3>1, <4>1, <4>2, <4>5 DEF Quiet
        <5>4. /\ ppc[c] = "recv" =>
                    \A x \in net' : Between(x, c) => x.seq = seq[c] - 1
              /\ ppc[c] = "recv" =>
                    \A x, y \in net' : Between(x, c) /\ Between(y, c) => x = y
          BY <5>2, <5>3
        <5> QED BY <1>2, <5>1, <5>4 DEF Quiet, Between
      <4> QED BY <4>4, <4>5
    <3>5. mishaps' # [mishaps EXCEPT !.doubled = @ + 1]
      BY <1>1, <3>1 DEF DgramTypes
    <3> QED BY <3>2, <3>3, <3>4, <3>5 DEF Takes
  <2> QED BY <2>1, <2>2 DEF PeerOK
<1> QED BY <1>4, <1>5, <1>6, <1>7, <1>8

\* A step of one client leaves the others alone.
LEMMA OthersKept ==
    ASSUME DgramInv, NEW c \in Peers, NEW d \in Peers, d # c,
           \/ Open(d) \/ Send(d) \/ Recv(d) \/ PortClosed(d) \/ Retry(d)
           \/ CallTimesOut(d) \/ Alarm(d) \/ Finish(d)
    PROVE  PeerOK(c)'
<1>1. /\ program' = program /\ DgramTypes /\ PeerOK(c)
      /\ mishaps'.doubled = 0 => mishaps.doubled = 0
    BY DgramFrame DEF DgramInv, DgramNext, DgramProgress, PeerStep
<1>2. /\ ppc'[c] = ppc[c] /\ seq'[c] = seq[c] /\ answer'[c] = answer[c]
      /\ got'[c] = got[c] /\ owed'[c] = owed[c] /\ called'[c] = called[c]
    BY <1>1 DEF Open, Send, Recv, PortClosed, Retry, CallTimesOut, Alarm,
                Finish, DgramTypes
<1>3. program.name = "lat_udp" =>
          \A m \in net' : Between(m, c) => m \in net
  <2> SUFFICES ASSUME program.name = "lat_udp"
               PROVE  \A m \in net' : Between(m, c) => m \in net
    OBVIOUS
  <2>1. CASE Send(d)
    BY <2>1, Addresses DEF Send
  <2>2. CASE Recv(d)
    BY <2>2 DEF Recv, Takes
  <2>3. CASE Retry(d)
    BY <1>1, <2>3, ProgramFacts DEF Retry, DgramTypes, Known
  <2>4. CASE Open(d) \/ PortClosed(d) \/ CallTimesOut(d) \/ Alarm(d) \/ Finish(d)
    BY <2>4 DEF Open, PortClosed, CallTimesOut, Alarm, Finish
  <2> QED BY <2>1, <2>2, <2>3, <2>4
<1> QED BY <1>1, <1>2, <1>3, PeerKept

LEMMA SendKeeps ==
    ASSUME DgramInv, NEW c \in Peers, Send(c)
    PROVE  PeerOK(c)'
<1>1. /\ program' = program /\ DgramTypes /\ PeerOK(c)
      /\ mishaps' = mishaps /\ answer' = answer /\ got' = got /\ owed' = owed
      /\ ppc[c] = "send" /\ net' = net \cup {Ask(c)}
      /\ seq' = [seq EXCEPT ![c] = @ + 1]
    BY DEF Send, DgramInv
<1>2. /\ Calls \in Nat \ {0} /\ called[c] \in Nat /\ called[c] < Calls
      /\ seq[c] \in Nat /\ seq'[c] = seq[c] + 1 /\ Ask(c).seq = seq[c]
    BY <1>1, DgramAssumption DEF DgramTypes, PeerOK, CallsLeft, Ask
<1>3. CASE program.name = "bw_udp" /\ owed[c] <= 0
  <2>1. /\ called' = [called EXCEPT ![c] = @ + 1]
        /\ ppc' = [ppc EXCEPT ![c] =
                      IF called'[c] = Calls THEN "parked" ELSE "send"]
    BY <1>3 DEF Send
  <2>2. /\ called'[c] = called[c] + 1
        /\ ppc'[c] = IF called'[c] = Calls THEN "parked" ELSE "send"
    BY <1>1, <2>1 DEF DgramTypes
  <2>3. CallsLeft(c)'
    BY <1>2, <2>2 DEF CallsLeft
  <2>4. Account(c)'
    BY <1>1, <1>3 DEF PeerOK, Account
  <2> QED BY <1>1, <1>3, <2>3, <2>4 DEF PeerOK, Answered, Quiet
<1>4. CASE ~(program.name = "bw_udp" /\ owed[c] <= 0)
  <2>1. ppc'[c] = "recv" /\ called' = called
    BY <1>1, <1>4 DEF Send, DgramTypes
  <2>2. CallsLeft(c)' /\ Answered(c)'
    BY <1>2, <2>1 DEF CallsLeft, Answered
  <2>3. Account(c)'
    BY <1>1, <2>1 DEF PeerOK, Account
  <2>4. Quiet(c)'
    <3> SUFFICES ASSUME program.name = "lat_udp", mishaps.doubled = 0
                 PROVE  Quiet(c)'
      BY <1>1 DEF Quiet
    <3>1. \A m \in net : ~Between(m, c)
      BY <1>1 DEF PeerOK, Quiet
    <3>2. \A m \in net' : Between(m, c) => m = Ask(c)
      BY <1>1, <3>1
    <3>3. /\ \A m \in net' : Between(m, c) => m.seq = seq'[c] - 1
          /\ \A m, n \in net' : Between(m, c) /\ Between(n, c) => m = n
      BY <1>2, <3>2
    <3> QED BY <2>1, <3>3 DEF Quiet, Between
  <2> QED BY <2>2, <2>3, <2>4 DEF PeerOK
<1> QED BY <1>3, <1>4

LEMMA OnePart ==
    ASSUME NEW g \in Nat, NEW s \in Nat
    PROVE  g * s \in Nat /\ (g + 1) * s = g * s + s
OBVIOUS

LEMMA RecvKeeps ==
    ASSUME DgramInv, NEW c \in Peers, Recv(c)
    PROVE  PeerOK(c)'
<1>1. /\ program' = program /\ DgramTypes /\ PeerOK(c) /\ ppc[c] = "recv"
      /\ seq' = seq
      /\ mishaps'.doubled = 0 => mishaps.doubled = 0
    BY DgramFrame DEF Recv, DgramInv, DgramNext, DgramProgress, PeerStep
<1>2. /\ Calls \in Nat \ {0} /\ called[c] \in Nat /\ called[c] < Calls
      /\ program.msize \in Nat /\ program.move \in Nat
      /\ program.name = "lat_rpc" <=> program.matched
      /\ got[c] \in Nat /\ owed[c] \in Int /\ seq[c] \in Nat
    BY <1>1, DgramAssumption, ProgramFacts
    DEF DgramTypes, PeerOK, CallsLeft, Known
<1>3. PICK m \in ToPeer(c) :
          /\ Takes(m, {})
          /\ IF Accepts(c, m)
             THEN /\ answer' = [answer EXCEPT ![c] = m.seq]
                  /\ got' = [got EXCEPT ![c] = @ + 1]
                  /\ owed' = [owed EXCEPT ![c] = @ - program.msize]
                  /\ LET over == program.name = "bw_udp" => owed'[c] <= 0
                     IN  /\ called' = [called EXCEPT ![c] =
                                          IF over THEN @ + 1 ELSE @]
                         /\ ppc' = [ppc EXCEPT ![c] =
                                      IF ~over THEN "recv"
                                      ELSE IF called'[c] = Calls THEN "parked"
                                      ELSE "send"]
             ELSE /\ ppc' = [ppc EXCEPT ![c] = IF program.matched THEN "recv"
                                                                 ELSE "failed"]
                  /\ UNCHANGED <<answer, got, owed, called>>
    BY DEF Recv
<1>4. m \in net /\ Between(m, c)
    BY <1>3, Addresses DEF ToPeer
<1>5. program.name = "lat_udp" /\ mishaps'.doubled = 0 =>
          /\ net' = net \ {m} /\ mishaps.doubled = 0
          /\ m.seq = seq[c] - 1 /\ \A n \in net' : ~Between(n, c)
  <2> SUFFICES ASSUME program.name = "lat_udp", mishaps'.doubled = 0
               PROVE  /\ net' = net \ {m} /\ mishaps.doubled = 0
                      /\ m.seq = seq[c] - 1 /\ \A n \in net' : ~Between(n, c)
    OBVIOUS
  <2>1. mishaps' # [mishaps EXCEPT !.doubled = @ + 1]
    BY <1>1 DEF DgramTypes
  <2>2. net' = net \ {m}
    BY <1>3, <2>1 DEF Takes
  <2>3. /\ m.seq = seq[c] - 1
        /\ \A n \in net : Between(n, c) => n = m
    BY <1>1, <1>4 DEF PeerOK, Quiet
  <2> QED BY <1>1, <2>2, <2>3
<1>6. CASE ~Accepts(c, m)
  <2>1. /\ ppc'[c] = IF program.matched THEN "recv" ELSE "failed"
        /\ UNCHANGED <<answer, got, owed, called>>
    BY <1>1, <1>3, <1>6 DEF DgramTypes
  <2>2. program.name # "lat_udp"
    BY <1>2, <1>6 DEF Accepts
  <2>3. CallsLeft(c)' /\ Answered(c)' /\ Quiet(c)'
    BY <1>1, <1>2, <2>1, <2>2 DEF CallsLeft, Answered, Quiet
  <2>4. Account(c)'
    BY <1>1, <2>1 DEF PeerOK, Account
  <2> QED BY <2>3, <2>4 DEF PeerOK
<1>7. CASE Accepts(c, m)
  <2> DEFINE over == program.name = "bw_udp" => owed'[c] <= 0
  <2>1. /\ answer'[c] = m.seq /\ got'[c] = got[c] + 1
        /\ owed'[c] = owed[c] - program.msize
        /\ called'[c] = IF over THEN called[c] + 1 ELSE called[c]
        /\ ppc'[c] = IF ~over THEN "recv"
                     ELSE IF called'[c] = Calls THEN "parked" ELSE "send"
    <3>1. /\ answer' = [answer EXCEPT ![c] = m.seq]
          /\ got' = [got EXCEPT ![c] = @ + 1]
          /\ owed' = [owed EXCEPT ![c] = @ - program.msize]
          /\ called' = [called EXCEPT ![c] = IF over THEN @ + 1 ELSE @]
          /\ ppc' = [ppc EXCEPT ![c] =
                        IF ~over THEN "recv"
                        ELSE IF called'[c] = Calls THEN "parked" ELSE "send"]
      BY <1>3, <1>7
    <3>2. /\ answer'[c] = m.seq /\ got'[c] = got[c] + 1
          /\ owed'[c] = owed[c] - program.msize
      BY <1>1, <3>1 DEF DgramTypes
    <3>3. called'[c] = IF over THEN called[c] + 1 ELSE called[c]
      <4> HIDE DEF over
      <4> QED BY <1>1, <3>1 DEF DgramTypes
    <3>4. ppc'[c] = IF ~over THEN "recv"
                    ELSE IF called'[c] = Calls THEN "parked" ELSE "send"
      <4> HIDE DEF over
      <4> QED BY <1>1, <3>1 DEF DgramTypes
    <3> QED BY <3>2, <3>3, <3>4
  <2>2. CallsLeft(c)'
    BY <1>2, <2>1 DEF CallsLeft
  <2>3. Account(c)'
    <3> SUFFICES ASSUME program.name = "bw_udp"
                 PROVE  /\ owed'[c] = program.move - got'[c] * program.msize
                        /\ called'[c] > 0 => owed'[c] <= 0
      BY <1>1 DEF Account
    <3>1. /\ owed[c] = program.move - got[c] * program.msize
          /\ called[c] > 0 => owed[c] <= 0
      BY <1>1 DEF PeerOK, Account
    <3>2. (got[c] + 1) * program.msize = got[c] * program.msize + program.msize
      BY <1>2, OnePart
    <3>3. got[c] * program.msize \in Nat
      BY <1>2, OnePart
    <3>4. owed'[c] = program.move - got'[c] * program.msize
      BY <1>2, <2>1, <3>1, <3>2, <3>3
    <3>5. called[c] > 0 => owed'[c] <= 0
      BY <1>2, <2>1, <3>1
    <3> QED BY <1>2, <2>1, <3>4, <3>5
  <2>4. Answered(c)'
    <3>1. program.name = "lat_rpc" => m.seq = seq[c] - 1
      BY <1>2, <1>7 DEF Accepts
    <3> QED BY <1>1, <1>5, <2>1, <3>1 DEF Answered
  <2>5. Quiet(c)'
    <3>1. program.name = "lat_udp" => ppc'[c] # "recv"
      BY <2>1
    <3> QED BY <1>1, <1>5, <3>1 DEF Quiet, Between
  <2> QED BY <2>2, <2>3, <2>4, <2>5 DEF PeerOK
<1> QED BY <1>6, <1>7

LEMMA OtherKeeps ==
    ASSUME DgramInv, NEW c \in Peers,
           \/ Open(c) \/ PortClosed(c) \/ Retry(c) \/ CallTimesOut(c)
           \/ Alarm(c) \/ Finish(c)
    PROVE  PeerOK(c)'
<1>1. /\ program' = program /\ DgramTypes /\ PeerOK(c) /\ mishaps' = mishaps
      /\ seq' = seq /\ answer' = answer /\ got' = got /\ called' = called
    BY DEF Open, PortClosed, Retry, CallTimesOut, Alarm, Finish, DgramInv
<1>2. CASE Open(c)
  <2>1. /\ ppc[c] = "init" /\ ppc'[c] \in {"send", "failed"} /\ net' = net
        /\ owed'[c] = program.move /\ got[c] = 0 /\ called[c] = 0
        /\ called[c] < Calls
    BY <1>1, <1>2 DEF Open, DgramTypes, PeerOK, CallsLeft
  <2>2. program.msize \in Nat /\ program.move \in Nat
    BY <1>1, ProgramFacts DEF DgramTypes, Known
  <2>3. CallsLeft(c)' /\ Answered(c)'
    BY <1>1, <2>1 DEF CallsLeft, Answered
  <2>4. Account(c)'
    BY <1>1, <2>1, <2>2 DEF Account
  <2>5. Quiet(c)'
    BY <1>1, <2>1 DEF PeerOK, Quiet, Between
  <2> QED BY <2>3, <2>4, <2>5 DEF PeerOK
<1>3. CASE Retry(c)
  <2>1. program.name = "lat_rpc" /\ ppc' = ppc /\ owed' = owed
    BY <1>1, <1>3, ProgramFacts DEF Retry, DgramTypes, Known
  <2> QED BY <1>1, <2>1 DEF PeerOK, CallsLeft, Account, Answered, Quiet
<1>4. CASE PortClosed(c) \/ CallTimesOut(c) \/ Alarm(c)
  <2>1. ppc'[c] = "failed" /\ owed' = owed
    BY <1>1, <1>4 DEF PortClosed, CallTimesOut, Alarm, DgramTypes
  <2> QED BY <1>1, <2>1 DEF PeerOK, CallsLeft, Account, Answered, Quiet
<1>5. CASE Finish(c)
  <2>1. /\ ppc[c] = "parked" /\ ppc'[c] = "done" /\ owed' = owed /\ net' = net
    BY <1>1, <1>5 DEF Finish, DgramTypes
  <2> QED BY <1>1, <2>1 DEF PeerOK, CallsLeft, Account, Answered, Quiet, Between
<1> QED BY <1>2, <1>3, <1>4, <1>5

LEMMA DgramInvStep == DgramInv /\ [DgramNext]_dgramVars => DgramInv'
<1> SUFFICES ASSUME DgramInv, [DgramNext]_dgramVars
             PROVE  DgramInv'
    OBVIOUS
<1>1. DgramTypes'
    BY DgramTypesStep
<1> SUFFICES ASSUME NEW c \in Peers
             PROVE  PeerOK(c)'
    BY <1>1 DEF DgramInv
<1>2. CASE UNCHANGED dgramVars
    BY <1>2 DEF dgramVars, peerVars, DgramInv, PeerOK, CallsLeft, Account,
                Answered, Quiet, Between
<1>3. CASE SendStop \/ Lose \/ Echoes \/ Serves \/ TakesOrder \/ SendsOne
    BY <1>3, ServerKeeps
<1>4. ASSUME NEW d \in Peers,
             \/ Open(d) \/ Send(d) \/ Recv(d) \/ PortClosed(d) \/ Retry(d)
             \/ CallTimesOut(d) \/ Alarm(d) \/ Finish(d)
      PROVE  PeerOK(c)'
  <2>1. CASE d = c
    BY <1>4, <2>1, SendKeeps, RecvKeeps, OtherKeeps
  <2>2. CASE d # c
    BY <1>4, <2>2, OthersKept
  <2> QED BY <2>1, <2>2
<1> QED BY <1>2, <1>3, <1>4, DgramSteps

LEMMA DgramHalf == ServicesSpec => []DgramInv
<1>1. ServicesInit => DgramInv
    BY DgramInvInit DEF ServicesInit
<1>2. DgramInv /\ [ServicesNext]_servicesVars => DgramInv'
  <2> SUFFICES ASSUME DgramInv, [ServicesNext]_servicesVars
               PROVE  DgramInv'
    OBVIOUS
  <2>1. [DgramNext]_dgramVars
    BY DEF ServicesNext, servicesVars
  <2> QED BY <2>1, DgramInvStep
<1> QED BY <1>1, <1>2, PTL DEF ServicesSpec

LEMMA AnswersFollow == DgramInv => RoundsAreAnswered
<1> SUFFICES ASSUME DgramInv, NEW c \in Peers,
                    ppc[c] \in {"send", "parked", "done"}, called[c] > 0
             PROVE  /\ \/ program.name = "lat_rpc"
                       \/ program.name = "lat_udp" /\ mishaps.doubled = 0
                       => answer[c] = seq[c] - 1
                    /\ program.name = "bw_udp" /\ mishaps.doubled = 0
                       => got[c] * program.msize >= program.move
    BY DEF RoundsAreAnswered
<1>1. Answered(c) /\ Account(c)
    BY DEF DgramInv, PeerOK
<1>2. /\ got[c] \in Nat /\ program.msize \in Nat /\ program.move \in Nat
    BY ProgramFacts DEF DgramInv, DgramTypes, Known
<1>3. got[c] * program.msize \in Nat
    BY <1>2
<1>4. program.name = "bw_udp" => got[c] * program.msize >= program.move
    BY <1>1, <1>2, <1>3 DEF Account
<1> QED BY <1>1, <1>4 DEF Answered

-----------------------------------------------------------------------------
(* Both halves.                                                            *)

\* The variables of both halves have their types: no connection, queue or
\* count runs over its bound.
THEOREM ServicesTypes == ServicesSpec => []ServicesTypeOK
<1>1. DgramInv => DgramTypeOK
    BY DEF DgramInv, DgramTypes, DgramTypeOK, ServerPc, PeerPc
<1> QED BY <1>1, StreamHalf, DgramHalf, TypesFollow, PTL DEF ServicesTypeOK

\* A round that a client counts has had its message: whole over a
\* connection, the answer to its last question over datagrams.
THEOREM RoundsCounted == ServicesSpec => []RoundsHold
BY StreamHalf, DgramHalf, RoundsFollow, AnswersFollow, PTL DEF RoundsHold
=============================================================================
