------------------------------ MODULE Streams ------------------------------
(***************************************************************************)
(* The connection-oriented servers of lmbench and their clients: lat_tcp,  *)
(* bw_tcp, lat_connect, lat_unix_connect and lat_http with lmhttp.  A      *)
(* server is started with -s, serves any number of connections and is told *)
(* to go by a last connection (-S).  The first thing a connection brings   *)
(* says what it is: `eof' stands for a connection closed without data.     *)
(* A record per program says what the two sides do with it.                *)
(***************************************************************************)
EXTENDS Integers, Sequences, FiniteSets

CONSTANTS Services,      \* the programs examined, records as below
          Clients,       \* processes running the client side
          Rounds,        \* exchanges (or connections) a client makes
          Size,          \* units in a message; one read may return fewer
          MaxTries,      \* 10 in tcp_connect()
          MaxStreamFaults

ASSUME StreamAssumption ==
    /\ Rounds \in Nat \ {0} /\ Size \in Nat \ {0} /\ MaxTries \in Nat
    /\ MaxStreamFaults \in Nat /\ IsFiniteSet(Clients)

VARIABLES service,       \* the program that runs
          listening,     \* server processes that hold the listening socket
          at,            \* the connection each of them serves itself, or 0
          queue,         \* connections nobody has accepted
          conn,          \* all connections so far
          worker,        \* the child that serves a connection
          sigchld,       \* a SIGCHLD is pending for the server
          reaping,       \* sigchld_wait_handler() is about to wait()
          cpc, sock, tries, rounds, todo,   \* the clients
          stopper,       \* the invocation with -S
          faulty         \* clients that died, and failed fork()s

serverVars == <<listening, at, queue, worker, sigchld, reaping>>
clientVars == <<cpc, sock, tries, rounds, todo>>
streamVars == <<service, serverVars, conn, clientVars, stopper, faulty>>

-----------------------------------------------------------------------------
(* The programs.  forks: a child serves each connection; listeners: how    *)
(* many processes accept; hello, stop: what a client and -S send first;    *)
(* halts: the first messages that end the server; mode: what is exchanged; *)
(* retries: tcp_connect() or unix_connect(); refused: what the client does *)
(* when tcp_connect() returns -1.                                          *)

\* One child per connection echoes messages of the announced size, and
\* takes a connection without data for the request to go.
LatTcp ==
    [name |-> "lat_tcp", forks |-> TRUE, listeners |-> 1,
     hour |-> TRUE, hello |-> "size", stop |-> "eof", halts |-> {"eof"},
     serves |-> {"size"},
     mode |-> "echo", retries |-> TRUE, refused |-> "ignored"]

\* One child per connection sends messages until it cannot; size 0 is the
\* request to go.
BwTcp ==
    [name |-> "bw_tcp", forks |-> TRUE, listeners |-> 1,
     hour |-> TRUE, hello |-> "size", stop |-> "zero", halts |-> {"zero"},
     serves |-> {"size"},
     mode |-> "push", retries |-> TRUE, refused |-> "exit"]

\* The server accepts and closes; any data is the request to go.
LatConnect ==
    [name |-> "lat_connect", forks |-> FALSE, listeners |-> 1,
     hour |-> TRUE, hello |-> "eof", stop |-> "zero", halts |-> {"zero"},
     serves |-> {},
     mode |-> "none", retries |-> TRUE, refused |-> "ignored"]

LatUnixConnect ==
    [name |-> "lat_unix_connect", forks |-> FALSE, listeners |-> 1,
     hour |-> TRUE, hello |-> "eof", stop |-> "zero", halts |-> {"zero"},
     serves |-> {},
     mode |-> "none", retries |-> FALSE, refused |-> "exit"]

\* The client: one connection per file, read to its end.
LatHttp ==
    [name |-> "lat_http", forks |-> FALSE, listeners |-> 1,
     hour |-> FALSE, hello |-> "get", stop |-> "exit", halts |-> {"exit"},
     serves |-> {"get"},
     mode |-> "file", retries |-> TRUE, refused |-> "ignored"]

\* lmhttp -f2: processes that accept on one socket; EXIT ends the one that
\* reads it.
Lmhttp == [LatHttp EXCEPT !.name = "lmhttp", !.listeners = 2]

NoService == [LatTcp EXCEPT !.name = "none", !.listeners = 0]

ASSUME ServiceAssumption ==
    Services \subseteq
        {LatTcp, BwTcp, LatConnect, LatUnixConnect, LatHttp, Lmhttp}

Listener == 1..2
PerRound == {"none", "file"}            \* a connection for every round
MaxConn == Cardinality(Clients) * Rounds + 1
Conn == 1..MaxConn

Fresh(first, closed) ==
    [first |-> first, up |-> 0, down |-> 0, got |-> 0,
     copen |-> ~closed, sopen |-> TRUE]

-----------------------------------------------------------------------------

StreamIdle ==
    /\ service = NoService /\ listening = {} /\ at = [l \in Listener |-> 0]
    /\ queue = <<>> /\ conn = <<>> /\ worker = [i \in Conn |-> "none"]
    /\ sigchld = FALSE /\ reaping = FALSE
    /\ cpc = [c \in Clients |-> "done"] /\ sock = [c \in Clients |-> 0]
    /\ tries = [c \in Clients |-> 0] /\ rounds = [c \in Clients |-> 0]
    /\ todo = [c \in Clients |-> 0] /\ stopper = "done" /\ faulty = {}

StreamInit ==
    /\ service \in Services /\ listening = 1..service.listeners
    /\ at = [l \in Listener |-> 0]
    /\ queue = <<>> /\ conn = <<>> /\ worker = [i \in Conn |-> "none"]
    /\ sigchld = FALSE /\ reaping = FALSE
    /\ cpc = [c \in Clients |-> "connect"] /\ sock = [c \in Clients |-> 0]
    /\ tries = [c \in Clients |-> 0] /\ rounds = [c \in Clients |-> 0]
    /\ todo = [c \in Clients |-> 0] /\ stopper = "connect" /\ faulty = {}

-----------------------------------------------------------------------------
(* The client side.                                                        *)

\* fork() leaves the listening socket open in the children: connect()
\* succeeds as long as one of them lives, though nobody accepts any more.
Alive == {"first", "serve"}
SomeoneHolds(left, work) == left # {} \/ \E i \in Conn : work[i] \in Alive

\* socket() and connect(); whoever closes at once has sent `eof'.
Dial(first, closed) ==
    /\ SomeoneHolds(listening, worker)
    /\ conn' = Append(conn, Fresh(first, closed))
    /\ queue' = Append(queue, Len(conn) + 1)
    /\ UNCHANGED <<service, listening, at, worker, sigchld, reaping, faulty>>

Connect(c) ==
    /\ cpc[c] = "connect"
    /\ Dial("none", FALSE)
    /\ sock' = [sock EXCEPT ![c] = Len(conn) + 1]
    /\ tries' = [tries EXCEPT ![c] = 0]
    /\ cpc' = [cpc EXCEPT ![c] = "hello"]
    /\ UNCHANGED <<rounds, todo, stopper>>

\* Nobody listens.  tcp_connect() tries again, up to MaxTries times in all
\* of the process's life without a success, then returns -1.  A program
\* that does not look runs on with descriptor -1.
Refused(c) ==
    /\ cpc[c] = "connect" /\ ~SomeoneHolds(listening, worker)
    /\ tries' = [tries EXCEPT ![c] = IF tries[c] > MaxTries THEN tries[c]
                                                            ELSE tries[c] + 1]
    /\ cpc' = [cpc EXCEPT ![c] =
                  IF service.retries /\ tries'[c] <= MaxTries THEN "connect"
                  ELSE IF service.refused = "exit" THEN "failed"
                  ELSE "unconnected"]
    /\ UNCHANGED <<service, serverVars, conn, sock, rounds, todo, stopper,
                   faulty>>

\* The client's end is gone.
Hangup(c) == [conn EXCEPT ![sock[c]].copen = FALSE]

\* The first write on a connection, or none: lat_connect just closes.
Hello(c) ==
    /\ cpc[c] = "hello"
    /\ IF service.hello = "eof"
       THEN conn' = Hangup(c) /\ cpc' = [cpc EXCEPT ![c] = "next"]
       ELSE /\ conn' = [conn EXCEPT ![sock[c]].first = service.hello]
            /\ cpc' = [cpc EXCEPT ![c] =
                          IF service.mode = "echo" THEN "write" ELSE "read"]
    /\ todo' = [todo EXCEPT ![c] = Size]
    /\ UNCHANGED <<service, serverVars, sock, tries, rounds, stopper, faulty>>

\* write() of one message by lat_tcp's doclient(), whose result is ignored;
\* a connection the server has closed may kill the writer.
Write(c) ==
    /\ cpc[c] = "write"
    /\ \/ /\ conn[sock[c]].sopen
          /\ conn' = [conn EXCEPT ![sock[c]].up = @ + Size]
          /\ cpc' = [cpc EXCEPT ![c] = "read"]
       \/ /\ ~conn[sock[c]].sopen
          /\ \E fate \in {"read", "failed"} :
                /\ cpc' = [cpc EXCEPT ![c] = fate]
                /\ conn' = IF fate = "failed" THEN Hangup(c) ELSE conn
    /\ UNCHANGED <<service, serverVars, sock, tries, rounds, todo, stopper,
                   faulty>>

AfterRound(c) ==
    IF service.mode \in PerRound \/ rounds'[c] = Rounds THEN "close"
    ELSE IF service.mode = "echo" THEN "write" ELSE "read"

\* A message of lat_tcp that arrives in parts: it happens, and nothing in
\* the two programs expects it.
Parts == [what |-> "parts", when |-> "read"]
InParts(n) ==
    IF service.mode = "echo" /\ n < Size
    THEN /\ Parts \in faulty \/ Cardinality(faulty) < MaxStreamFaults
         /\ faulty' = faulty \cup {Parts}
    ELSE UNCHANGED faulty

\* read() returns n units, of a file as many as there are.  lat_tcp takes
\* whatever it gets for the answer; bw_tcp goes on until the bytes to move
\* have come; lat_http reads to the end of file.
ReadSome(c, n) ==
    /\ service.mode = "file" => n = conn[sock[c]].down
    /\ n \in 1..conn[sock[c]].down /\ n <= Size
    /\ conn' = [conn EXCEPT ![sock[c]].down = @ - n, ![sock[c]].got = @ + n]
    /\ InParts(n)
    /\ LET left == IF n > todo[c] THEN 0 ELSE todo[c] - n
           over == \/ service.mode = "echo"
                   \/ service.mode = "push" /\ left = 0
       IN  /\ todo' = [todo EXCEPT ![c] = IF over THEN Size ELSE left]
           /\ rounds' = [rounds EXCEPT ![c] = IF over THEN @ + 1 ELSE @]
           /\ cpc' = [cpc EXCEPT ![c] = IF over THEN AfterRound(c) ELSE "read"]

\* End of file, or a reset: lat_tcp does not look, bw_tcp exits.
ReadEof(c) ==
    /\ conn[sock[c]].down = 0 /\ ~conn[sock[c]].sopen
    /\ rounds' = [rounds EXCEPT ![c] = IF service.mode = "push" THEN @
                                                                ELSE @ + 1]
    /\ cpc' = [cpc EXCEPT ![c] = IF service.mode = "push" THEN "failed"
                                                          ELSE AfterRound(c)]
    /\ conn' = IF service.mode = "push" THEN Hangup(c) ELSE conn
    /\ UNCHANGED <<todo, faulty>>

Read(c) ==
    /\ cpc[c] = "read"
    /\ (\E n \in 1..Size : ReadSome(c, n)) \/ ReadEof(c)
    /\ UNCHANGED <<service, serverVars, sock, tries, stopper>>

\* Mutant: every close() counts as a round.
CloseCounts(c) ==
    /\ cpc[c] \in {"close", "next"}
    /\ conn' = Hangup(c)
    /\ rounds' = [rounds EXCEPT ![c] = @ + 1]
    /\ cpc' = [cpc EXCEPT ![c] = IF rounds'[c] = Rounds THEN "done"
                                                        ELSE "connect"]
    /\ UNCHANGED <<service, serverVars, sock, tries, todo, stopper, faulty>>

\* close(); lat_connect and lat_http count a round per connection.
Close(c) ==
    /\ cpc[c] \in {"close", "next"}
    /\ conn' = Hangup(c)
    /\ rounds' = [rounds EXCEPT ![c] = IF cpc[c] = "next" THEN @ + 1 ELSE @]
    /\ cpc' = [cpc EXCEPT ![c] = IF rounds'[c] = Rounds THEN "done"
                                                        ELSE "connect"]
    /\ UNCHANGED <<service, serverVars, sock, tries, todo, stopper, faulty>>

\* The client dies: its harness gave up, or a signal.
ClientDies(c) ==
    /\ cpc[c] \notin {"connect", "done", "failed", "unconnected"}
    /\ Cardinality(faulty) < MaxStreamFaults
    /\ faulty' = faulty \cup {[what |-> "client", when |-> cpc[c]]}
    /\ conn' = Hangup(c) /\ cpc' = [cpc EXCEPT ![c] = "failed"]
    /\ UNCHANGED <<service, serverVars, sock, tries, rounds, todo, stopper>>

ClientStep(c) ==
    Connect(c) \/ Refused(c) \/ Hello(c) \/ Write(c) \/ Read(c) \/ Close(c)

\* The program with -S: connect, send the request, close.
Stop ==
    /\ stopper = "connect"
    /\ Dial(service.stop, TRUE)
    /\ stopper' = "done"
    /\ UNCHANGED clientVars

-----------------------------------------------------------------------------
(* The server side.                                                        *)

Waiting(l) == l \in listening /\ at[l] = 0 /\ ~reaping

\* accept() without fork(): the process serves the connection itself.
AcceptInline(l) ==
    /\ Waiting(l) /\ ~service.forks /\ queue # <<>>
    /\ at' = [at EXCEPT ![l] = Head(queue)] /\ queue' = Tail(queue)
    /\ UNCHANGED <<service, listening, conn, worker, sigchld, reaping,
                   clientVars, stopper, faulty>>

\* accept() and fork(); the parent closes its copy of the connection.
AcceptFork(l) ==
    /\ Waiting(l) /\ service.forks /\ queue # <<>>
    /\ worker' = [worker EXCEPT ![Head(queue)] = "first"]
    /\ queue' = Tail(queue)
    /\ UNCHANGED <<service, listening, at, conn, sigchld, reaping, clientVars,
                   stopper, faulty>>

\* fork() fails: the message is printed and the connection kept open, with
\* nobody to serve it.
AcceptForkFails(l) ==
    /\ Waiting(l) /\ service.forks /\ queue # <<>>
    /\ Cardinality(faulty) < MaxStreamFaults
    /\ faulty' = faulty \cup {[what |-> "fork", when |-> "accept"]}
    /\ worker' = [worker EXCEPT ![Head(queue)] = "unserved"]
    /\ queue' = Tail(queue)
    /\ UNCHANGED <<service, listening, at, conn, sigchld, reaping, clientVars,
                   stopper>>

\* What the first read() of connection i brings; it blocks until then.
First(i) == IF conn[i].first = "none" THEN "eof" ELSE conn[i].first
Readable(i) == conn[i].first # "none" \/ ~conn[i].copen

\* What exiting processes leave: left still listen, work is what became of
\* the children.  A connection is closed with its last holder, the queue
\* with the last holder of the listening socket.
Leaving(left, work) ==
    LET shut(i) ==
          \/ ~SomeoneHolds(left, work) /\ \E n \in 1..Len(queue) : queue[n] = i
          \/ \E l \in listening \ left : at[l] = i
          \/ worker[i] \in Alive /\ work[i] \notin Alive
          \/ /\ worker[i] = "unserved" /\ left = {}
             /\ \A w \in Conn : w > i => work[w] \notin Alive
    IN  /\ listening' = left
        /\ at' = [l \in Listener |-> IF l \in left THEN at[l] ELSE 0]
        /\ worker' = work
        /\ queue' = IF SomeoneHolds(left, work) THEN queue ELSE <<>>
        /\ conn' = [i \in DOMAIN conn |->
                      IF shut(i) THEN [conn[i] EXCEPT !.sopen = FALSE]
                                 ELSE conn[i]]

\* The zombies of a server that exits go to init.
Orphans == [w \in Conn |-> IF worker[w] = "zombie" THEN "reaped"
                                                  ELSE worker[w]]

\* Mutant: end of file is not told from a request.
InlineStopsOnEof(l) ==
    /\ l \in listening /\ at[l] # 0 /\ Readable(at[l])
    /\ First(at[l]) \in service.halts \cup {"eof"}
    /\ Leaving(listening \ {l}, worker)
    /\ UNCHANGED <<service, sigchld, reaping, clientVars, stopper, faulty>>

\* A server without children reads the request to go and exits.
InlineStops(l) ==
    /\ l \in listening /\ at[l] # 0 /\ Readable(at[l])
    /\ First(at[l]) \in service.halts
    /\ Leaving(listening \ {l}, worker)
    /\ UNCHANGED <<service, sigchld, reaping, clientVars, stopper, faulty>>

\* It serves the connection (lmhttp: sends the file, unless it cannot be
\* opened) and closes it.
InlineServes(l) ==
    /\ l \in listening /\ at[l] # 0 /\ Readable(at[l])
    /\ First(at[l]) \notin service.halts
    /\ \E sent \in IF First(at[l]) \in service.serves THEN {0, Size} ELSE {0} :
          conn' = [conn EXCEPT ![at[l]].down = sent, ![at[l]].sopen = FALSE]
    /\ at' = [at EXCEPT ![l] = 0]
    /\ UNCHANGED <<service, listening, queue, worker, sigchld, reaping,
                   clientVars, stopper, faulty>>

\* The header is out when the client is found dead: SIGPIPE is ignored and
\* rdwr() subtracts the failures of write() until the count is negative,
\* where it exits.  (A failed header ends the connection alone, and an
\* early write may still succeed: InlineServes.)
InlineWriteFails(l) ==
    /\ l \in listening /\ at[l] # 0 /\ service.mode = "file"
    /\ conn[at[l]].first \in service.serves
    /\ conn[at[l]].sopen /\ ~conn[at[l]].copen
    /\ Leaving(listening \ {l}, worker)
    /\ UNCHANGED <<service, sigchld, reaping, clientVars, stopper, faulty>>

\* exit() of the child that serves connection i: a zombie, and a SIGCHLD
\* for the parent if there is one.  Signals do not queue.
Die(i) ==
    /\ Leaving(listening, [worker EXCEPT ![i] =
                             IF listening = {} THEN "reaped" ELSE "zombie"])
    /\ sigchld' = (listening # {})

\* The child reads the request to go: tcp_done(), kill(getppid(), SIGTERM).
WorkerStops(i) ==
    /\ worker[i] = "first" /\ Readable(i) /\ First(i) \in service.halts
    /\ Leaving({}, [Orphans EXCEPT ![i] = "reaped"])
    /\ sigchld' = FALSE /\ reaping' = FALSE
    /\ UNCHANGED <<service, clientVars, stopper, faulty>>

\* The child reads the size of the messages, or gives up.
WorkerStarts(i) ==
    /\ worker[i] = "first" /\ Readable(i) /\ First(i) \notin service.halts
    /\ IF First(i) \in service.serves
       THEN worker' = [worker EXCEPT ![i] = "serve"]
            /\ UNCHANGED <<listening, at, queue, conn, sigchld>>
       ELSE Die(i)
    /\ UNCHANGED <<service, reaping, clientVars, stopper, faulty>>

\* doserver(): read() of up to a message, write() of a whole one.
Echo(i) ==
    /\ worker[i] = "serve" /\ service.mode = "echo" /\ conn[i].up > 0
    /\ \E n \in 1..Size :
          /\ n <= conn[i].up
          /\ InParts(n)
          /\ conn' = [conn EXCEPT ![i].up = @ - n, ![i].down = @ + Size]
    /\ UNCHANGED <<service, serverVars, clientVars, stopper>>

\* source(): write() until it fails.  One message fills the socket.
Push(i) ==
    /\ worker[i] = "serve" /\ service.mode = "push"
    /\ conn[i].copen /\ conn[i].down = 0
    /\ conn' = [conn EXCEPT ![i].down = @ + Size]
    /\ UNCHANGED <<service, serverVars, clientVars, stopper, faulty>>

\* The client has closed: end of file for lat_tcp, an error for bw_tcp.
WorkerEnds(i) ==
    /\ worker[i] = "serve" /\ ~conn[i].copen
    /\ service.mode = "echo" => conn[i].up = 0
    /\ Die(i)
    /\ UNCHANGED <<service, reaping, clientVars, stopper, faulty>>

\* SIGCHLD is delivered: sigchld_wait_handler() starts.
Deliver ==
    /\ sigchld /\ ~reaping /\ listening # {}
    /\ sigchld' = FALSE /\ reaping' = TRUE
    /\ UNCHANGED <<service, listening, at, queue, conn, worker, clientVars,
                   stopper, faulty>>

\* Mutant: the handler waits for every child it finds.
WaitForAll ==
    /\ reaping
    /\ worker' = [i \in Conn |-> IF worker[i] = "zombie" THEN "reaped"
                                                         ELSE worker[i]]
    /\ reaping' = FALSE
    /\ UNCHANGED <<service, listening, at, queue, conn, sigchld, clientVars,
                   stopper, faulty>>

\* wait(0): one child, however many the signal stands for.
Wait ==
    /\ reaping
    /\ \E i \in Conn : worker[i] = "zombie"
                       /\ worker' = [worker EXCEPT ![i] = "reaped"]
    /\ reaping' = FALSE
    /\ UNCHANGED <<service, listening, at, queue, conn, sigchld, clientVars,
                   stopper, faulty>>

\* GO_AWAY: after an hour the server exits by itself.
GoAway(l) ==
    /\ l \in listening /\ service.hour
    /\ Cardinality(faulty) < MaxStreamFaults
    /\ faulty' = faulty \cup {[what |-> "alarm", when |-> "hour"]}
    /\ Leaving(listening \ {l}, Orphans)
    /\ sigchld' = FALSE /\ reaping' = FALSE
    /\ UNCHANGED <<service, clientVars, stopper>>

ServerStep ==
    \/ \E l \in Listener :
          \/ AcceptInline(l) \/ AcceptFork(l) \/ InlineStops(l)
          \/ InlineServes(l) \/ InlineWriteFails(l)
    \/ Deliver \/ Wait

WorkerStep(i) ==
    i <= Len(conn) /\ (\/ WorkerStops(i) \/ WorkerStarts(i) \/ Echo(i)
                       \/ Push(i) \/ WorkerEnds(i))

StreamProgress ==
    \/ \E c \in Clients : ClientStep(c)
    \/ Stop \/ ServerStep
    \/ \E i \in Conn : WorkerStep(i)

StreamNext ==
    \/ StreamProgress
    \/ \E c \in Clients : ClientDies(c)
    \/ \E l \in Listener : AcceptForkFails(l) \/ GoAway(l)

\* As long as some process can go on, one does; nothing has to fail.  The
\* work is finite, so fairness between the processes is not needed.
StreamFairness == WF_streamVars(StreamProgress)

-----------------------------------------------------------------------------
(* Properties.                                                             *)

StreamTypeOK ==
    /\ service \in Services \cup {NoService} /\ listening \subseteq Listener
    /\ at \in [Listener -> 0..MaxConn] /\ queue \in Seq(Conn)
    /\ DOMAIN conn \subseteq Conn
    /\ worker \in [Conn -> {"none", "first", "serve", "unserved", "zombie",
                            "reaped"}]
    /\ sigchld \in BOOLEAN /\ reaping \in BOOLEAN
    /\ cpc \in [Clients -> {"connect", "hello", "write", "read", "next",
                            "close", "done", "failed", "unconnected"}]
    /\ rounds \in [Clients -> 0..Rounds]

\* The server goes away only because it was told to, or its hour is over.
\* lat_tcp cannot tell a client that died before it sent the message size
\* from the request to go (doserver()), and lmhttp exits when it cannot
\* write to a client that died waiting for its file (rdwr()).
StopsOnRequest ==
    service.listeners > Cardinality(listening) =>
        \/ \E i \in DOMAIN conn : conn[i].first = service.stop
        \/ [what |-> "alarm", when |-> "hour"] \in faulty
        \/ /\ service.name = "lat_tcp"
           /\ [what |-> "client", when |-> "hello"] \in faulty
        \/ /\ service.mode = "file"
           /\ [what |-> "client", when |-> "read"] \in faulty

\* sigchld_wait_handler() runs inside accept(): its wait() finds a child
\* that has died, however signals are merged, and never blocks the server.
WaitNeverBlocks ==
    (reaping \/ sigchld) =>
        Cardinality({i \in Conn : worker[i] = "zombie"})
            >= (IF reaping THEN 1 ELSE 0) + (IF sigchld THEN 1 ELSE 0)

\* What a client reports as n rounds are n rounds.  While the server is
\* there a lat_tcp client starts one with nothing under way and with all the
\* answers it counts, provided messages arrive whole (doserver() answers
\* part of a message with a whole one); bw_tcp counts a message when all its
\* bytes have come.
RoundsCarryMessages ==
    \A c \in Clients : sock[c] # 0 =>
        LET k == conn[sock[c]] IN
        /\ service.mode = "echo" /\ Parts \notin faulty /\ k.sopen
             /\ cpc[c] \in {"write", "close"} =>
             k.up = 0 /\ k.down = 0 /\ k.got = Size * rounds[c]
        /\ service.mode = "push" /\ cpc[c] \in {"read", "close"} =>
             k.got >= Size * rounds[c]

\* Every client comes to an end, whenever the server goes and whatever
\* other clients do, unless a fork() of the server failed.
ClientsEnded ==
    \/ \A c \in Clients : cpc[c] \in {"done", "failed", "unconnected"}
    \/ [what |-> "fork", when |-> "accept"] \in faulty
=============================================================================
