--------------------------------- MODULE Echo ---------------------------------
(* echoclient.c and echoserveri.c over TCP connections.  The server takes one *)
(* client after the other from the queue of its listening socket; a client    *)
(* sends a line and waits for it to come back.  A step is one system call and *)
(* what its caller does up to the next one.  Users may kill clients.          *)
EXTENDS Rio

CONSTANTS
    Clients,
    Inputs,         \* what a client's standard input may hold
    None            \* no client

(* A byte is a string, NewLine and Zero among them.                           *)
ASSUME EchoAssumption == None \notin Clients /\ Inputs \subseteq Seq(STRING)

VARIABLES
    server,         \* where main and echo of the server are
    serving,        \* the client that echo serves
    rio,            \* of the server's echo
    backlog,        \* connections waiting to be accepted
    client,         \* where main of each client is
    stdin, at,      \* a client's input and how much of it is read
    buf,            \* a client's buf, between two reads into it
    crio,           \* a client's rio
    output,         \* what a client has printed
    conn,           \* a connection, as seen from the server
    toServer, toClient, \* the bytes under way
    echoed,         \* all the server has written to a client
    cut             \* whether a write for this client was short

serverVars == << server, serving, rio >>
clientVars == << client, at, buf, crio, output >>
streamVars == << conn, toServer, toClient >>
vars == << serverVars, backlog, clientVars, stdin, streamVars, echoed, cut >>

Ended(c) == client[c] \in {"done", "failed", "killed"}

-----------------------------------------------------------------------------
(* The client                                                                 *)

Become(c, p) == client' = [client EXCEPT ![c] = p]

(* Open_clientfd: the kernel completes the connection while the server        *)
(* listens.                                                                   *)
Connect(c) ==
    /\ client[c] = "idle"
    /\ \/ /\ server \notin {"starting", "exited"}
          /\ Become(c, "sending")
          /\ conn' = [conn EXCEPT ![c] = "open"]
          /\ backlog' = Append(backlog, c)
       \/ /\ server \in {"starting", "exited"}
          /\ Become(c, "failed")
          /\ UNCHANGED << conn, backlog >>
    /\ UNCHANGED << serverVars, stdin, at, buf, crio, output, toServer, toClient, echoed, cut >>

Rest(c) == Suffix(stdin[c], at[c])

(* What Fgets reads behind i bytes.                                           *)
LineAt(input, i) == Prefix(Suffix(input, i), LineLength(Suffix(input, i), MAXLINE - 1))

(* Mutant: it sends a line before the last one has come back.                 *)
Await_Not(c) == Become(c, "sending")

(* A line is sent; its echo is waited for.                                    *)
Await(c) == Become(c, "reading")

(* Fgets has a line, Rio_writen sends it as far as write takes it.  It is     *)
(* over when the server is gone and the kernel knows.                         *)
SendLine(c) ==
    /\ client[c] = "sending" /\ Rest(c) # << >>
    /\ LET read == LineAt(stdin[c], at[c])
           line == Text(read)
       IN  /\ at' = [at EXCEPT ![c] = @ + Len(read)]
           /\ buf' = [buf EXCEPT ![c] = line]
           /\ \E k \in WriteCounts(Len(line)) :
                 /\ toServer' = IF server = "exited" THEN toServer
                                ELSE [toServer EXCEPT ![c] = @ \o Prefix(line, k)]
                 /\ cut' = [cut EXCEPT ![c] = @ \/ k < Len(line)]
    /\ \/ Await(c)
       \/ server = "exited" /\ Become(c, "failed")
    /\ UNCHANGED << serverVars, backlog, stdin, crio, output, conn, toClient, echoed >>

(* Mutant: the connection is broken off instead of ended.                     *)
Hangup_Abrupt(c) ==
    /\ conn' = [conn EXCEPT ![c] = "reset"]
    /\ toClient' = [toClient EXCEPT ![c] = << >>]

(* The client's end is closed.  A peer that has sent what was not read, or    *)
(* sends more, learns of it by a reset.                                       *)
Hangup(c) ==
    /\ conn' = [conn EXCEPT ![c] = IF toClient[c] # << >> THEN "reset" ELSE "closed"]
    /\ toClient' = [toClient EXCEPT ![c] = << >>]

(* The end of its input: Close and exit.                                      *)
Finish(c) ==
    /\ client[c] = "sending" /\ Rest(c) = << >>
    /\ Become(c, "done")
    /\ Hangup(c)
    /\ UNCHANGED << serverVars, backlog, stdin, at, buf, crio, output, toServer, echoed, cut >>

Fputs(c, line) ==
    /\ output' = [output EXCEPT ![c] = @ \o Text(line)]
    /\ Become(c, "sending")

(* A read of Rio_readlineb; when the line is whole it is printed.             *)
Receive(c) ==
    /\ client[c] = "reading"
    /\ \E k \in ReadCounts(toClient[c]) :
          LET r == Refilled(crio[c], Prefix(toClient[c], k))
          IN  /\ toClient' = [toClient EXCEPT ![c] = Suffix(@, k)]
              /\ crio' = [crio EXCEPT ![c] = IF Whole(r.line) THEN [r EXCEPT !.line = << >>] ELSE r]
              /\ IF Whole(r.line) THEN Fputs(c, r.line) ELSE UNCHANGED << output, client >>
    /\ UNCHANGED << serverVars, backlog, stdin, at, buf, conn, toServer, echoed, cut >>

(* The server is gone.  The read fails, or finds the end of the stream: then  *)
(* what there is of a line is printed, and of none, buf as it was.            *)
ReceiveEnd(c) ==
    /\ client[c] = "reading" /\ server = "exited"
    /\ \/ Become(c, "failed") /\ UNCHANGED << crio, output >>
       \/ /\ toClient[c] = << >>
          /\ Fputs(c, IF crio[c].line = << >> THEN buf[c] ELSE crio[c].line)
          /\ crio' = [crio EXCEPT ![c].line = << >>]
    /\ UNCHANGED << serverVars, backlog, stdin, at, buf, streamVars, echoed, cut >>

(* Its user ends it.                                                          *)
Killed(c) ==
    /\ client[c] \in {"sending", "reading"}
    /\ Become(c, "killed")
    /\ Hangup(c)
    /\ UNCHANGED << serverVars, backlog, stdin, at, buf, crio, output, toServer, echoed, cut >>

ClientStep(c) == Connect(c) \/ SendLine(c) \/ Finish(c) \/ Receive(c) \/ ReceiveEnd(c)

-----------------------------------------------------------------------------
(* The server                                                                 *)

(* Open_listenfd, or its failure, which ends the program.                     *)
Listen ==
    /\ server = "starting"
    /\ server' \in {"accepting", "exited"}
    /\ UNCHANGED << serving, rio, backlog, clientVars, stdin, streamVars, echoed, cut >>

(* echo is entered, and Rio_readinitb empties the buffer.                     *)
Accept ==
    /\ server = "accepting" /\ backlog # << >>
    /\ server' = "reading"
    /\ serving' = Head(backlog)
    /\ backlog' = Tail(backlog)
    /\ rio' = rio_readinitb
    /\ UNCHANGED << clientVars, stdin, streamVars, echoed, cut >>

(* unix_error, gai_error: the program ends.                                   *)
ServerDies == server' = "exited" /\ UNCHANGED << serving, rio >>

(* Accept fails, or Getnameinfo for the connection it took (csapp.c:581-588,  *)
(* 612-620).                                                                  *)
AcceptFails ==
    /\ server = "accepting"
    /\ ServerDies
    /\ \/ UNCHANGED backlog
       \/ backlog # << >> /\ backlog' = Tail(backlog)
    /\ UNCHANGED << clientVars, stdin, streamVars, echoed, cut >>

(* A call of Rio_readlineb has got this far.                                  *)
Reading(r) == rio' = r /\ server' = IF Whole(r.line) THEN "writing" ELSE "reading"

ServerRead ==
    /\ server = "reading"
    /\ \E k \in ReadCounts(toServer[serving]) :
          /\ Reading(Refilled(rio, Prefix(toServer[serving], k)))
          /\ toServer' = [toServer EXCEPT ![serving] = Suffix(@, k)]
    /\ UNCHANGED << serving, backlog, clientVars, stdin, conn, toClient, echoed, cut >>

(* Mutant: echo goes on at the end of the stream.                             *)
AtEnd_GoesOn == server' = "reading" /\ UNCHANGED serving

(* echo has read 0 bytes: it returns, and main closes the connection.         *)
AtEnd == server' = "accepting" /\ serving' = None

(* The end of the stream: a line it cuts short is echoed as it is.            *)
ServerReadEnd ==
    /\ server = "reading" /\ toServer[serving] = << >>
    /\ conn[serving] \in {"closed", "reset"}
    /\ IF rio.line # << >> THEN server' = "writing" /\ UNCHANGED serving ELSE AtEnd
    /\ UNCHANGED << rio, backlog, clientVars, stdin, streamVars, echoed, cut >>

(* A read of a connection that was reset.                                     *)
ServerReadFails ==
    /\ server = "reading" /\ conn[serving] = "reset"
    /\ ServerDies
    /\ UNCHANGED << backlog, clientVars, stdin, streamVars, echoed, cut >>

(* Rio_writen, and the next line.  What is written to a client that has gone  *)
(* makes its host reset the connection; one that is reset already is not      *)
(* written to, see ServerOutlives.                                            *)
ServerWrite ==
    /\ server = "writing" /\ conn[serving] # "reset"
    /\ \E k \in WriteCounts(Len(rio.line)) :
          /\ echoed' = [echoed EXCEPT ![serving] = @ \o Prefix(rio.line, k)]
          /\ cut' = [cut EXCEPT ![serving] = @ \/ k < Len(rio.line)]
          /\ IF conn[serving] = "open"
             THEN /\ toClient' = [toClient EXCEPT ![serving] = @ \o Prefix(rio.line, k)]
                  /\ UNCHANGED conn
             ELSE /\ conn' \in {conn, [conn EXCEPT ![serving] = "reset"]}
                  /\ UNCHANGED toClient
    /\ Reading(NextLine(rio))
    /\ UNCHANGED << serving, backlog, clientVars, stdin, toServer >>

ServerStep ==
    \/ Listen \/ Accept \/ ServerRead \/ ServerReadEnd \/ ServerReadFails \/ ServerWrite

-----------------------------------------------------------------------------

Init ==
    /\ server = "starting" /\ serving = None /\ rio = rio_readinitb /\ backlog = << >>
    /\ client = [c \in Clients |-> "idle"]
    /\ stdin \in [Clients -> Inputs] /\ at = [c \in Clients |-> 0]
    /\ buf = [c \in Clients |-> << >>] /\ crio = [c \in Clients |-> rio_readinitb]
    /\ output = [c \in Clients |-> << >>]
    /\ conn = [c \in Clients |-> "none"]
    /\ toServer = [c \in Clients |-> << >>] /\ toClient = [c \in Clients |-> << >>]
    /\ echoed = [c \in Clients |-> << >>] /\ cut = [c \in Clients |-> FALSE]

Next ==
    \/ ServerStep
    \/ AcceptFails
    \/ \E c \in Clients :
          \/ Connect(c) \/ SendLine(c) \/ Finish(c) \/ Receive(c) \/ ReceiveEnd(c)
          \/ Killed(c)

(* Each program runs; nobody is made to kill a client, and no call of Accept  *)
(* or Getnameinfo to fail.                                                    *)
Spec ==
    /\ Init /\ [][Next]_vars
    /\ WF_vars(ServerStep)
    /\ \A c \in Clients : WF_vars(ClientStep(c))

-----------------------------------------------------------------------------
(* Correctness                                                                *)

TypeOK ==
    /\ server \in {"starting", "accepting", "reading", "writing", "exited"}
    /\ serving \in Clients \cup {None}
    /\ server \in {"reading", "writing"} => serving \in Clients
    /\ client \in [Clients -> {"idle", "sending", "reading", "done", "failed", "killed"}]
    /\ conn \in [Clients -> {"none", "open", "closed", "reset"}]
    /\ Len(rio.line) < MAXLINE /\ Len(rio.buf) <= RIO_BUFSIZE
    /\ \A c \in Clients :
          /\ at[c] \in 0 .. Len(stdin[c])
          /\ Len(crio[c].line) < MAXLINE /\ Len(crio[c].buf) <= RIO_BUFSIZE

(* The part of an input that travels: of every line, what is before a zero;   *)
(* first what is left of it behind i bytes, for every i.                      *)
TravellingFrom(input) ==
    LET from[i \in 0 .. Len(input)] ==
            IF i = Len(input) THEN << >>
            ELSE Text(LineAt(input, i)) \o from[i + Len(LineAt(input, i))]
    IN  from
Travelling(input) == TravellingFrom(input)[0]

(* However the bytes are cut into reads, and wherever lines are longer than   *)
(* the buffers: what a client prints is what the server wrote to it, and what *)
(* the server wrote is its input, byte for byte and in order, all of it when  *)
(* the client ends on its own.  (A client whose server is gone prints its own *)
(* line as if it had come back.)                                              *)
EchoFaithful ==
    \A c \in Clients :
        /\ server # "exited" => IsPrefix(output[c], echoed[c])
        /\ IsPrefix(echoed[c], Travelling(stdin[c]))
        /\ client[c] = "done" /\ server # "exited" => output[c] = Travelling(stdin[c])

(* Client and server wait for each other only when the line they are at is    *)
(* not whole: the input has no newline there (echoclient.c:49), or a write    *)
(* was short and rio_writen did not go on (csapp.c:781).                      *)
StuckOnlyWhenCut ==
    \A c \in Clients :
        /\ client[c] = "reading" /\ toClient[c] = << >>
        /\ serving = c /\ server = "reading" /\ toServer[c] = << >>
        => cut[c] \/ ~Whole(buf[c])

(* The buffers hold what they are made for, and of a client there is never    *)
(* more under way than one line, so no write of either side has to wait for   *)
(* room.                                                                      *)
OneLineUnderWay ==
    /\ TypeOK
    /\ \A c \in Clients :
          Len(toServer[c]) + Len(toClient[c])
              + (IF serving = c THEN Len(rio.buf) + Len(rio.line) ELSE 0) < MAXLINE

(* Once it is in echo, the server ends only over a client that was killed: one *)
(* that ends on its own has read all its echo, so its connection ends in      *)
(* order and cannot take the server down.  And it is an error of a read that  *)
(* ends it, never SIGPIPE: it has one line to write at a time, and a read     *)
(* that is told of the reset comes before the next.  Outside echo it ends     *)
(* where Open_listenfd, Accept or Getnameinfo fail, over no client's doing:   *)
(* serving is None there (echoserveri.c:39-47).                               *)
ServerOutlives ==
    /\ server = "exited" /\ serving # None => client[serving] = "killed"
    /\ server = "writing" => conn[serving] # "reset"

(* Where every line ends and no write is short, all clients come to an end,   *)
(* although only one is served at a time: echo returns to Accept however the  *)
(* client before them ends.                                                   *)
ClientsEnd ==
    /\ \A c \in Clients : stdin[c] = << >> \/ (Last(stdin[c]) = NewLine /\ Zero \notin ToSet(stdin[c]))
    /\ [](\A c \in Clients : ~cut[c])
    => <>(\A c \in Clients : Ended(c))

=============================================================================
