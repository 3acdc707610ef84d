--------------------------------- MODULE Tiny ---------------------------------
(* The web server tiny.c with the CGI program adder.c: it takes one client    *)
(* after the other, reads a request line and headers, and answers with an     *)
(* error page, a file, or what a forked child prints.  Clients may leave, end *)
(* their side of the connection early or keep sending, files may change, and  *)
(* writes may be short.                                                       *)
(*                                                                            *)
(* Streams are sequences of lines and of messages (one per write); Rio has    *)
(* how lines come about from bytes.  A name is a sequence of the parts that   *)
(* the code looks for in it; the part "long" stands for so many bytes that an *)
(* error page about the name does not fit into its buffer.  What the code     *)
(* reads without having set it may be anything.                               *)
EXTENDS Naturals, Sequences, SequencesExt, FiniteSets

CONSTANTS
    Clients,
    Scenarios,      \* what the clients send, line by line
    Uris,           \* the URIs a buffer may turn out to hold
    Names,          \* of files
    FilesAtStart,   \* the file of each name
    FilesLater,     \* for each name, what may come in its place
    MaxMishaps,     \* bound on such changes and on short writes
    Restless,       \* the clients that may leave or shut down early
    None            \* no client, no query

VARIABLES
    phase,          \* where the server is
    conn,           \* the client at the other end of connfd, whose request it is
    rio,            \* the lines in the server's buffer
    buf,            \* what read_requesthdrs has in its line buffer
    request,        \* what doit has parsed for a client
    size,           \* sbuf.st_size
    todo, after,    \* the writes to come, and what follows them
    child,          \* the process forked for a client
    backlog,        \* connections waiting to be accepted
    client,         \* what each client is doing
    script,         \* the lines it sends
    sent,           \* how many of them it has sent
    link,           \* its end of the connection, as the server's host sees it
    served,         \* how the server's end was closed
    inbox, wire,    \* lines and messages under way
    got,            \* the messages a client has received
    written,        \* the messages that were written for it
    files,
    raced,          \* whether its file changed between stat and use
    mishaps         \* how many files changed, or writes were short

serverVars == << phase, conn, rio, buf, request, size, todo, after, child >>
clientVars == << client, sent, got >>
netVars == << link, served, inbox, wire, written >>
fileVars == << files, raced, mishaps >>
vars == << serverVars, backlog, clientVars, script, netVars, fileVars >>

Has(name, part) == part \in ToSet(name)

Line(kind) == [kind |-> kind]
RequestLine(method, uri) == [kind |-> "request", method |-> method, uri |-> uri]
Blank == Line("blank")
Header == Line("header")

(* What the constants range over.  A URI is a path and a query or None; no    *)
(* byte of a file is the mark of memory that nobody set.                      *)
AllQueries == [amp : BOOLEAN, named1 : BOOLEAN, named2 : BOOLEAN, n1 : Nat, n2 : Nat]
AllUris == [path : Seq(STRING), query : {None} \cup AllQueries]
Methods == {"GET", "other", "long"}
AllRequests == [method : Methods, uri : AllUris]
AllLines == {Blank, Header} \cup [kind : {"request"}, method : Methods, uri : AllUris]
AllFiles ==
    [kind : {"none", "file", "other"}, readable : BOOLEAN, executable : BOOLEAN,
     bytes : Seq(STRING \ {"unset"})]

ASSUME TinyAssumption ==
    /\ None \notin Clients /\ None \notin AllRequests
    /\ Restless \subseteq Clients
    /\ Scenarios \subseteq [Clients -> Seq(AllLines)]
    /\ Uris \subseteq AllUris
    /\ \A name \in Names : ~Has(name, "long")
    /\ FilesAtStart \in [Names -> AllFiles]
    /\ FilesLater \in [Names -> SUBSET AllFiles]
    /\ MaxMishaps \in Nat

NoFile == [kind |-> "none", readable |-> FALSE, executable |-> FALSE, bytes |-> << >>]
FileOf(name) == IF name \in Names THEN files[name] ELSE NoFile

-----------------------------------------------------------------------------
(* Parsing                                                                    *)

(* What sscanf may leave in method and uri, of a line or, at the end of the   *)
(* stream, of a buffer nobody wrote.                                          *)
Parses(line) ==
    IF line.kind = "request" THEN {[method |-> line.method, uri |-> line.uri]}
    ELSE IF line.kind = "header" THEN [method : {"other"}, uri : Uris]
    ELSE [method : Methods, uri : Uris]

is_static(uri) == ~Has(uri.path, "cgi-bin")

filename(uri) ==
    IF ~is_static(uri) THEN uri.path
    ELSE IF uri.query # None THEN uri.path \o << "?" >>
    ELSE IF Last(uri.path) = "/" THEN uri.path \o << "home", ".html" >>
    ELSE uri.path

cgiargs(uri) == uri.query

(* The error page about this request overruns body[], and the name of a file  *)
(* that ends in home.html may overrun filename[] before (tiny.c:181-183).     *)
TooLong(r) == r.method = "long" \/ (r.method = "GET" /\ Has(r.uri.path, "long"))

(* For a .png it is filename that is overwritten, and filetype stays unset.   *)
get_filetype(name) ==
    IF Has(name, ".html") THEN [type |-> "text/html", filename |-> name]
    ELSE IF Has(name, ".gif") THEN [type |-> "image/gif", filename |-> name]
    ELSE IF Has(name, ".png") THEN [type |-> "unset", filename |-> << "image/", ".png" >>]
    ELSE IF Has(name, ".jpg") THEN [type |-> "image/jpeg", filename |-> name]
    ELSE IF Has(name, ".mp4") THEN [type |-> "video/mp4", filename |-> name]
    ELSE [type |-> "text/plain", filename |-> name]

-----------------------------------------------------------------------------
(* Responses: what the server writes, one message per write                   *)

clienterror(status) ==
    << << "status", status >>, << "type", "text/html" >>, << "length", status >>,
       << "page", status >> >>

StaticHeader(type, n) == << "header", type, n >>

(* Mutant: the last byte is not read.                                         *)
ReadInto_Short(bytes, n) ==
    [i \in 1 .. n |-> IF i < n /\ i <= Len(bytes) THEN bytes[i] ELSE "unset"]

(* n bytes of memory after rio_readn has read a file into it.                 *)
ReadInto(bytes, n) == [i \in 1 .. n |-> IF i <= Len(bytes) THEN bytes[i] ELSE "unset"]

DynamicHeader == << << "status", "200" >>, << "server", "Tiny" >> >>

(* adder.c on its QUERY_STRING: without an ampersand it follows a null        *)
(* pointer, and so it does if only the first number has a name.  If only the  *)
(* second has one, atoi finds no digit at its start.                          *)
Crashes(query) == query = None \/ ~query.amp \/ (query.named1 /\ ~query.named2)

Answer(query) ==
    << "answer", query.n1 + (IF query.named2 /\ ~query.named1 THEN 0 ELSE query.n2) >>

-----------------------------------------------------------------------------
(* The server                                                                 *)

Mine == request[conn]
MyName == filename(Mine.uri)

(* exit, by an error of a wrapper or by a signal.                             *)
Exit == phase' = "exit" /\ UNCHANGED << todo, after >>

Respond(messages, next) ==
    IF messages = << >> THEN phase' = next /\ UNCHANGED << todo, after >>
    ELSE phase' = "writing" /\ todo' = messages /\ after' = next

(* Open_listenfd, or its failure.                                             *)
Listen ==
    /\ phase = "starting"
    /\ phase' \in {"accept", "exit"}
    /\ UNCHANGED << conn, rio, buf, request, size, todo, after, child, backlog, clientVars,
                    script, netVars, fileVars >>

Accept ==
    /\ phase = "accept" /\ backlog # << >>
    /\ phase' = "request" /\ conn' = Head(backlog) /\ backlog' = Tail(backlog)
    /\ rio' = << >>
    /\ UNCHANGED << buf, request, size, todo, after, child, clientVars, script, netVars, fileVars >>

(* The system has no connection for Accept, no name for Getnameinfo (the      *)
(* connection accepted then ends like those of the backlog), no process for   *)
(* Fork or no memory for Malloc.  The wrappers exit, which closes connfd.     *)
Refused ==
    /\ phase \in {"accept", "fork", "open"}
    /\ Exit /\ conn' = None
    /\ UNCHANGED << rio, buf, request, size, child, backlog, clientVars, script, netVars, fileVars >>

(* rio_read fills an empty buffer with k of the lines that have arrived.      *)
Refills == IF rio # << >> THEN {0} ELSE 1 .. Len(inbox[conn])
Lines(k) == rio \o SubSeq(inbox[conn], 1, k)
ReadLine(k) ==
    /\ rio' = Tail(Lines(k))
    /\ inbox' = [inbox EXCEPT ![conn] = SubSeq(@, k + 1, Len(@))]

(* Rio_readlineb returns 0 and leaves its caller's buffer as it was.          *)
ReadsNothing ==
    /\ rio = << >> /\ inbox[conn] = << >> /\ link[conn] # "open"
    /\ UNCHANGED << rio, inbox >>

(* Mutant: the headers are left unread.                                       *)
Parsed_NoHeaders(r) ==
    /\ request' = [request EXCEPT ![conn] = r]
    /\ buf' = "unset"
    /\ IF r.method = "GET" THEN phase' = "stat" /\ UNCHANGED << todo, after >>
       ELSE Respond(clienterror("501"), "close")

(* The method is looked at before the headers are read.                       *)
Parsed(r) ==
    /\ request' = [request EXCEPT ![conn] = r]
    /\ buf' = "unset"
    /\ IF r.method = "GET" THEN phase' = "headers" /\ UNCHANGED << todo, after >>
       ELSE Respond(clienterror("501"), "close")

ReadRequest ==
    /\ phase = "request"
    /\ \/ \E k \in Refills : ReadLine(k) /\ \E r \in Parses(Head(Lines(k))) : Parsed(r)
       \/ ReadsNothing /\ \E r \in Parses(Line("nothing")) : Parsed(r)
    /\ UNCHANGED << conn, size, child, backlog, clientVars, script, link, served, wire, written,
                    fileVars >>

(* Mutant: the first line is thrown away without being looked at.             *)
HeaderRead_Unseen(line) ==
    /\ buf' = "header"
    /\ phase' = IF line = Blank /\ buf = "header" THEN "stat" ELSE "headers"

HeaderRead(line) ==
    /\ buf' = "header"
    /\ phase' = IF line = Blank THEN "stat" ELSE "headers"

ReadHeader ==
    /\ phase = "headers"
    /\ \E k \in Refills : ReadLine(k) /\ HeaderRead(Head(Lines(k)))
    /\ UNCHANGED << conn, request, size, todo, after, child, backlog, clientVars, script, link,
                    served, wire, written, fileVars >>

(* At the end of the stream the loop of read_requesthdrs never ends, unless   *)
(* its buffer happens to hold an empty line.                                  *)
ReadHeaderEnd ==
    /\ phase = "headers" /\ ReadsNothing
    /\ phase' \in IF buf = "unset" THEN {"stat", "spinning"} ELSE {"spinning"}
    /\ UNCHANGED << conn, buf, request, size, todo, after, child, backlog, clientVars, script,
                    link, served, wire, written, fileVars >>

(* A read of a connection that was reset.                                     *)
ReadFails ==
    /\ phase \in {"request", "headers", "spinning"}
    /\ rio = << >> /\ link[conn] = "reset"
    /\ Exit
    /\ UNCHANGED << conn, rio, buf, request, size, child, backlog, clientVars, script, netVars,
                    fileVars >>

(* Mutant: doit goes on behind an error page.                                 *)
Forbidden_GoesOn(next) == Respond(clienterror("403"), next)

(* The page for a file that may not be read or run; next is where the request *)
(* would have gone.                                                           *)
Forbidden(next) == Respond(clienterror("403"), "close")

(* parse_uri, stat, and what doit makes of them.                              *)
Stat ==
    /\ phase = "stat"
    /\ LET file == FileOf(MyName)
           type == get_filetype(MyName).type
       IN  /\ size' = Len(file.bytes)
           /\ IF file.kind = "none" THEN Respond(clienterror("404"), "close")
              ELSE IF is_static(Mine.uri)
              THEN IF file.kind = "file" /\ file.readable
                   THEN Respond(<< StaticHeader(type, Len(file.bytes)) >>, "open")
                   ELSE Forbidden("open")
              ELSE IF file.kind = "file" /\ file.executable
                   THEN Respond(DynamicHeader, "fork")
                   ELSE Forbidden("fork")
    /\ UNCHANGED << conn, rio, buf, request, child, backlog, clientVars, script, netVars,
                    fileVars >>

(* Mutant: a file that cannot be opened is passed over.                       *)
OpenFails_Returns == Respond(<< >>, "close")

(* unix_error, although the response has begun.                               *)
OpenFails == Exit

(* Open, Rio_readn and Close of the file; the open may be of another name.    *)
Open ==
    /\ phase = "open"
    /\ LET file == FileOf(get_filetype(MyName).filename)
       IN  IF file.kind = "file" /\ file.readable
           THEN Respond(IF size = 0 THEN << >> ELSE << << "body", ReadInto(file.bytes, size) >> >>,
                        "close")
           ELSE OpenFails
    /\ UNCHANGED << conn, rio, buf, request, size, child, backlog, clientVars, script, netVars,
                    fileVars >>

(* A message is written for c.  Its host resets a connection that c has left. *)
Deliver(c, m) ==
    /\ written' = [written EXCEPT ![c] = Append(@, m)]
    /\ IF link[c] \in {"open", "half"}
       THEN wire' = [wire EXCEPT ![c] = Append(@, m)] /\ UNCHANGED link
       ELSE link' \in {link, [link EXCEPT ![c] = "reset"]} /\ UNCHANGED wire

(* What a write hands over; one that is short is not gone on with.  A page    *)
(* that has overrun body[] shares memory with the header lines, so that what  *)
(* it holds, and how long that is, may have changed since.                    *)
Handed(m) ==
    \/ Deliver(conn, m) /\ UNCHANGED mishaps
    \/ mishaps < MaxMishaps /\ Deliver(conn, << "cut", m >>) /\ mishaps' = mishaps + 1
    \/ /\ TooLong(Mine) /\ m[1] \in {"length", "page"}
       /\ Deliver(conn, << "spoilt", m >>) /\ UNCHANGED mishaps

(* Rio_writen.                                                                *)
Write ==
    /\ phase = "writing" /\ link[conn] # "reset"
    /\ Handed(Head(todo))
    /\ todo' = Tail(todo)
    /\ phase' = IF Len(todo) = 1 THEN after ELSE "writing"
    /\ UNCHANGED << conn, rio, buf, request, size, after, child, backlog, clientVars, script,
                    served, inbox, files, raced >>

(* A write to a connection that was reset: SIGPIPE.                           *)
WriteFails ==
    /\ phase = "writing" /\ link[conn] = "reset"
    /\ Exit
    /\ UNCHANGED << conn, rio, buf, request, size, child, backlog, clientVars, script, netVars,
                    fileVars >>

(* What an overrun has destroyed ends the program, when it is used or when a  *)
(* function returns.                                                          *)
Overruns ==
    /\ phase \in {"stat", "writing", "close"} /\ TooLong(Mine)
    /\ Exit
    /\ UNCHANGED << conn, rio, buf, request, size, child, backlog, clientVars, script, netVars,
                    fileVars >>

Fork ==
    /\ phase = "fork"
    /\ phase' = "wait"
    /\ child' = [child EXCEPT ![conn] = "forked"]
    /\ UNCHANGED << conn, rio, buf, request, size, todo, after, backlog, clientVars, script,
                    netVars, fileVars >>

(* Mutant: the server does not wait for its child.                            *)
Wait_NotFor ==
    /\ phase = "wait"
    /\ phase' = "close"
    /\ UNCHANGED << conn, rio, buf, request, size, todo, after, child, backlog, clientVars, script,
                    netVars, fileVars >>

Wait ==
    /\ phase = "wait" /\ child[conn] = "exited"
    /\ phase' = "close"
    /\ child' = [child EXCEPT ![conn] = "none"]
    /\ UNCHANGED << conn, rio, buf, request, size, todo, after, backlog, clientVars, script,
                    netVars, fileVars >>

(* Mutant: the connection stays open.                                         *)
Close_Forgets ==
    /\ phase = "close"
    /\ phase' = "accept" /\ conn' = None
    /\ UNCHANGED << rio, buf, request, size, todo, after, child, backlog, clientVars, script,
                    netVars, fileVars >>

(* Close.  If there are lines the server has not read, the connection is      *)
(* broken off, and what is under way to the client may be lost.               *)
Close ==
    /\ phase = "close"
    /\ phase' = "accept" /\ conn' = None
    /\ served' = [served EXCEPT ![conn] = IF inbox[conn] # << >> THEN "broken" ELSE "end"]
    /\ UNCHANGED << rio, buf, request, size, todo, after, child, backlog, clientVars, script, link,
                    inbox, wire, written, fileVars >>

ServerStep ==
    \/ Listen \/ Accept \/ ReadRequest \/ ReadHeader \/ ReadHeaderEnd \/ ReadFails
    \/ Stat \/ Open \/ Write \/ WriteFails \/ Fork \/ Wait \/ Close

-----------------------------------------------------------------------------
(* The child                                                                  *)

(* Execve, or unix_error in the child.  Its exit writes what the server's log *)
(* had buffered at the fork to its standard output, which is the connection.  *)
Execve(c) ==
    /\ child[c] = "forked"
    /\ LET file == FileOf(filename(request[c].uri))
           runs == file.kind = "file" /\ file.executable
       IN  /\ child' = [child EXCEPT ![c] = IF runs THEN "running" ELSE "exited"]
           /\ \/ UNCHANGED << link, wire, written >>
              \/ ~runs /\ link[c] # "reset" /\ Deliver(c, << "log" >>)
    /\ UNCHANGED << phase, conn, rio, buf, request, size, todo, after, backlog, clientVars, script,
                    served, inbox, fileVars >>

(* The program dies before it prints: by itself, or of the reset connection.  *)
Fails(c) == Crashes(cgiargs(request[c].uri)) \/ link[c] = "reset"

adder(c) ==
    /\ child[c] = "running"
    /\ child' = [child EXCEPT ![c] = "exited"]
    /\ IF Fails(c) THEN UNCHANGED << link, wire, written >>
       ELSE Deliver(c, Answer(cgiargs(request[c].uri)))
    /\ UNCHANGED << phase, conn, rio, buf, request, size, todo, after, backlog, clientVars, script,
                    served, inbox, fileVars >>

ChildStep == \E c \in Clients : Execve(c) \/ adder(c)

-----------------------------------------------------------------------------
(* Clients                                                                    *)

Become(c, what) == client' = [client EXCEPT ![c] = what]

(* Whether the server's end is still there.                                   *)
Attended(c) == served[c] = "no" /\ phase # "exit"

Connect(c) ==
    /\ client[c] = "idle"
    /\ \/ /\ phase \notin {"starting", "exit"}
          /\ Become(c, "active")
          /\ link' = [link EXCEPT ![c] = "open"]
          /\ backlog' = Append(backlog, c)
       \/ /\ phase \in {"starting", "exit"}
          /\ Become(c, "failed") /\ UNCHANGED << link, backlog >>
    /\ UNCHANGED << serverVars, sent, got, script, served, inbox, wire, written, fileVars >>

(* A line for a connection the server has closed makes its host break it off. *)
SendLine(c) ==
    /\ client[c] = "active" /\ sent[c] < Len(script[c]) /\ phase # "exit"
    /\ sent' = [sent EXCEPT ![c] = @ + 1]
    /\ \/ /\ Attended(c)
          /\ inbox' = [inbox EXCEPT ![c] = Append(@, script[c][sent[c] + 1])]
          /\ UNCHANGED served
       \/ /\ ~Attended(c)
          /\ served' = [served EXCEPT ![c] = "broken"]
          /\ UNCHANGED inbox
    /\ UNCHANGED << serverVars, backlog, client, got, script, link, wire, written, fileVars >>

(* It will send no more, and says so.                                         *)
Shutdown(c) ==
    /\ client[c] = "active" /\ Attended(c)
    /\ link[c] = "open" /\ sent[c] = Len(script[c])
    /\ link' = [link EXCEPT ![c] = "half"]
    /\ UNCHANGED << serverVars, backlog, clientVars, script, served, inbox, wire, written,
                    fileVars >>

Receive(c) ==
    /\ client[c] = "active" /\ wire[c] # << >>
    /\ got' = [got EXCEPT ![c] = @ \o wire[c]]
    /\ wire' = [wire EXCEPT ![c] = << >>]
    /\ UNCHANGED << serverVars, backlog, client, sent, script, link, served, inbox, written,
                    fileVars >>

SeeEnd(c) ==
    /\ client[c] = "active" /\ served[c] = "end" /\ wire[c] = << >>
    /\ Become(c, "done")
    /\ UNCHANGED << serverVars, backlog, sent, got, script, netVars, fileVars >>

SeeBreak(c) ==
    /\ client[c] = "active" /\ (served[c] = "broken" \/ (phase = "exit" /\ served[c] = "no"))
    /\ Become(c, "failed")
    /\ UNCHANGED << serverVars, backlog, sent, got, script, netVars, fileVars >>

(* Its user gives up.  Its host may break the connection off, and does if     *)
(* there is something unread.                                                 *)
Leave(c) ==
    /\ client[c] = "active" /\ Attended(c)
    /\ Become(c, "left")
    /\ \E how \in {"reset"} \cup (IF wire[c] = << >> THEN {"closed"} ELSE {}) :
          link' = [link EXCEPT ![c] = how]
    /\ wire' = [wire EXCEPT ![c] = << >>]
    /\ UNCHANGED << serverVars, backlog, sent, got, script, served, inbox, written, fileVars >>

ClientStep(c) == Connect(c) \/ SendLine(c) \/ Receive(c) \/ SeeEnd(c) \/ SeeBreak(c)

-----------------------------------------------------------------------------
(* Files                                                                      *)

(* Someone removes, replaces or truncates a file, or changes its mode.        *)
Change(name) ==
    /\ phase # "exit" /\ mishaps < MaxMishaps
    /\ mishaps' = mishaps + 1
    /\ \E file \in FilesLater[name] \ {files[name]} : files' = [files EXCEPT ![name] = file]
    /\ raced' = [c \in Clients |->
                    \/ raced[c]
                    \/ /\ c = conn /\ phase \in {"writing", "open", "fork", "wait"}
                       /\ name = MyName]
    /\ UNCHANGED << serverVars, backlog, clientVars, script, netVars >>

-----------------------------------------------------------------------------

Init ==
    /\ phase = "starting" /\ conn = None /\ rio = << >> /\ buf = "unset"
    /\ request = [c \in Clients |-> None]
    /\ size = 0 /\ todo = << >> /\ after = "close"
    /\ child = [c \in Clients |-> "none"]
    /\ backlog = << >>
    /\ client = [c \in Clients |-> "idle"]
    /\ script \in Scenarios /\ sent = [c \in Clients |-> 0]
    /\ link = [c \in Clients |-> "none"] /\ served = [c \in Clients |-> "no"]
    /\ inbox = [c \in Clients |-> << >>] /\ wire = [c \in Clients |-> << >>]
    /\ got = [c \in Clients |-> << >>] /\ written = [c \in Clients |-> << >>]
    /\ files = FilesAtStart /\ mishaps = 0
    /\ raced = [c \in Clients |-> FALSE]

Next ==
    \/ ServerStep \/ Refused \/ Overruns
    \/ ChildStep
    \/ \E c \in Clients : ClientStep(c)
    \/ \E c \in Restless : Shutdown(c) \/ Leave(c)
    \/ \E name \in Names : Change(name)

(* The programs run.  Nobody has to shut a connection down, to leave or to    *)
(* change a file, the system has to refuse nothing, and an overrun need not   *)
(* do harm.                                                                   *)
Spec ==
    /\ Init /\ [][Next]_vars
    /\ WF_vars(ServerStep) /\ WF_vars(ChildStep)
    /\ \A c \in Clients : WF_vars(ClientStep(c))

-----------------------------------------------------------------------------
(* Correctness                                                                *)

Messages == {"status", "type", "length", "page", "header", "body", "server", "answer", "log",
             "cut", "spoilt"}

TypeOK ==
    /\ phase \in {"starting", "accept", "request", "headers", "spinning", "stat", "open",
                  "writing", "fork", "wait", "close", "exit"}
    /\ conn \in Clients \cup {None}
    /\ phase \notin {"starting", "accept", "exit"} => conn \in Clients
    /\ phase \in {"headers", "stat", "open", "writing", "fork", "wait"} => request[conn] # None
    /\ phase = "writing" <=> todo # << >> /\ phase # "exit"
    /\ size \in Nat
    /\ \A c \in Clients :
          /\ child[c] \in {"none", "forked", "running", "exited"}
          /\ \A i \in DOMAIN written[c] : written[c][i][1] \in Messages
          /\ \A i \in DOMAIN inbox[c] : inbox[c][i].kind \in {"request", "header", "blank"}

(* While there is a child, its request is the one the server is at, and the   *)
(* connection it prints to is not closed: nobody else is served meanwhile,    *)
(* and the answers of two programs never run into each other.                 *)
ChildrenWaitedFor ==
    /\ TypeOK
    /\ \A c \in Clients : child[c] # "none" =>
          /\ conn = c /\ phase \in {"wait", "exit"}
          /\ served[c] = "no"
          /\ \A other \in Clients \ {c} : child[other] = "none"

(* Messages as they were meant before a short write or an overrun.            *)
Damaged(m) == m[1] \in {"cut", "spoilt"}
Meant(messages) ==
    [i \in DOMAIN messages |-> IF Damaged(messages[i]) THEN messages[i][2] ELSE messages[i]]

(* Whether these are all messages of one response to client c.                *)
IsResponse(c, ms) ==
    \/ \E status \in {"501", "404", "403"} : ms = clienterror(status)
    \/ /\ Len(ms) \in {1, 2} /\ ms[1][1] = "header"
       /\ IF Len(ms) = 1 THEN ms[1][3] = 0 ELSE ms[2][1] = "body" /\ Len(ms[2][2]) = ms[1][3]
    \/ /\ Len(ms) = 3 /\ SubSeq(ms, 1, 2) = DynamicHeader
       /\ ~Crashes(cgiargs(request[c].uri)) /\ ms[3] = Answer(cgiargs(request[c].uri))

(* Whether they begin one.                                                    *)
BeginsResponse(c, ms) ==
    \/ IsResponse(c, ms)
    \/ \E status \in {"501", "404", "403"} : IsPrefix(ms, clienterror(status))
    \/ Len(ms) = 1 /\ ms[1][1] = "header"
    \/ IsPrefix(ms, DynamicHeader)
    \/ ms = Append(DynamicHeader, << "log" >>) /\ raced[c]

(* On every path through doit, with whatever goes wrong on it, in the server  *)
(* or the child, what is written to a client is the beginning of one          *)
(* response, with a body as long as its header says; only the bytes of a      *)
(* single short write are missing from it, and an error page about a name     *)
(* that is too long may hold something else.  Where the CGI program is gone   *)
(* when it is to be run, the server's log may stand in place of its answer.   *)
OneResponse == \A c \in Clients : BeginsResponse(c, Meant(written[c]))

(* All messages of a response, or all that come before a CGI program that     *)
(* died or could not be started any more.                                     *)
Answers(c, ms) ==
    \/ IsResponse(c, ms)
    \/ IsPrefix(DynamicHeader, ms) /\ (Crashes(cgiargs(request[c].uri)) \/ raced[c])

CutShort(c) == \E i \in DOMAIN written[c] : written[c][i][1] = "cut"

(* A client that reads up to the end of the connection has got everything     *)
(* that was written for it, and that was a whole response, down to the last   *)
(* byte, with three exceptions: the CGI program died or could not be started; *)
(* a write was short, as rio_writen does not go on with it (csapp.c:781); the *)
(* request was too long for the error page.  In the last two as well no       *)
(* message is missing: it is the bytes of single messages that are.           *)
DoneMeansAnswered ==
    \A c \in Clients : client[c] = "done" =>
        /\ got[c] = written[c]
        /\ Answers(c, got[c]) \/ CutShort(c) \/ TooLong(request[c])
        /\ Answers(c, Meant(got[c]))

(* Where the header lines of a request end in what a client sends, if at all. *)
BlankAt(lines) == {i \in 2 .. Len(lines) : lines[i] = Blank}

(* A client that stays is not broken off, as long as the server lives, if it  *)
(* sends nothing behind a GET request.                                        *)
BrokenOffOnlyUnread ==
    \A c \in Clients : client[c] = "failed" /\ link[c] # "none" =>
        \/ phase = "exit"
        \/ request[c].method # "GET"
        \/ \E i \in BlankAt(script[c]) : i < Len(script[c])

(* Memory nobody set is sent as a file only if the file changed after stat,   *)
(* or with a .png, when the file that is opened is another one, and shorter.  *)
BodyIsTheFile ==
    \A c \in Clients : \A i \in DOMAIN written[c] :
        LET m == Meant(written[c])[i]
        IN  m[1] = "body" /\ "unset" \in ToSet(m[2]) =>
                raced[c] \/ Has(filename(request[c].uri), ".png")

(* What it takes to lose this server, which serves one client at a time, over *)
(* the request of one client for all: it ends when the client left in the     *)
(* middle of its response, or abruptly; when the file changed between stat    *)
(* and open; with a .png, whose name get_filetype overwrites; over a request  *)
(* that is too long for the error page.  It spins when a client ends its      *)
(* request without an empty line.  A CGI program that dies, and a client that *)
(* leaves in order at another time, do not harm it.  What ends it besides is  *)
(* no client's doing, and leaves no conn: Open_listenfd fails, or the system  *)
(* refuses a connection, a name, a process or memory.                         *)
ServerLostOnly ==
    /\ phase = "exit" /\ conn # None =>
          \/ client[conn] = "left" /\ (written[conn] # << >> \/ link[conn] = "reset")
          \/ raced[conn]
          \/ Has(MyName, ".png")
          \/ TooLong(Mine)
    /\ phase = "spinning" =>
          link[conn] # "open" /\ BlankAt(SubSeq(script[conn], 1, sent[conn])) = {}

Complete(c) == BlankAt(script[c]) # {}

(* If all clients send whole requests, all are served, one after the other,   *)
(* or find the server gone, or one left too early.                            *)
EveryoneEnds ==
    (\A c \in Clients : Complete(c))
    => <>(phase = "spinning" \/ \A c \in Clients : client[c] \in {"done", "failed", "left"})

=============================================================================
