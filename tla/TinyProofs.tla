----------------------------- MODULE TinyProofs -----------------------------
(* The safety of the web server, for all clients, requests and files.         *)
(*                                                                            *)
(* The inductive invariants come in layers, each proved with the help of the  *)
(* ones before: what the variables hold (Types), whose turn it is (Turns),    *)
(* what became of the connections (Links), what the server has read           *)
(* (Streams), what it knows of the file (Races), what it has written          *)
(* (Responses) and what of that has arrived, how well (Deliveries, SpoiltOf). *)
EXTENDS Tiny, SequenceFacts

(* Messages.  Memory that nobody set holds the mark for it in place of bytes. *)
Words == {"200", "501", "404", "403", "Tiny", "text/html", "image/gif", "image/jpeg", "video/mp4",
          "text/plain", "unset"}
Memory == STRING \cup {"unset"}
WholeMessages ==
    ({"status", "type", "length", "page", "server"} \X Words)
    \cup ({"header"} \X Words \X Nat)
    \cup ({"body"} \X Seq(Memory))
    \cup ({"answer"} \X Nat)
    \cup {<< "log" >>}
AllMessages == WholeMessages \cup ({"cut", "spoilt"} \X WholeMessages)

(* The types of all variables, and what control says about them.              *)
Types ==
    /\ rio \in Seq(AllLines)
    /\ buf \in {"unset", "header"}
    /\ request \in [Clients -> {None} \cup AllRequests]
    /\ todo \in Seq(WholeMessages)
    /\ after \in {"close", "open", "fork"}
    /\ child \in [Clients -> {"none", "forked", "running", "exited"}]
    /\ backlog \in Seq(Clients)
    /\ client \in [Clients -> {"idle", "active", "done", "failed", "left"}]
    /\ script \in [Clients -> Seq(AllLines)]
    /\ sent \in [Clients -> Nat]
    /\ link \in [Clients -> {"none", "open", "half", "closed", "reset"}]
    /\ served \in [Clients -> {"no", "end", "broken"}]
    /\ inbox \in [Clients -> Seq(AllLines)]
    /\ wire \in [Clients -> Seq(AllMessages)]
    /\ got \in [Clients -> Seq(AllMessages)]
    /\ written \in [Clients -> Seq(AllMessages)]
    /\ files \in [Names -> AllFiles]
    /\ raced \in [Clients -> BOOLEAN]
    /\ mishaps \in Nat

(* A client is served once: first it is idle or in the backlog, then it is at *)
(* the other end of connfd, then its connection is closed.                    *)
Queued(c) == \E i \in DOMAIN backlog : backlog[i] = c
Untouched(c) ==
    /\ conn # c /\ served[c] = "no" /\ child[c] = "none"
    /\ written[c] = << >> /\ wire[c] = << >> /\ got[c] = << >>
    /\ request[c] = None /\ ~raced[c]

TurnOf(c) ==
    /\ Queued(c) => Untouched(c) /\ client[c] # "idle"
    /\ client[c] = "idle" => Untouched(c) /\ link[c] = "none" /\ sent[c] = 0 /\ inbox[c] = << >>
Serving ==
    /\ phase \in {"starting", "accept"} => conn = None
    /\ conn # None => served[conn] = "no" /\ client[conn] # "idle"
    /\ phase = "wait" => child[conn] # "none"
Turns ==
    /\ \A i, j \in DOMAIN backlog : backlog[i] = backlog[j] => i = j
    /\ \A c \in Clients : TurnOf(c)
    /\ Serving

(* What became of connections.                                                *)
Present(c) == Queued(c) \/ conn = c
LinkOf(c) ==
    /\ client[c] = "active" => link[c] \in {"open", "half"}
    /\ client[c] = "done" => link[c] \in {"open", "half"} /\ served[c] = "end"
    /\ link[c] = "half" => sent[c] = Len(script[c])
    /\ link[c] \in {"closed", "reset"} => client[c] = "left"
    /\ link[c] = "none" => client[c] \in {"idle", "failed"} /\ ~Present(c)
    /\ sent[c] <= Len(script[c])
Links == \A c \in Clients : LinkOf(c)

(* Lines read of what the client at connfd sent are those before the ones in  *)
(* the buffer and under way.                                                  *)
Taken == sent[conn] - Len(inbox[conn]) - Len(rio)
Quiet == rio = << >> /\ inbox[conn] = << >> /\ link[conn] # "open"
BlankIn(c, n) == \E i \in 2 .. n : script[c][i] = Blank
Excused(c) == request[c].method # "GET" \/ \E i \in BlankAt(script[c]) : i < Len(script[c])

Waiting(c) ==
    /\ Len(inbox[c]) = sent[c]
    /\ \A i \in 1 .. sent[c] : inbox[c][i] = script[c][i]
Reading ==
    /\ Taken >= 0
    /\ \A i \in DOMAIN rio : rio[i] = script[conn][Taken + i]
    /\ \A i \in DOMAIN inbox[conn] : inbox[conn][i] = script[conn][Taken + Len(rio) + i]
Requesting ==
    /\ phase = "request" => Taken = 0
    /\ phase = "headers" => (Taken >= 1 \/ Quiet) /\ ~BlankIn(conn, Taken)
    /\ phase = "spinning" => Quiet /\ ~BlankIn(conn, Taken)
    /\ phase \in {"stat", "open", "writing", "fork", "wait", "close"} =>
          request[conn].method # "GET" \/ BlankIn(conn, Taken) \/ Quiet
Ended(c) ==
    /\ served[c] = "broken" => Excused(c)
    /\ served[c] = "end" => request[c].method # "GET" \/ BlankIn(c, sent[c]) \/ link[c] # "open"
Streams ==
    /\ \A c \in Clients : (Queued(c) \/ client[c] = "idle" => Waiting(c)) /\ Ended(c)
    /\ conn # None => Reading /\ Requesting

(* The file is what stat saw, unless it changed, and nothing is written before *)
(* that.                                                                      *)
ToOpen == phase = "open" \/ (phase = "writing" /\ after = "open")
ToRun == phase = "fork" \/ (phase = "writing" /\ after = "fork")
            \/ (phase = "wait" /\ child[conn] = "forked")
Png(c) == Has(filename(request[c].uri), ".png")
Unset(m) == m[1] = "body" /\ "unset" \in ToSet(m[2])
Spoken(c) == Meant(written[c])
AsStatted == LET file == FileOf(MyName)
             IN  file.kind = "file" /\ file.readable /\ size = Len(file.bytes)
Runs == FileOf(MyName).kind = "file" /\ FileOf(MyName).executable
Races ==
    /\ phase \in {"request", "headers", "spinning", "stat"} => written[conn] = << >>
    /\ ToOpen /\ ~raced[conn] => AsStatted
    /\ ToRun /\ ~raced[conn] => Runs
    /\ phase = "writing" =>
          \A i \in DOMAIN todo : Unset(todo[i]) => raced[conn] \/ Png(conn)

(* The response to a client, as far as it has got.                            *)
IsPage(ms) == \E status \in {"501", "404", "403"} : ms = clienterror(status)
IsFile(ms) ==
    /\ Len(ms) \in {1, 2} /\ ms[1][1] = "header"
    /\ IF Len(ms) = 1 THEN ms[1][3] = 0
       ELSE ms[2][1] = "body" /\ Len(ms[2][2]) = ms[1][3]
IsHeader(ms) == Len(ms) = 1 /\ ms[1][1] = "header" /\ ms[1][3] = size
Planned(next, ms) ==
    IF next = "open" THEN IsHeader(ms)
    ELSE IF next = "fork" THEN ms = DynamicHeader
    ELSE IsPage(ms) \/ IsFile(ms)
Query(c) == cgiargs(request[c].uri)
Finished(c) ==
    \/ IsResponse(c, Spoken(c))
    \/ IsPrefix(DynamicHeader, Spoken(c)) /\ (Crashes(Query(c)) \/ raced[c])
    \/ link[c] = "reset"

(* The server is on the way to a whole response, and has left nobody without. *)
Progress ==
    /\ phase = "writing" => Planned(after, Spoken(conn) \o todo)
    /\ phase \in {"open", "fork"} => Planned(phase, Spoken(conn))
    /\ phase = "close" => Finished(conn)
Settled(c) ==
    /\ child[c] \in {"forked", "running"} => Spoken(c) = DynamicHeader
    /\ child[c] = "exited" \/ served[c] # "no" => Finished(c)
Responses == Progress /\ \A c \in Clients : Settled(c)

(* What a client that stays has got and what is under way to it is all that   *)
(* was written for it.                                                        *)
Delivery(c) ==
    /\ link[c] \in {"none", "open", "half"} => got[c] \o wire[c] = written[c]
    /\ client[c] = "done" => wire[c] = << >>
Deliveries == \A c \in Clients : Delivery(c)

-----------------------------------------------------------------------------
(* Types                                                                      *)

(* What ReadRequest parses is a request, whatever line or unset buffer sscanf *)
(* was given.                                                                 *)
LEMMA NewRequest ==
    ASSUME NEW line \in AllLines \cup {Line("nothing")}, NEW r \in Parses(line)
    PROVE  r \in AllRequests /\ r # None
<1>1. r \in AllRequests
  BY TinyAssumption DEF Parses, AllLines, AllRequests, Methods, Blank, Header, Line
<1> QED
  BY <1>1, TinyAssumption

(* Reading a line yields a line, and leaves lines in the buffer and under     *)
(* way.                                                                       *)
LEMMA LineRead ==
    ASSUME Types, conn \in Clients, NEW k \in Refills, ReadLine(k)
    PROVE  /\ Head(Lines(k)) \in AllLines
           /\ rio' \in Seq(AllLines)
           /\ inbox' \in [Clients -> Seq(AllLines)]
<1> DEFINE s == inbox[conn]
<1>1. rio \in Seq(AllLines) /\ s \in Seq(AllLines)
  BY DEF Types
<1>2. /\ k \in 0 .. Len(s)
      /\ rio = << >> => k >= 1
  BY <1>1 DEF Refills
<1>3. SubSeq(s, 1, k) \in Seq(AllLines) /\ Len(SubSeq(s, 1, k)) = k
  BY <1>1, <1>2
<1>4. SubSeq(s, k + 1, Len(s)) \in Seq(AllLines)
  BY <1>1, <1>2
<1>5. Lines(k) \in Seq(AllLines) /\ Lines(k) # << >>
  BY <1>1, <1>2, <1>3 DEF Lines
<1>6. Head(Lines(k)) \in AllLines /\ Tail(Lines(k)) \in Seq(AllLines)
  BY <1>5
<1> QED
  BY <1>4, <1>6 DEF ReadLine, Types

(* A client's request, the messages handed over, and what doit plans next.    *)
LEMMA RespondTypes ==
    ASSUME Types, TypeOK, NEW ms \in Seq(WholeMessages), NEW next \in {"close", "open", "fork"},
           Respond(ms, next)
    PROVE  /\ todo' \in Seq(WholeMessages) /\ after' \in {"close", "open", "fork"}
           /\ phase' \in {next, "writing"}
           /\ ms # << >> => phase' = "writing" /\ todo' = ms /\ after' = next
           /\ ms = << >> => phase' = next /\ todo' = todo
  BY DEF Types, Respond

(* An error page is made of messages.                                         *)
LEMMA PageType ==
    ASSUME NEW status \in {"501", "404", "403"}
    PROVE  clienterror(status) \in Seq(WholeMessages) /\ clienterror(status) # << >>
<1>1. /\ << "status", status >> \in WholeMessages
      /\ << "type", "text/html" >> \in WholeMessages
      /\ << "length", status >> \in WholeMessages
      /\ << "page", status >> \in WholeMessages
  BY DEF WholeMessages, Words
<1> QED
  BY <1>1 DEF clienterror

(* So is what serve_dynamic writes before it forks.                           *)
LEMMA DynamicHeaderType == DynamicHeader \in Seq(WholeMessages) /\ DynamicHeader # << >>
<1>1. << "status", "200" >> \in WholeMessages /\ << "server", "Tiny" >> \in WholeMessages
  BY DEF WholeMessages, Words
<1> QED
  BY <1>1 DEF DynamicHeader

(* And the header of a file, whatever get_filetype found.                     *)
LEMMA StaticHeaderType ==
    ASSUME NEW name, NEW n \in Nat
    PROVE  /\ << StaticHeader(get_filetype(name).type, n) >> \in Seq(WholeMessages)
           /\ << StaticHeader(get_filetype(name).type, n) >> # << >>
<1>1. get_filetype(name).type \in Words
  BY DEF get_filetype, Words
<1>2. StaticHeader(get_filetype(name).type, n) \in WholeMessages
  BY <1>1 DEF StaticHeader, WholeMessages
<1> QED
  BY <1>2

(* What serve_static writes from memory of n bytes is a body of n bytes.      *)
LEMMA BodyType ==
    ASSUME NEW bytes \in Seq(Memory), NEW n \in Nat
    PROVE  /\ ReadInto(bytes, n) \in Seq(Memory) /\ Len(ReadInto(bytes, n)) = n
           /\ << << "body", ReadInto(bytes, n) >> >> \in Seq(WholeMessages)
<1>1. ReadInto(bytes, n) \in [1 .. n -> Memory]
  BY DEF ReadInto, Memory
<1>2. ReadInto(bytes, n) \in Seq(Memory) /\ Len(ReadInto(bytes, n)) = n
  BY <1>1
<1>3. << "body", ReadInto(bytes, n) >> \in WholeMessages
  BY <1>2 DEF WholeMessages
<1> QED
  BY <1>2, <1>3

(* A message that is written keeps the streams and links of their types.      *)
LEMMA DeliverTypes ==
    ASSUME Types, NEW c \in Clients, NEW m \in AllMessages, Deliver(c, m)
    PROVE  /\ written' \in [Clients -> Seq(AllMessages)]
           /\ wire' \in [Clients -> Seq(AllMessages)]
           /\ link' \in [Clients -> {"none", "open", "half", "closed", "reset"}]
<1>1. Append(written[c], m) \in Seq(AllMessages) /\ Append(wire[c], m) \in Seq(AllMessages)
  BY DEF Types
<1> QED
  BY <1>1 DEF Deliver, Types

(* What adder prints is a message.                                            *)
LEMMA AnswerType ==
    ASSUME NEW q \in AllQueries
    PROVE  Answer(q) \in WholeMessages
  BY DEF Answer, AllQueries, WholeMessages

(* Every name, of a file or not, has a file record with bytes to count.       *)
LEMMA FileType ==
    ASSUME Types, NEW name
    PROVE  FileOf(name) \in AllFiles /\ FileOf(name).bytes \in Seq(Memory)
                                     /\ Len(FileOf(name).bytes) \in Nat
<1>1. NoFile \in AllFiles
  BY DEF NoFile, AllFiles
<1>2. FileOf(name) \in AllFiles
  BY <1>1 DEF FileOf, Types
<1> QED
  BY <1>2 DEF AllFiles, Memory

(* The part of TypeOK that Types does not say again, and when there is a      *)
(* child.                                                                     *)
Control ==
    /\ phase \in {"starting", "accept", "request", "headers", "spinning", "stat", "open",
                  "writing", "fork", "wait", "close", "exit"}
    /\ conn \in Clients \cup {None}
    /\ phase \notin {"starting", "accept", "exit"} => conn \in Clients
    /\ phase \in {"headers", "stat", "open", "writing", "fork", "wait"} => request[conn] # None
    /\ phase = "writing" <=> todo # << >> /\ phase # "exit"
    /\ size \in Nat
    /\ \A c \in Clients : child[c] # "none" => conn = c /\ phase = "wait"

(* TypeOK is Types and Control: the messages and lines of Types are of the    *)
(* kinds that TypeOK allows.                                                  *)
LEMMA TypesMakeTypeOK == Types /\ Control => TypeOK
<1> SUFFICES ASSUME Types, Control PROVE TypeOK
  OBVIOUS
<1>1. ASSUME NEW c \in Clients, NEW i \in DOMAIN written[c]
      PROVE  written[c][i][1] \in Messages
  <2>1. written[c][i] \in AllMessages
    BY DEF Types
  <2> QED
    BY <2>1 DEF AllMessages, WholeMessages, Messages
<1>2. ASSUME NEW c \in Clients, NEW i \in DOMAIN inbox[c]
      PROVE  inbox[c][i].kind \in {"request", "header", "blank"}
  <2>1. inbox[c][i] \in AllLines
    BY DEF Types
  <2> QED
    BY <2>1 DEF AllLines, Blank, Header, Line
<1> QED
  BY <1>1, <1>2 DEF Types, TypeOK, Control

(* The types hold at the start.                                               *)
LEMMA TypesInit == Init => Types /\ Control
<1> SUFFICES ASSUME Init PROVE Types /\ Control
  OBVIOUS
<1>1. script \in [Clients -> Seq(AllLines)]
  BY TinyAssumption DEF Init
<1> QED
  BY <1>1, TinyAssumption DEF Init, Types, Control

(* The steps of the server keep the types.                                    *)
LEMMA ServerKeepsTypes ==
    ASSUME Types, Control, ServerStep
    PROVE  Types' /\ Control'
<1> TypeOK
  BY TypesMakeTypeOK
<1>1. CASE Listen
  BY <1>1 DEF Listen, Types, Control, clientVars, netVars, fileVars
<1>2. CASE Accept
  <2>1. Head(backlog) \in Clients /\ Tail(backlog) \in Seq(Clients)
        /\ << >> \in Seq(AllLines)
    BY <1>2 DEF Accept, Types
  <2>2. Types'
    BY <1>2, <2>1 DEF Accept, Types, clientVars, netVars, fileVars
  <2>3. Control'
    BY <1>2, <2>1 DEF Accept, Types, Control
  <2> QED
    BY <2>2, <2>3
<1>3. CASE ReadRequest
  <2>0. phase = "request" /\ conn \in Clients
    BY <1>3 DEF ReadRequest, Control
  <2>1. ASSUME NEW line \in AllLines \cup {Line("nothing")}, NEW r \in Parses(line), Parsed(r)
        PROVE  /\ request' \in [Clients -> {None} \cup AllRequests] /\ buf' = "unset"
               /\ todo' \in Seq(WholeMessages) /\ after' \in {"close", "open", "fork"}
               /\ phase' \in {"headers", "writing"} /\ request'[conn] # None
               /\ phase' = "writing" <=> todo' # << >>
    <3>1. r \in AllRequests /\ r # None
      BY <2>1, NewRequest
    <3>2. request' \in [Clients -> {None} \cup AllRequests] /\ request'[conn] # None
      BY <2>0, <2>1, <3>1 DEF Parsed, Types
    <3>3. CASE r.method = "GET"
      BY <2>0, <2>1, <3>2, <3>3 DEF Parsed, Types, Control
    <3>4. CASE r.method # "GET"
      <4>1. Respond(clienterror("501"), "close")
        BY <2>1, <3>4 DEF Parsed
      <4> QED
        BY <2>1, <3>2, <4>1, PageType, RespondTypes DEF Parsed
    <3> QED
      BY <3>3, <3>4
  <2>2. /\ rio' \in Seq(AllLines) /\ inbox' \in [Clients -> Seq(AllLines)]
        /\ \E line \in AllLines \cup {Line("nothing")} : \E r \in Parses(line) : Parsed(r)
    <3>1. CASE \E k \in Refills : ReadLine(k) /\ \E r \in Parses(Head(Lines(k))) : Parsed(r)
      BY <2>0, <3>1, LineRead
    <3>2. CASE ReadsNothing /\ \E r \in Parses(Line("nothing")) : Parsed(r)
      BY <3>2 DEF ReadsNothing, Types
    <3> QED
      BY <1>3, <3>1, <3>2 DEF ReadRequest
  <2> QED
    BY <1>3, <2>0, <2>1, <2>2 DEF ReadRequest, Types, Control, clientVars, fileVars
<1>4. CASE ReadHeader
  <2>1. /\ rio' \in Seq(AllLines) /\ inbox' \in [Clients -> Seq(AllLines)]
        /\ buf' = "header" /\ phase' \in {"stat", "headers"}
    BY <1>4, LineRead DEF ReadHeader, HeaderRead, Control
  <2> QED
    BY <1>4, <2>1 DEF ReadHeader, Types, Control, clientVars, fileVars
<1>5. CASE ReadHeaderEnd
  BY <1>5 DEF ReadHeaderEnd, ReadsNothing, Types, Control, clientVars, fileVars
<1>6. CASE ReadFails
  BY <1>6 DEF ReadFails, Exit, Types, Control, clientVars, netVars, fileVars
<1>7. CASE Stat
  <2> DEFINE file == FileOf(MyName)
  <2>1. file \in AllFiles /\ Len(file.bytes) \in Nat
    BY FileType
  <2>2. \E ms \in Seq(WholeMessages) \ {<< >>}, next \in {"close", "open", "fork"} :
            Respond(ms, next)
    BY <1>7, <2>1, PageType, StaticHeaderType, DynamicHeaderType DEF Stat, Forbidden
  <2>3. /\ todo' \in Seq(WholeMessages) /\ after' \in {"close", "open", "fork"}
        /\ phase' = "writing" /\ todo' # << >>
    BY <2>2, RespondTypes
  <2> QED
    BY <1>7, <2>1, <2>3 DEF Stat, Types, Control, clientVars, netVars, fileVars
<1>8. CASE Open
  <2> DEFINE file == FileOf(get_filetype(MyName).filename)
  <2>1. CASE file.kind = "file" /\ file.readable
    <3> DEFINE ms == IF size = 0 THEN << >> ELSE << << "body", ReadInto(file.bytes, size) >> >>
    <3>1. ms \in Seq(WholeMessages)
      BY FileType, BodyType DEF Control
    <3>2. Respond(ms, "close")
      BY <1>8, <2>1 DEF Open
    <3> HIDE DEF ms
    <3>3. /\ todo' \in Seq(WholeMessages) /\ after' \in {"close", "open", "fork"}
          /\ phase' \in {"close", "writing"}
          /\ phase' = "writing" <=> todo' # << >>
      BY <1>8, <3>1, <3>2, RespondTypes DEF Open, Control
    <3> QED
      BY <1>8, <3>3 DEF Open, Types, Control, clientVars, netVars, fileVars
  <2>2. CASE ~(file.kind = "file" /\ file.readable)
    BY <1>8, <2>2 DEF Open, OpenFails, Exit, Types, Control, clientVars, netVars, fileVars
  <2> QED
    BY <2>1, <2>2
<1>9. CASE Write
  <2>0. conn \in Clients /\ todo # << >>
    BY <1>9 DEF Write, Control
  <2>1. Head(todo) \in WholeMessages /\ Tail(todo) \in Seq(WholeMessages)
        /\ (Len(todo) = 1 <=> Tail(todo) = << >>)
    BY <2>0, FirstTaken DEF Types
  <2>2. /\ Head(todo) \in AllMessages /\ << "cut", Head(todo) >> \in AllMessages
        /\ << "spoilt", Head(todo) >> \in AllMessages
    BY <2>1 DEF AllMessages
  <2>3. /\ mishaps' \in Nat
        /\ \E m \in AllMessages : Deliver(conn, m)
    BY <1>9, <2>2 DEF Write, Handed, Types
  <2>4. /\ written' \in [Clients -> Seq(AllMessages)]
        /\ wire' \in [Clients -> Seq(AllMessages)]
        /\ link' \in [Clients -> {"none", "open", "half", "closed", "reset"}]
    BY <2>0, <2>3, DeliverTypes
  <2> QED
    BY <1>9, <2>0, <2>1, <2>3, <2>4 DEF Write, Types, Control, clientVars
<1>10. CASE WriteFails
  BY <1>10 DEF WriteFails, Exit, Types, Control, clientVars, netVars, fileVars
<1>11. CASE Fork
  BY <1>11 DEF Fork, Types, Control, clientVars, netVars, fileVars
<1>12. CASE Wait
  BY <1>12 DEF Wait, Types, Control, clientVars, netVars, fileVars
<1>13. CASE Close
  BY <1>13 DEF Close, Types, Control, clientVars, fileVars
<1> QED
  BY <1>1, <1>2, <1>3, <1>4, <1>5, <1>6, <1>7, <1>8, <1>9, <1>10, <1>11, <1>12, <1>13
     DEF ServerStep

(* So do the steps of the children.                                           *)
LEMMA ChildrenKeepTypes ==
    ASSUME Types, Control, NEW c \in Clients, Execve(c) \/ adder(c)
    PROVE  Types' /\ Control'
<1>1. CASE Execve(c)
  <2>1. << "log" >> \in AllMessages
    BY DEF AllMessages, WholeMessages
  <2>2. /\ written' \in [Clients -> Seq(AllMessages)]
        /\ wire' \in [Clients -> Seq(AllMessages)]
        /\ link' \in [Clients -> {"none", "open", "half", "closed", "reset"}]
    BY <1>1, <2>1, DeliverTypes DEF Execve, Types
  <2> QED
    BY <1>1, <2>2 DEF Execve, Types, Control, clientVars, fileVars
<1>2. CASE adder(c)
  <2> DEFINE q == cgiargs(request[c].uri)
  <2>1. request[c] \in AllRequests
    BY <1>2 DEF adder, Types, Control
  <2>2. q \in {None} \cup AllQueries
    BY <2>1 DEF AllRequests, AllUris, cgiargs
  <2>3. ~Fails(c) => Answer(q) \in AllMessages
    BY <2>2, AnswerType DEF Fails, Crashes, AllMessages
  <2> HIDE DEF q
  <2>4. /\ written' \in [Clients -> Seq(AllMessages)]
        /\ wire' \in [Clients -> Seq(AllMessages)]
        /\ link' \in [Clients -> {"none", "open", "half", "closed", "reset"}]
    BY <1>2, <2>3, DeliverTypes DEF adder, Types, q
  <2> QED
    BY <1>2, <2>4 DEF adder, Types, Control, clientVars, fileVars
<1> QED
  BY <1>1, <1>2

(* And those of the clients, and changes of files.                            *)
LEMMA ClientsKeepTypes ==
    ASSUME Types, Control, NEW c \in Clients, ClientStep(c) \/ Shutdown(c) \/ Leave(c)
    PROVE  Types' /\ Control'
<1>1. CASE Connect(c)
  <2>1. Append(backlog, c) \in Seq(Clients)
    BY DEF Types
  <2> QED
    BY <1>1, <2>1 DEF Connect, Become, Types, Control, serverVars, fileVars
<1>2. CASE SendLine(c)
  <2>1. sent[c] + 1 \in Nat /\ sent[c] + 1 \in 1 .. Len(script[c])
    BY <1>2 DEF SendLine, Types
  <2>2. script[c][sent[c] + 1] \in AllLines
    BY <2>1 DEF Types
  <2>3. Append(inbox[c], script[c][sent[c] + 1]) \in Seq(AllLines)
    BY <2>2 DEF Types
  <2>4. /\ sent' \in [Clients -> Nat]
        /\ inbox' \in [Clients -> Seq(AllLines)]
        /\ served' \in [Clients -> {"no", "end", "broken"}]
    BY <1>2, <2>1, <2>3 DEF SendLine, Types
  <2> QED
    BY <1>2, <2>4 DEF SendLine, Types, Control, serverVars, fileVars
<1>3. CASE Receive(c)
  <2>1. got[c] \o wire[c] \in Seq(AllMessages) /\ << >> \in Seq(AllMessages)
    BY DEF Types
  <2> QED
    BY <1>3, <2>1 DEF Receive, Types, Control, serverVars, fileVars
<1>4. CASE SeeEnd(c)
  BY <1>4 DEF SeeEnd, Become, Types, Control, serverVars, netVars, fileVars
<1>5. CASE SeeBreak(c)
  BY <1>5 DEF SeeBreak, Become, Types, Control, serverVars, netVars, fileVars
<1>6. CASE Shutdown(c)
  BY <1>6 DEF Shutdown, Types, Control, serverVars, clientVars, fileVars
<1>7. CASE Leave(c)
  <2>1. /\ wire' \in [Clients -> Seq(AllMessages)]
        /\ link' \in [Clients -> {"none", "open", "half", "closed", "reset"}]
        /\ client' \in [Clients -> {"idle", "active", "done", "failed", "left"}]
    BY <1>7 DEF Leave, Become, Types
  <2> QED
    BY <1>7, <2>1 DEF Leave, Become, Types, Control, serverVars, fileVars
<1> QED
  BY <1>1, <1>2, <1>3, <1>4, <1>5, <1>6, <1>7 DEF ClientStep

(* And a file that changes becomes one of the files the constants allow.      *)
LEMMA ChangesKeepTypes ==
    ASSUME Types, Control, NEW name \in Names, Change(name)
    PROVE  Types' /\ Control'
<1>1. files' \in [Names -> AllFiles]
  <2>1. \A file \in FilesLater[name] : file \in AllFiles
    BY TinyAssumption
  <2> QED
    BY <2>1 DEF Change, Types
<1>2. raced' \in [Clients -> BOOLEAN]
  <2> QED
    BY DEF Change
<1> QED
  BY <1>1, <1>2 DEF Change, Types, Control, serverVars, clientVars, netVars

(* A server that the system refuses something or that has overrun a buffer    *)
(* ends, and everything else stays as it is.  It has no child then.           *)
LEMMA ServerEnds ==
    ASSUME Control, Refused \/ Overruns
    PROVE  /\ phase # "exit" /\ phase' = "exit" /\ conn' \in {conn, None}
           /\ UNCHANGED << rio, buf, request, size, todo, after, child, backlog, clientVars, script,
                           netVars, fileVars >>
           /\ \A c \in Clients : child[c] = "none"
  BY DEF Refused, Overruns, Exit, Control

(* Every variable keeps its type.                                             *)
THEOREM TypesHold == Spec => [](Types /\ Control)
<1>1. Init => Types /\ Control
  BY TypesInit
<1>2. Types /\ Control /\ [Next]_vars => (Types /\ Control)'
  <2> SUFFICES ASSUME Types, Control, [Next]_vars PROVE Types' /\ Control'
    OBVIOUS
  <2>1. CASE ServerStep
    BY <2>1, ServerKeepsTypes
  <2>2. CASE ChildStep
    BY <2>2, ChildrenKeepTypes DEF ChildStep
  <2>3. ASSUME NEW c \in Clients, ClientStep(c) \/ Shutdown(c) \/ Leave(c)
        PROVE  Types' /\ Control'
    BY <2>3, ClientsKeepTypes
  <2>4. ASSUME NEW name \in Names, Change(name)
        PROVE  Types' /\ Control'
    BY <2>4, ChangesKeepTypes
  <2>5. CASE UNCHANGED vars
    BY <2>5 DEF vars, serverVars, clientVars, netVars, fileVars, Types, Control
  <2>6. CASE Refused \/ Overruns
    BY <2>6, ServerEnds DEF clientVars, netVars, fileVars, Types, Control
  <2> QED
    BY <2>1, <2>2, <2>3, <2>4, <2>5, <2>6, TinyAssumption DEF Next
<1> QED
  BY <1>1, <1>2, PTL DEF Spec

(* The run's type invariant, for all values of the constants.                 *)
THEOREM TypeCorrect == Spec => []TypeOK
<1>1. Types /\ Control => TypeOK
  BY TypesMakeTypeOK
<1> QED
  BY <1>1, TypesHold, PTL

-----------------------------------------------------------------------------
(* Bystanders                                                                 *)

(* A step leaves alone what belongs to a client it does not concern.          *)
Same(c) ==
    UNCHANGED << client[c], script[c], sent[c], got[c], link[c], served[c], inbox[c], wire[c],
                 written[c], request[c], raced[c], child[c] >>

(* A message for one client is written to no other.                           *)
LEMMA DeliverAside ==
    ASSUME Types, NEW c \in Clients, NEW d \in Clients, c # d, NEW m, Deliver(c, m)
    PROVE  UNCHANGED << written[d], wire[d], link[d] >>
  BY DEF Types, Deliver

(* The server takes lines only from the client at connfd.                     *)
LEMMA ReadAside ==
    ASSUME Types, NEW d \in Clients, d # conn, NEW k, ReadLine(k)
    PROVE  UNCHANGED inbox[d]
  BY DEF Types, ReadLine

(* A request is parsed only for the client at connfd.                         *)
LEMMA ParsedAside ==
    ASSUME Types, NEW d \in Clients, d # conn, NEW r, Parsed(r)
    PROVE  UNCHANGED request[d]
  BY DEF Types, Parsed

(* A step of the server concerns only the client at connfd.                   *)
LEMMA ServerAside ==
    ASSUME Types, Control, ServerStep, NEW d \in Clients, d # conn
    PROVE  Same(d)
<1>1. CASE Listen
  BY <1>1 DEF Listen, Same, clientVars, netVars, fileVars
<1>2. CASE Accept
  BY <1>2 DEF Accept, Same, clientVars, netVars, fileVars
<1>3. CASE ReadRequest
  <2>1. UNCHANGED << inbox[d], request[d] >>
    BY <1>3, ReadAside, ParsedAside DEF ReadRequest, ReadsNothing
  <2> QED
    BY <1>3, <2>1 DEF ReadRequest, Same, clientVars, fileVars
<1>4. CASE ReadHeader
  <2>1. UNCHANGED inbox[d]
    BY <1>4, ReadAside DEF ReadHeader
  <2> QED
    BY <1>4, <2>1 DEF ReadHeader, Same, clientVars, fileVars
<1>5. CASE ReadHeaderEnd
  BY <1>5 DEF ReadHeaderEnd, ReadsNothing, Same, clientVars, fileVars
<1>6. CASE ReadFails
  BY <1>6 DEF ReadFails, Same, clientVars, netVars, fileVars
<1>7. CASE Stat
  BY <1>7 DEF Stat, Same, clientVars, netVars, fileVars
<1>8. CASE Open
  BY <1>8 DEF Open, Same, clientVars, netVars, fileVars
<1>9. CASE Write
  <2>1. UNCHANGED << written[d], wire[d], link[d] >>
    BY <1>9, DeliverAside DEF Write, Handed, Control
  <2> QED
    BY <1>9, <2>1 DEF Write, Same, clientVars
<1>10. CASE WriteFails
  BY <1>10 DEF WriteFails, Same, clientVars, netVars, fileVars
<1>11. CASE Fork
  BY <1>11 DEF Fork, Same, clientVars, netVars, fileVars, Types
<1>12. CASE Wait
  BY <1>12 DEF Wait, Same, clientVars, netVars, fileVars, Types
<1>13. CASE Close
  BY <1>13 DEF Close, Same, clientVars, fileVars, Types
<1> QED
  BY <1>1, <1>2, <1>3, <1>4, <1>5, <1>6, <1>7, <1>8, <1>9, <1>10, <1>11, <1>12, <1>13
     DEF ServerStep

(* A step of a child concerns only the client it was forked for.              *)
LEMMA ChildAside ==
    ASSUME Types, NEW c \in Clients, Execve(c) \/ adder(c), NEW d \in Clients, d # c
    PROVE  Same(d)
<1>1. UNCHANGED << written[d], wire[d], link[d] >>
  BY DeliverAside DEF Execve, adder
<1> QED
  BY <1>1 DEF Execve, adder, Same, clientVars, fileVars, Types

(* A step of a client concerns only that client.                              *)
LEMMA ClientAside ==
    ASSUME Types, NEW c \in Clients, ClientStep(c) \/ Shutdown(c) \/ Leave(c),
           NEW d \in Clients, d # c
    PROVE  Same(d)
<1>1. CASE Connect(c)
  BY <1>1 DEF Connect, Become, Same, serverVars, fileVars, Types
<1>2. CASE SendLine(c)
  BY <1>2 DEF SendLine, Same, serverVars, fileVars, Types
<1>3. CASE Receive(c)
  BY <1>3 DEF Receive, Same, serverVars, fileVars, Types
<1>4. CASE SeeEnd(c)
  BY <1>4 DEF SeeEnd, Become, Same, serverVars, netVars, fileVars, Types
<1>5. CASE SeeBreak(c)
  BY <1>5 DEF SeeBreak, Become, Same, serverVars, netVars, fileVars, Types
<1>6. CASE Shutdown(c)
  BY <1>6 DEF Shutdown, Same, serverVars, clientVars, fileVars, Types
<1>7. CASE Leave(c)
  BY <1>7 DEF Leave, Become, Same, serverVars, fileVars, Types
<1> QED
  BY <1>1, <1>2, <1>3, <1>4, <1>5, <1>6, <1>7 DEF ClientStep

(* A change of a file can only race the request the server is at.             *)
LEMMA ChangeAside ==
    ASSUME Types, NEW name \in Names, Change(name), NEW d \in Clients
    PROVE  /\ UNCHANGED << client[d], script[d], sent[d], got[d], link[d], served[d], inbox[d],
                           wire[d], written[d], request[d], child[d] >>
           /\ d # conn => raced'[d] = raced[d]
  BY DEF Change, serverVars, clientVars, netVars, Types

-----------------------------------------------------------------------------
(* Turns                                                                      *)

(* Nobody has had a turn at the start.                                        *)
LEMMA TurnsInit == Init => Turns
<1> SUFFICES ASSUME Init PROVE Turns
  OBVIOUS
<1>1. ~ \E i \in DOMAIN backlog : TRUE
  BY DEF Init
<1>2. Serving
  BY DEF Init, Serving
<1>3. ASSUME NEW c \in Clients PROVE TurnOf(c)
  BY <1>1, TinyAssumption DEF Init, TurnOf, Queued, Untouched
<1> QED
  BY <1>1, <1>2, <1>3 DEF Turns

(* A turn of a client that a step leaves alone.                               *)
LEMMA TurnKept ==
    ASSUME NEW d, TurnOf(d), Same(d), Queued(d)' => Queued(d), conn' \in {conn, None}, d # None
    PROVE  TurnOf(d)'
  BY DEF TurnOf, Untouched, Same

(* The server takes the first of the backlog, who is untouched and not there  *)
(* twice.                                                                     *)
LEMMA ServerKeepsTurns ==
    ASSUME Types, Control, Turns, ServerStep
    PROVE  Turns'
<1>1. CASE Accept
  <2> DEFINE h == Head(backlog)
  <2>1. /\ h \in Clients /\ h = backlog[1]
        /\ Len(Tail(backlog)) = Len(backlog) - 1 /\ Len(backlog) \in Nat \ {0}
        /\ DOMAIN backlog = 1 .. Len(backlog)
        /\ DOMAIN Tail(backlog) = 1 .. Len(backlog) - 1
        /\ \A i \in 1 .. Len(Tail(backlog)) : Tail(backlog)[i] = backlog[i + 1]
    BY <1>1, HeadTailProperties, LenProperties DEF Accept, Types
  <2>2. backlog' = Tail(backlog) /\ conn' = h /\ conn = None
    BY <1>1 DEF Accept, Turns, Serving
  <2>3. ASSUME NEW i \in DOMAIN backlog'
        PROVE  /\ i + 1 \in DOMAIN backlog /\ backlog'[i] = backlog[i + 1]
               /\ backlog'[i] # h
    <3>1. i + 1 \in DOMAIN backlog /\ backlog'[i] = backlog[i + 1] /\ i + 1 # 1
          /\ 1 \in DOMAIN backlog
      BY <2>1, <2>2, <2>3
    <3> QED
      BY <2>1, <3>1 DEF Turns
  <2>4. \A c \in Clients : Queued(c)' => Queued(c) /\ c # h
    BY <2>3 DEF Queued
  <2>5. \A i, j \in DOMAIN backlog' : backlog'[i] = backlog'[j] => i = j
    <3> TAKE i, j \in DOMAIN backlog'
    <3>1. i \in Int /\ j \in Int
      BY <2>1, <2>2
    <3>2. backlog[i + 1] = backlog[j + 1] => i + 1 = j + 1
      BY <2>3 DEF Turns
    <3> QED
      BY <2>3, <3>1, <3>2
  <2>6. Queued(h)
    BY <2>1 DEF Queued
  <2>7. ASSUME NEW d \in Clients PROVE TurnOf(d)'
    <3>1. TurnOf(d) /\ Same(d)
      BY <2>2, ServerAside, TinyAssumption DEF Turns
    <3>2. d = h => ~Queued(d)' /\ client[d] # "idle"
      BY <2>4, <2>6, <3>1 DEF TurnOf
    <3> QED
      BY <2>2, <2>4, <3>1, <3>2 DEF TurnOf, Untouched, Same
  <2>8. Serving'
    <3>1. TurnOf(h)
      BY <2>1 DEF Turns
    <3> QED
    BY <1>1, <2>1, <2>2, <2>6, <3>1
       DEF Accept, TurnOf, Serving, Untouched, clientVars, netVars
  <2> QED
    BY <2>5, <2>7, <2>8 DEF Turns
<1>2. CASE ~Accept
  <2>1. backlog' = backlog /\ conn' \in {conn, None} /\ client' = client
    BY <1>2 DEF ServerStep, Listen, ReadRequest, ReadHeader, ReadHeaderEnd, ReadFails, Stat, Open,
                Write, WriteFails, Fork, Wait, Close, clientVars
  <2>2. ASSUME NEW d \in Clients PROVE TurnOf(d)'
    <3>1. CASE d # conn
      BY <2>1, <3>1, ServerAside, TurnKept, TinyAssumption DEF Turns, Queued
    <3>2. CASE d = conn
      <4>1. ~Queued(d) /\ client[d] # "idle"
        BY <3>2, TinyAssumption DEF Turns, TurnOf, Untouched, Serving
      <4> QED
        BY <2>1, <4>1 DEF TurnOf, Queued
    <3> QED
      BY <3>1, <3>2
  <2>3. Serving'
    <3>1. /\ conn' # None => served' = served /\ conn' = conn
          /\ phase' \in {"starting", "accept"} => phase = "starting" \/ conn' = None
          /\ phase' = "wait" => child'[conn'] # "none"
      BY <1>2
         DEF ServerStep, Listen, ReadRequest, ReadHeader, ReadHeaderEnd, ReadFails, Stat, Open,
             Write, WriteFails, Fork, Wait, Close, netVars, Parsed, Respond, HeaderRead, Exit,
             Forbidden, OpenFails, Handed, Control, Types, Serving
    <3>2. phase' \in {"starting", "accept"} => conn' = None
      BY <2>1, <3>1 DEF Turns, Serving
    <3>3. conn' # None => served'[conn'] = "no" /\ client'[conn'] # "idle"
      BY <2>1, <3>1 DEF Turns, Serving
    <3> QED
      BY <3>1, <3>2, <3>3 DEF Serving
  <2> QED
    BY <2>1, <2>2, <2>3 DEF Turns
<1> QED
  BY <1>1, <1>2

(* A child writes for the client the server is waiting with.                  *)
LEMMA ChildrenKeepTurns ==
    ASSUME Types, Control, Turns, NEW c \in Clients, Execve(c) \/ adder(c)
    PROVE  Turns'
<1>1. conn = c /\ phase = "wait"
  BY DEF Execve, adder, Control
<1>2. /\ UNCHANGED << phase, conn, backlog, client, served >>
      /\ child'[c] \in {"running", "exited"}
  BY DEF Execve, adder, clientVars, Types
<1>3. ASSUME NEW d \in Clients PROVE TurnOf(d)'
  <2>1. CASE d # c
    BY <1>2, <2>1, ChildAside, TurnKept, TinyAssumption DEF Turns, Queued
  <2>2. CASE d = c
    <3>1. ~Queued(d) /\ client[d] # "idle"
      BY <1>1, <2>2, TinyAssumption DEF Turns, TurnOf, Untouched
    <3> QED
      BY <1>2, <3>1 DEF TurnOf, Queued
  <2> QED
    BY <2>1, <2>2
<1> QED
  BY <1>1, <1>2, <1>3 DEF Turns, Serving

(* A client joins the backlog once, untouched, and nothing it does ends its   *)
(* turn.                                                                      *)
LEMMA ClientsKeepTurns ==
    ASSUME Types, Control, Turns, NEW c \in Clients, ClientStep(c) \/ Shutdown(c) \/ Leave(c)
    PROVE  Turns'
<1> USE DEF Turns
<1>1. UNCHANGED serverVars
  BY DEF ClientStep, Connect, SendLine, Receive, SeeEnd, SeeBreak, Shutdown, Leave
<1>2. ASSUME NEW d \in Clients, d # c, Queued(d)' => Queued(d) PROVE TurnOf(d)'
  BY <1>1, <1>2, ClientAside, TurnKept, TinyAssumption DEF serverVars
<1>3. client'[c] # "idle"
  BY DEF ClientStep, Connect, SendLine, Receive, SeeEnd, SeeBreak, Shutdown, Leave, Become, Types,
         clientVars
<1>4. Serving'
  <2>1. conn = c => served'[c] = "no"
    BY TinyAssumption
       DEF ClientStep, Connect, SendLine, Receive, SeeEnd, SeeBreak, Shutdown, Leave, netVars,
           Attended, Serving, Types
  <2>2. conn # None /\ conn # c => served'[conn] = "no" /\ client'[conn] # "idle"
    BY ClientAside DEF Serving, Same, Control
  <2> QED
    BY <1>1, <1>3, <2>1, <2>2 DEF Serving, serverVars
<1>5. CASE Connect(c)
  <2>1. TurnOf(c) /\ client[c] = "idle"
    BY <1>5 DEF Connect
  <2>2. CASE backlog' = backlog
    <3>1. ~Queued(c)'
      BY <2>1, <2>2 DEF TurnOf, Queued
    <3> QED
      BY <1>2, <1>3, <1>4, <2>2, <3>1 DEF Queued, TurnOf
  <2>3. CASE backlog' = Append(backlog, c)
    <3>1. /\ DOMAIN backlog' = 1 .. Len(backlog) + 1
          /\ \A i \in 1 .. Len(backlog) : backlog'[i] = backlog[i]
          /\ backlog'[Len(backlog) + 1] = c /\ Len(backlog) \in Nat
          /\ DOMAIN backlog = 1 .. Len(backlog)
      BY <2>3, AppendProperties, LenProperties DEF Types
    <3>2. \A d \in Clients : Queued(d)' => Queued(d) \/ d = c
      BY <3>1 DEF Queued
    <3>3. ~Queued(c)
      BY <2>1 DEF TurnOf
    <3>4. \A i, j \in DOMAIN backlog' : backlog'[i] = backlog'[j] => i = j
      <4>1. \A i \in DOMAIN backlog : backlog[i] # c
        BY <3>3 DEF Queued
      <4> QED
        BY <3>1, <4>1
    <3>5. TurnOf(c)'
      <4>1. Untouched(c)
        BY <2>1 DEF TurnOf
      <4>2. Untouched(c)'
        BY <1>1, <1>5, <4>1 DEF Untouched, Connect, serverVars, fileVars
      <4> QED
        BY <1>3, <4>2 DEF TurnOf
    <3> QED
      BY <1>2, <1>4, <3>2, <3>4, <3>5
  <2> QED
    BY <1>5, <2>2, <2>3 DEF Connect
<1>6. CASE ~Connect(c)
  <2>1. backlog' = backlog
    BY <1>6 DEF ClientStep, SendLine, Receive, SeeEnd, SeeBreak, Shutdown, Leave
  <2>2. TurnOf(c)'
    <3>1. Queued(c)' => Queued(c)
      BY <2>1 DEF Queued
    <3>2. Queued(c) => Untouched(c)
      BY DEF TurnOf
    <3>3. Untouched(c) => Untouched(c)'
      BY <1>1, <1>6
         DEF Untouched, ClientStep, SendLine, Receive, SeeEnd, SeeBreak, Shutdown, Leave, serverVars,
             netVars, fileVars, Attended, Types, clientVars
    <3> QED
      BY <1>3, <3>1, <3>2, <3>3 DEF TurnOf
  <2> QED
    BY <1>2, <1>4, <2>1, <2>2 DEF Queued
<1> QED
  BY <1>5, <1>6

(* A file that changes takes nobody's turn.                                   *)
LEMMA ChangesKeepTurns ==
    ASSUME Types, Control, Turns, NEW name \in Names, Change(name)
    PROVE  Turns'
<1>1. UNCHANGED << serverVars, backlog, clientVars, netVars >>
  BY DEF Change
<1>2. ASSUME NEW d \in Clients PROVE TurnOf(d)'
  <2>1. Untouched(d) => Untouched(d)'
    BY <1>1, ChangeAside DEF Untouched, serverVars, clientVars, netVars
  <2> QED
    BY <1>1, <2>1 DEF TurnOf, Turns, Queued, serverVars, clientVars, netVars
<1> QED
  BY <1>1, <1>2 DEF Turns, Serving, serverVars, clientVars, netVars

(* Clients are served in turn, once each.                                     *)
THEOREM TurnsHold == Spec => [](Types /\ Control /\ Turns)
<1>1. Init => Turns
  BY TurnsInit
<1>2. Types /\ Control /\ Turns /\ [Next]_vars => Turns'
  <2> SUFFICES ASSUME Types, Control, Turns, [Next]_vars PROVE Turns'
    OBVIOUS
  <2>1. CASE ServerStep
    BY <2>1, ServerKeepsTurns
  <2>2. CASE ChildStep
    BY <2>2, ChildrenKeepTurns DEF ChildStep
  <2>3. ASSUME NEW c \in Clients, ClientStep(c) \/ Shutdown(c) \/ Leave(c)
        PROVE  Turns'
    BY <2>3, ClientsKeepTurns
  <2>4. ASSUME NEW name \in Names, Change(name)
        PROVE  Turns'
    BY <2>4, ChangesKeepTurns
  <2>5. CASE UNCHANGED vars
    BY <2>5 DEF vars, serverVars, clientVars, netVars, fileVars, Turns, TurnOf, Serving, Queued,
                Untouched
  <2>6. CASE Refused \/ Overruns
    <3>1. /\ UNCHANGED << backlog, request, child, clientVars, netVars, fileVars >>
          /\ conn' \in {conn, None} /\ phase' = "exit"
      BY <2>6, ServerEnds
    <3>2. ASSUME NEW c \in Clients PROVE TurnOf(c)'
      BY <3>1, TinyAssumption
         DEF Turns, TurnOf, Untouched, Queued, clientVars, netVars, fileVars
    <3> QED
      BY <3>1, <3>2 DEF Turns, Serving, clientVars, netVars
  <2> QED
    BY <2>1, <2>2, <2>3, <2>4, <2>5, <2>6, TinyAssumption DEF Next
<1> QED
  BY <1>1, <1>2, TypesHold, PTL DEF Spec

(* A child belongs to the request the server is at: the run's property, for   *)
(* any number of clients.                                                     *)
THEOREM ChildrenAreWaitedFor == Spec => []ChildrenWaitedFor
<1>1. Types /\ Control /\ Turns => ChildrenWaitedFor
  <2> SUFFICES ASSUME Types, Control, Turns PROVE ChildrenWaitedFor
    OBVIOUS
  <2>1. TypeOK
    BY TypesMakeTypeOK
  <2> QED
    BY <2>1, TinyAssumption DEF Control, Turns, Serving, ChildrenWaitedFor
<1> QED
  BY <1>1, TurnsHold, PTL

-----------------------------------------------------------------------------
(* Links                                                                      *)

(* Whom the server accepts was in the backlog.                                *)
LEMMA HeadQueued ==
    ASSUME Types, Accept
    PROVE  Head(backlog) \in Clients /\ Queued(Head(backlog))
<1>1. Head(backlog) \in Clients /\ Head(backlog) = backlog[1] /\ 1 \in DOMAIN backlog
  BY HeadTailProperties, LenProperties, EmptySeq DEF Accept, Types
<1> QED
  BY <1>1 DEF Queued

(* No step of the server puts anybody into the backlog.                       *)
LEMMA QueueShrinks ==
    ASSUME Types, ServerStep, NEW d \in Clients, Queued(d)'
    PROVE  Queued(d)
<1>1. CASE Accept
  <2>1. backlog' = Tail(backlog) /\ backlog # << >> /\ backlog \in Seq(Clients)
    BY <1>1 DEF Accept, Types
  <2>2. PICK i \in DOMAIN backlog' : backlog'[i] = d
    BY DEF Queued
  <2>3. i + 1 \in DOMAIN backlog /\ backlog'[i] = backlog[i + 1]
    BY <2>1, <2>2, HeadTailProperties, LenProperties
  <2> QED
    BY <2>2, <2>3 DEF Queued
<1>2. CASE ~Accept
  <2>1. backlog' = backlog
    BY <1>2 DEF ServerStep, Listen, ReadRequest, ReadHeader, ReadHeaderEnd, ReadFails, Stat, Open,
                Write, WriteFails, Fork, Wait, Close
  <2> QED
    BY <2>1 DEF Queued
<1> QED
  BY <1>1, <1>2

(* The server takes nobody it was not connected with.                         *)
LEMMA ServerPresent ==
    ASSUME Types, ServerStep, NEW d \in Clients, Present(d)'
    PROVE  Present(d)
<1>1. CASE Accept
  BY <1>1, QueueShrinks, HeadQueued DEF Present, Accept
<1>2. CASE ~Accept
  <2>1. conn' \in {conn, None}
    BY <1>2 DEF ServerStep, Listen, ReadRequest, ReadHeader, ReadHeaderEnd, ReadFails, Stat, Open,
                Write, WriteFails, Fork, Wait, Close
  <2> QED
    BY <2>1, QueueShrinks, TinyAssumption DEF Present
<1> QED
  BY <1>1, <1>2

(* A link of a client that a step leaves alone.                               *)
LEMMA LinkKept ==
    ASSUME NEW d, LinkOf(d), Same(d), Present(d)' => Present(d)
    PROVE  LinkOf(d)'
  BY DEF LinkOf, Same

(* Writing to a client that is there only ever resets the link of one that    *)
(* has left.                                                                  *)
LEMMA DeliverLinks ==
    ASSUME Types, NEW c \in Clients, NEW m, Deliver(c, m), LinkOf(c), Present(c)
    PROVE  link'[c] = link[c] \/ (link'[c] = "reset" /\ link[c] = "closed" /\ client[c] = "left")
<1>1. link[c] \in {"open", "half", "closed", "reset"}
  BY DEF LinkOf, Types
<1>2. link[c] \in {"closed", "reset"} => client[c] = "left"
  BY DEF LinkOf
<1> QED
  BY <1>1, <1>2 DEF Deliver, Types

(* The server resets only the links of clients that left, and closes only its *)
(* own end.                                                                   *)
LEMMA ServerKeepsLinks ==
    ASSUME Types, Control, Turns, Links, ServerStep
    PROVE  Links'
<1> SUFFICES ASSUME NEW d \in Clients PROVE LinkOf(d)'
  BY DEF Links
<1>1. LinkOf(d) /\ (Present(d)' => Present(d))
  BY ServerPresent DEF Links
<1>2. CASE d # conn
  BY <1>1, <1>2, ServerAside, LinkKept
<1>3. CASE d = conn
  <2>1. UNCHANGED << client, sent, script >>
    BY DEF ServerStep, Listen, Accept, ReadRequest, ReadHeader, ReadHeaderEnd, ReadFails, Stat, Open,
           Write, WriteFails, Fork, Wait, Close, clientVars
  <2>2. client[d] # "done"
    BY <1>1, <1>3, TinyAssumption DEF LinkOf, Turns, Serving
  <2>3. link'[d] = link[d] \/ (link'[d] = "reset" /\ link[d] = "closed" /\ client[d] = "left")
    <3>1. CASE Write
      <4>1. \E m : Deliver(d, m)
        BY <1>3, <3>1 DEF Write, Handed
      <4> QED
        BY <1>1, <1>3, <4>1, DeliverLinks DEF Present
    <3>2. CASE ~Write
      BY <3>2
         DEF ServerStep, Listen, Accept, ReadRequest, ReadHeader, ReadHeaderEnd, ReadFails, Stat,
             Open, WriteFails, Fork, Wait, Close, netVars
    <3> QED
      BY <3>1, <3>2
  <2> QED
    BY <1>1, <2>1, <2>2, <2>3 DEF LinkOf
<1> QED
  BY <1>2, <1>3

(* So do the children.                                                        *)
LEMMA ChildrenKeepLinks ==
    ASSUME Types, Control, Turns, Links, NEW c \in Clients, Execve(c) \/ adder(c)
    PROVE  Links'
<1> SUFFICES ASSUME NEW d \in Clients PROVE LinkOf(d)'
  BY DEF Links
<1>1. conn = c /\ UNCHANGED << conn, backlog, client, sent, script, served >>
  BY DEF Execve, adder, clientVars, Control
<1>2. LinkOf(d) /\ (Present(d)' => Present(d))
  BY <1>1 DEF Links, Present, Queued
<1>3. CASE d # c
  BY <1>2, <1>3, ChildAside, LinkKept
<1>4. CASE d = c
  <2>1. client[d] # "done"
    BY <1>1, <1>2, <1>4, TinyAssumption DEF LinkOf, Turns, Serving
  <2>2. link'[d] = link[d] \/ \E m : Deliver(d, m)
    BY <1>4 DEF Execve, adder
  <2>3. link'[d] = link[d] \/ (link'[d] = "reset" /\ link[d] = "closed" /\ client[d] = "left")
    BY <1>1, <1>2, <1>4, <2>2, DeliverLinks DEF Present
  <2> QED
    BY <1>1, <1>2, <2>1, <2>3 DEF LinkOf
<1> QED
  BY <1>3, <1>4

(* A client goes from one state of its link to the next in order.             *)
LEMMA ClientsKeepLinks ==
    ASSUME Types, Control, Turns, Links,
           NEW c \in Clients, ClientStep(c) \/ Shutdown(c) \/ Leave(c)
    PROVE  Links'
<1> SUFFICES ASSUME NEW d \in Clients PROVE LinkOf(d)'
  BY DEF Links
<1>0. LinkOf(d) /\ LinkOf(c)
  BY DEF Links
<1>1. UNCHANGED << conn, script >>
  BY DEF ClientStep, Connect, SendLine, Receive, SeeEnd, SeeBreak, Shutdown, Leave, serverVars
<1>2. Present(d)' => Present(d) \/ (d = c /\ Connect(c))
  <2>1. CASE backlog' = backlog
    BY <1>1, <2>1 DEF Present, Queued
  <2>2. CASE Connect(c) /\ backlog' = Append(backlog, c)
    <3>1. /\ DOMAIN backlog' = 1 .. Len(backlog) + 1
          /\ \A i \in 1 .. Len(backlog) : backlog'[i] = backlog[i]
          /\ backlog'[Len(backlog) + 1] = c /\ Len(backlog) \in Nat
          /\ DOMAIN backlog = 1 .. Len(backlog)
      BY <2>2, AppendProperties, LenProperties DEF Types
    <3> QED
      BY <1>1, <2>2, <3>1 DEF Present, Queued
  <2> QED
    BY <2>1, <2>2
       DEF ClientStep, Connect, SendLine, Receive, SeeEnd, SeeBreak, Shutdown, Leave
<1>3. CASE d # c
  BY <1>0, <1>2, <1>3, ClientAside, LinkKept
<1>4. CASE d = c
  <2>1. CASE Connect(c)
    <3>1. client[c] = "idle" /\ link[c] = "none" /\ sent[c] = 0 /\ ~Present(c)
      BY <1>0, <2>1 DEF Connect, Turns, TurnOf, LinkOf
    <3>2. CASE backlog' = backlog /\ client'[c] = "failed" /\ link' = link
      BY <1>0, <1>1, <1>4, <2>1, <3>1, <3>2 DEF Connect, LinkOf, Present, Queued
    <3>3. CASE client'[c] = "active" /\ link'[c] = "open"
      BY <1>0, <1>1, <1>4, <2>1, <3>1, <3>3 DEF Connect, LinkOf
    <3> QED
      BY <2>1, <3>2, <3>3 DEF Connect, Become, Types
  <2>2. CASE SendLine(c)
    <3>1. /\ sent'[c] <= Len(script[c]) /\ sent[c] < Len(script[c]) /\ client'[c] = "active"
          /\ link' = link /\ client[c] = "active"
      BY <2>2 DEF SendLine, Types
    <3> QED
      BY <1>0, <1>1, <1>2, <1>4, <2>2, <3>1 DEF LinkOf, SendLine, Types
  <2>3. CASE Receive(c)
    BY <1>0, <1>1, <1>2, <1>4, <2>3 DEF LinkOf, Receive, Connect
  <2>4. CASE SeeEnd(c)
    BY <1>0, <1>1, <1>2, <1>4, <2>4 DEF LinkOf, SeeEnd, Become, Connect, Types, netVars
  <2>5. CASE SeeBreak(c)
    BY <1>0, <1>1, <1>2, <1>4, <2>5 DEF LinkOf, SeeBreak, Become, Connect, Types, netVars
  <2>6. CASE Shutdown(c)
    BY <1>0, <1>1, <1>2, <1>4, <2>6 DEF LinkOf, Shutdown, Connect, Types, clientVars
  <2>7. CASE Leave(c)
    BY <1>0, <1>1, <1>2, <1>4, <2>7 DEF LinkOf, Leave, Become, Connect, Types
  <2> QED
    BY <2>1, <2>2, <2>3, <2>4, <2>5, <2>6, <2>7 DEF ClientStep
<1> QED
  BY <1>3, <1>4

(* Only a client that has left has its link reset or closed.                  *)
THEOREM LinksHold == Spec => []Links
<1>1. Init => Links
  BY TinyAssumption DEF Init, Links, LinkOf, Present, Queued
<1>2. Types /\ Control /\ Turns /\ Links /\ [Next]_vars => Links'
  <2> SUFFICES ASSUME Types, Control, Turns, Links, [Next]_vars PROVE Links'
    OBVIOUS
  <2>1. CASE ServerStep
    BY <2>1, ServerKeepsLinks
  <2>2. CASE ChildStep
    BY <2>2, ChildrenKeepLinks DEF ChildStep
  <2>3. ASSUME NEW c \in Clients, ClientStep(c) \/ Shutdown(c) \/ Leave(c)
        PROVE  Links'
    BY <2>3, ClientsKeepLinks
  <2>4. CASE UNCHANGED << conn, backlog, client, sent, script, link, served >>
    BY <2>4 DEF Links, LinkOf, Present, Queued
  <2>5. CASE Refused \/ Overruns
    BY <2>5, ServerEnds, TinyAssumption DEF Links, LinkOf, Present, Queued, clientVars, netVars
  <2> QED
    BY <2>1, <2>2, <2>3, <2>4, <2>5, TinyAssumption
       DEF Next, Change, vars, serverVars, clientVars, netVars
<1> QED
  BY <1>1, <1>2, TurnsHold, PTL DEF Spec

-----------------------------------------------------------------------------
(* Streams                                                                    *)

(* Reading a line takes the next one that the client at connfd sent.          *)
LEMMA ReadTaken ==
    ASSUME Types, conn \in Clients, Reading, NEW k \in Refills, ReadLine(k),
           UNCHANGED << conn, sent, script >>
    PROVE  /\ Reading' /\ Taken' = Taken + 1
           /\ Head(Lines(k)) = script[conn][Taken + 1]
           /\ ~Quiet
<1> DEFINE s == inbox[conn]
           t == SubSeq(s, 1, k)
           u == SubSeq(s, k + 1, Len(s))
           L == Lines(k)
<1>1. /\ rio \in Seq(AllLines) /\ s \in Seq(AllLines) /\ sent[conn] \in Nat
      /\ Len(rio) \in Nat /\ Len(s) \in Nat
      /\ DOMAIN rio = 1 .. Len(rio) /\ DOMAIN s = 1 .. Len(s)
  BY LenProperties DEF Types
<1>2. k \in 0 .. Len(s) /\ (rio = << >> => k >= 1)
  BY <1>1 DEF Refills
<1>3. /\ t \in Seq(AllLines) /\ Len(t) = k /\ \A i \in 1 .. k : t[i] = s[i]
      /\ u \in Seq(AllLines) /\ Len(u) = Len(s) - k /\ \A i \in 1 .. Len(s) - k : u[i] = s[k + i]
  BY <1>1, <1>2
<1>4. /\ L \in Seq(AllLines) /\ Len(L) = Len(rio) + k
      /\ \A i \in 1 .. Len(rio) + k : L[i] = IF i <= Len(rio) THEN rio[i] ELSE t[i - Len(rio)]
  <2> HIDE DEF t
  <2>1. L = rio \o t
    BY DEF Lines, t
  <2> QED
    BY <1>1, <1>3, <2>1, ConcatProperties
<1>5. Len(L) >= 1
  <2>1. rio # << >> => Len(rio) >= 1
    BY <1>1, EmptySeq
  <2> QED
    BY <1>1, <1>2, <1>4, <2>1
<1>6. ~Quiet
  BY <1>1, <1>2 DEF Quiet
<1> HIDE DEF t, u, L
<1>7. /\ Head(L) = L[1] /\ Len(Tail(L)) = Len(L) - 1 /\ Tail(L) \in Seq(AllLines)
      /\ \A i \in 1 .. Len(L) - 1 : Tail(L)[i] = L[i + 1]
      /\ DOMAIN Tail(L) = 1 .. Len(L) - 1
  BY <1>4, <1>5
<1>8. rio' = Tail(L) /\ inbox'[conn] = u
  BY DEF ReadLine, Types, L, u
<1>9. /\ Len(rio') = Len(rio) + k - 1 /\ Len(inbox'[conn]) = Len(s) - k
       /\ DOMAIN inbox'[conn] = 1 .. Len(s) - k
  BY <1>1, <1>3, <1>4, <1>7, <1>8, LenProperties
<1>10. Taken = sent[conn] - Len(s) - Len(rio) /\ Taken >= 0
  BY DEF Taken, Reading
<1>11. Taken' = sent[conn] - Len(inbox'[conn]) - Len(rio')
  BY DEF Taken
<1> HIDE DEF s
<1>12. Taken \in Nat /\ Taken' = Taken + 1
  <2>1. k \in Int /\ Len(s) \in Int /\ Len(rio) \in Int /\ sent[conn] \in Int
    BY <1>1, <1>2
  <2>2. Taken \in Int /\ Taken >= 0
    BY <1>10, <2>1
  <2>3. Len(rio') = Len(rio) + k - 1 /\ Len(inbox'[conn]) = Len(s) - k
    BY <1>9
  <2>4. Taken' = (sent[conn] - (Len(s) - k)) - (Len(rio) + k - 1)
    BY <1>11, <2>3
  <2> QED
    BY <1>10, <2>1, <2>2, <2>4
<1>13. \A i \in 1 .. Len(L) : L[i] = script[conn][Taken + i]
  <2> TAKE i \in 1 .. Len(L)
  <2>1. CASE i <= Len(rio)
    BY <1>1, <1>4, <2>1 DEF Reading
  <2>2. CASE ~(i <= Len(rio))
    <3>1. i - Len(rio) \in 1 .. k /\ i - Len(rio) \in DOMAIN s
      BY <1>1, <1>2, <1>4, <2>2
    <3>2. L[i] = s[i - Len(rio)]
      BY <1>3, <1>4, <2>2, <3>1
    <3>3. s[i - Len(rio)] = script[conn][Taken + Len(rio) + (i - Len(rio))]
      BY <3>1 DEF Reading, s
    <3>4. Taken + Len(rio) + (i - Len(rio)) = Taken + i
      BY <1>1, <1>4, <1>12
    <3> QED
      BY <3>2, <3>3, <3>4
  <2> QED
    BY <2>1, <2>2
<1>14. \A i \in DOMAIN rio' : rio'[i] = script'[conn'][Taken' + i]
  <2> TAKE i \in DOMAIN rio'
  <2>1. i + 1 \in 1 .. Len(L) /\ i \in 1 .. Len(L) - 1 /\ Taken' + i = Taken + (i + 1)
    <3>1. Len(L) \in Int /\ i \in 1 .. Len(L) - 1
      BY <1>1, <1>2, <1>4, <1>7, <1>8
    <3>2. i \in Int /\ Taken \in Int /\ Taken' = Taken + 1
      BY <1>12, <3>1
    <3> QED
      BY <3>1, <3>2
  <2> QED
    BY <1>7, <1>8, <1>13, <2>1
<1>15. \A i \in DOMAIN inbox'[conn'] : inbox'[conn'][i] = script'[conn'][Taken' + Len(rio') + i]
  <2> TAKE i \in DOMAIN inbox'[conn']
  <2>1. /\ i \in 1 .. Len(s) - k /\ k + i \in DOMAIN s
        /\ Taken' + Len(rio') + i = Taken + Len(rio) + (k + i)
    <3>1. i \in 1 .. Len(s) - k /\ k \in Int /\ k >= 0 /\ Len(s) \in Int /\ Len(rio) \in Int
      <4>1. conn' = conn
        OBVIOUS
      <4>2. inbox'[conn'] = inbox'[conn]
        BY <4>1
      <4>3. i \in 1 .. Len(s) - k
        BY <1>9, <4>2
      <4> HIDE DEF s
      <4> QED
        BY <1>1, <1>2, <4>3
    <3>2. /\ i \in Int /\ Taken \in Int /\ Taken' = Taken + 1
          /\ Len(rio') = Len(rio) + k - 1
      BY <1>9, <1>12, <3>1
    <3>3. k + i \in 1 .. Len(s)
      BY <3>1, <3>2
    <3> QED
      BY <1>1, <3>1, <3>2, <3>3
  <2>2. inbox'[conn'][i] = s[k + i]
    BY <1>3, <1>8, <2>1
  <2> QED
    BY <2>1, <2>2 DEF Reading, s
<1> QED
  BY <1>6, <1>7, <1>12, <1>13, <1>14, <1>15, <1>5, <1>4, <1>1, <1>2 DEF Reading, L

(* What the server has read is the beginning of what its client sent, and     *)
(* once it is past the headers of a GET request it has seen the empty line or *)
(* the end.                                                                   *)
LEMMA ServerReads ==
    ASSUME Types, Control, Turns, Links, Streams, ServerStep, conn # None, conn' # None
    PROVE  Reading' /\ Requesting'
<1>1. /\ conn \in Clients /\ Reading /\ Requesting /\ UNCHANGED << conn, sent, script, client >>
      /\ ~Accept
  BY DEF ServerStep, Listen, Accept, ReadRequest, ReadHeader, ReadHeaderEnd, ReadFails, Stat, Open,
         Write, WriteFails, Fork, Wait, Close, clientVars, Control, Streams, Turns, Serving
<1>2. Taken \in Int
  <2>1. sent[conn] \in Int /\ Len(inbox[conn]) \in Int /\ Len(rio) \in Int
    BY <1>1, LenProperties DEF Types
  <2> QED
    BY <2>1 DEF Taken
<1>3. ASSUME NEW k \in Refills, ReadLine(k)
      PROVE  /\ Reading' /\ Taken' = Taken + 1 /\ ~Quiet
             /\ Head(Lines(k)) = script[conn][Taken + 1]
  BY <1>1, <1>3, ReadTaken
<1>4. ASSUME UNCHANGED << rio, inbox >>
      PROVE  /\ Reading' /\ Taken' = Taken
             /\ \A n : BlankIn(conn, n)' <=> BlankIn(conn, n)
             /\ link'[conn] = link[conn] => (Quiet' <=> Quiet)
  BY <1>1, <1>4 DEF Reading, Taken, BlankIn, Quiet
<1>5. CASE ReadRequest
  <2>1. Taken = 0 /\ link' = link /\ phase' \in {"headers", "writing"}
        /\ (phase' = "writing" => request'[conn].method # "GET")
    BY <1>1, <1>5, PageType
       DEF ReadRequest, Parsed, Respond, Requesting, Types
  <2>2. CASE ReadsNothing
    BY <1>4, <2>1, <2>2 DEF ReadsNothing, Quiet, Requesting, BlankIn
  <2>3. CASE \E k \in Refills : ReadLine(k)
    <3>1. Reading' /\ Taken' = 1
      BY <1>3, <2>1, <2>3
    <3>2. ~BlankIn(conn, Taken)'
      BY <3>1 DEF BlankIn
    <3> QED
      BY <1>1, <2>1, <3>1, <3>2 DEF Requesting
  <2> QED
    BY <1>5, <2>2, <2>3 DEF ReadRequest
<1>6. CASE ReadHeader
  <2>1. PICK k \in Refills : ReadLine(k) /\ HeaderRead(Head(Lines(k)))
    BY <1>6 DEF ReadHeader
  <2>2. /\ Reading' /\ Taken' = Taken + 1 /\ Taken >= 1 /\ ~BlankIn(conn, Taken)
        /\ Head(Lines(k)) = script[conn][Taken + 1]
    BY <1>1, <1>3, <1>6, <2>1 DEF ReadHeader, Requesting
  <2>3. CASE Head(Lines(k)) = Blank
    <3>1. BlankIn(conn, Taken)' /\ phase' = "stat"
      <4>1. Taken + 1 \in 2 .. Taken + 1
        BY <1>2, <2>2
      <4> QED
        BY <1>1, <2>1, <2>2, <2>3, <4>1 DEF BlankIn, HeaderRead
    <3> QED
      BY <1>1, <2>2, <3>1 DEF Requesting
  <2>4. CASE Head(Lines(k)) # Blank
    <3>1. ~BlankIn(conn, Taken)' /\ phase' = "headers"
      <4>1. \A i \in 2 .. Taken + 1 : i \in 2 .. Taken \/ i = Taken + 1
        BY <1>2, <2>2
      <4> QED
        BY <1>1, <2>1, <2>2, <2>4, <4>1 DEF BlankIn, HeaderRead
    <3> QED
      BY <1>1, <1>2, <2>2, <3>1 DEF Requesting
  <2> QED
    BY <2>3, <2>4
<1>7. CASE ReadHeaderEnd
  <2>1. Quiet /\ link' = link /\ phase' \in {"stat", "spinning"} /\ ~BlankIn(conn, Taken)
    BY <1>1, <1>7 DEF ReadHeaderEnd, ReadsNothing, Quiet, Requesting
  <2> QED
    BY <1>1, <1>4, <1>7, <2>1 DEF ReadHeaderEnd, ReadsNothing, Requesting
<1>8. CASE Write
  <2>1. \E m : Deliver(conn, m)
    BY <1>8 DEF Write, Handed
  <2>2. link'[conn] # "open" \/ link'[conn] = link[conn]
    BY <1>1, <2>1, DeliverLinks DEF Links, Present
  <2>3. /\ request' = request /\ phase \in {"stat", "open", "writing", "fork", "wait", "close"}
        /\ phase' \in {"open", "writing", "fork", "close"}
    BY <1>8 DEF Write, Types
  <2>4. Quiet => Quiet'
    BY <1>1, <1>8, <2>2 DEF Write, Quiet
  <2> QED
    BY <1>1, <1>4, <1>8, <2>3, <2>4 DEF Write, Requesting
<1>9. CASE Listen \/ ReadFails \/ Stat \/ Open \/ WriteFails \/ Fork \/ Wait
  <2>1. /\ UNCHANGED << rio, inbox, link, request >>
        /\ phase' \in {"accept", "exit"}
           \/ /\ phase \in {"stat", "open", "fork", "wait"}
              /\ phase' \in {"open", "writing", "fork", "wait", "close", "exit"}
    BY <1>9, PageType, StaticHeaderType, DynamicHeaderType, FileType
       DEF Listen, ReadFails, Stat, Open, WriteFails, Fork, Wait, netVars, Exit, OpenFails,
           Respond, Forbidden
  <2> QED
    BY <1>1, <1>4, <2>1 DEF Requesting
<1>10. CASE Close
  BY <1>10 DEF Close
<1> QED
  BY <1>1, <1>5, <1>6, <1>7, <1>8, <1>9, <1>10 DEF ServerStep

(* The server reads the next line each time, stops at the empty line, and has *)
(* something unread behind it when it breaks a connection off.                *)
LEMMA ServerKeepsStreams ==
    ASSUME Types, Control, Turns, Links, Streams, ServerStep
    PROVE  Streams'
<1>1. UNCHANGED << client, sent, script >>
  BY DEF ServerStep, Listen, Accept, ReadRequest, ReadHeader, ReadHeaderEnd, ReadFails, Stat, Open,
         Write, WriteFails, Fork, Wait, Close, clientVars
<1>2. ASSUME NEW d \in Clients, Queued(d)' \/ client'[d] = "idle"
      PROVE  Waiting(d)'
  <2>1. Queued(d) \/ client[d] = "idle"
    BY <1>1, <1>2, QueueShrinks
  <2>2. d # conn
    BY <2>1, TinyAssumption DEF Turns, TurnOf, Untouched
  <2>3. Same(d) /\ Waiting(d)
    BY <2>1, <2>2, ServerAside DEF Streams
  <2> QED
    BY <2>3 DEF Same, Waiting
<1>3. ASSUME NEW d \in Clients PROVE Ended(d)'
  <2>1. CASE d # conn
    <3>1. Same(d) /\ Ended(d)
      BY <2>1, ServerAside DEF Streams
    <3> QED
      BY <3>1 DEF Same, Ended, Excused, BlankIn, BlankAt
  <2>2. CASE d = conn /\ ~Close
    <3>1. served' = served
      BY <2>2 DEF ServerStep, Listen, Accept, ReadRequest, ReadHeader, ReadHeaderEnd, ReadFails,
                  Stat, Open, Write, WriteFails, Fork, Wait, netVars
    <3> QED
      BY <2>2, <3>1, TinyAssumption DEF Ended, Turns, Serving
  <2>3. CASE d = conn /\ Close
    <3>1. /\ UNCHANGED << request, link, inbox >>
          /\ served'[d] = IF inbox[d] # << >> THEN "broken" ELSE "end"
          /\ Reading /\ phase = "close"
          /\ request[d].method # "GET" \/ BlankIn(d, Taken) \/ Quiet
      BY <2>3, TinyAssumption DEF Close, Types, Streams, Requesting
    <3>2. /\ Len(inbox[d]) \in Nat /\ Len(rio) \in Nat /\ sent[d] \in Nat
          /\ Len(script[d]) \in Nat /\ sent[d] <= Len(script[d])
          /\ inbox[d] # << >> => Len(inbox[d]) >= 1
      BY LenProperties, EmptySeq DEF Types, Links, LinkOf
    <3>3. Taken \in Int /\ Taken <= sent[d] /\ (inbox[d] # << >> => Taken < sent[d])
      BY <2>3, <3>2 DEF Taken
    <3>4. CASE inbox[d] # << >>
      <4>1. BlankIn(d, Taken) => \E i \in BlankAt(script[d]) : i < Len(script[d])
        BY <3>2, <3>3, <3>4 DEF BlankIn, BlankAt
      <4>2. ~Quiet
        BY <2>3, <3>4 DEF Quiet
      <4> QED
        BY <1>1, <3>1, <3>4, <4>1, <4>2 DEF Ended, Excused
    <3>5. CASE inbox[d] = << >>
      <4>1. BlankIn(d, Taken) => BlankIn(d, sent[d])
        BY <3>2, <3>3 DEF BlankIn
      <4>2. Quiet => link[d] # "open"
        BY <2>3 DEF Quiet
      <4>3. BlankIn(d, sent[d])' <=> BlankIn(d, sent[d])
        BY <1>1 DEF BlankIn
      <4> QED
        BY <1>1, <3>1, <3>5, <4>1, <4>2, <4>3 DEF Ended
    <3> QED
      BY <3>4, <3>5
  <2> QED
    BY <2>1, <2>2, <2>3
<1>4. ASSUME conn' # None PROVE Reading' /\ Requesting'
  <2>1. CASE conn # None
    BY <1>4, <2>1, ServerReads
  <2>2. CASE conn = None
    <3>1. Accept
      BY <1>4, <2>2
         DEF ServerStep, Listen, Accept, ReadRequest, ReadHeader, ReadHeaderEnd, ReadFails, Stat,
             Open, Write, WriteFails, Fork, Wait, Close
    <3>2. /\ conn' \in Clients /\ Waiting(conn') /\ rio' = << >> /\ phase' = "request"
          /\ UNCHANGED << inbox, sent, script >>
      BY <3>1, HeadQueued DEF Accept, Streams, clientVars, netVars
    <3>3. sent'[conn'] \in Nat /\ DOMAIN inbox[conn'] = 1 .. Len(inbox[conn'])
      BY <1>1, <3>2, LenProperties DEF Types
    <3>4. Taken' = 0
      BY <3>2, <3>3 DEF Taken, Waiting
    <3> QED
      BY <3>2, <3>3, <3>4 DEF Reading, Requesting, Waiting
  <2> QED
    BY <2>1, <2>2
<1> QED
  BY <1>2, <1>3, <1>4 DEF Streams

(* Children read nothing.                                                     *)
LEMMA ChildrenKeepStreams ==
    ASSUME Types, Control, Turns, Links, Streams, NEW c \in Clients, Execve(c) \/ adder(c)
    PROVE  Streams'
<1>1. /\ conn = c /\ phase = "wait"
      /\ UNCHANGED << phase, conn, rio, backlog, request, client, sent, script, served, inbox >>
  BY DEF Execve, adder, clientVars, Control
<1>2. link'[c] = link[c] \/ (link[c] # "open" /\ link'[c] # "open")
  <2>1. link'[c] = link[c] \/ \E m : Deliver(c, m)
    BY DEF Execve, adder
  <2> QED
    BY <1>1, <2>1, DeliverLinks DEF Links, Present
<1>3. ASSUME NEW d \in Clients PROVE (link'[d] = "open" <=> link[d] = "open")
  BY <1>2, ChildAside DEF Same
<1>4. Reading /\ Requesting
  BY <1>1, TinyAssumption DEF Streams
<1>5. Reading' /\ Requesting'
  BY <1>1, <1>3, <1>4 DEF Reading, Requesting, Taken, Quiet, BlankIn
<1> QED
  BY <1>1, <1>3, <1>5 DEF Streams, Queued, Waiting, Ended, Excused, BlankIn, BlankAt

(* Only a client that connects joins the queue.                               *)
LEMMA QueueGrows ==
    ASSUME Types, NEW c \in Clients, ClientStep(c) \/ Shutdown(c) \/ Leave(c),
           NEW d \in Clients, Queued(d)'
    PROVE  Queued(d) \/ (d = c /\ client[c] = "idle")
<1>1. CASE backlog' = backlog
  BY <1>1 DEF Queued
<1>2. CASE Connect(c) /\ backlog' = Append(backlog, c)
  <2>1. /\ DOMAIN backlog' = 1 .. Len(backlog) + 1
        /\ \A i \in 1 .. Len(backlog) : backlog'[i] = backlog[i]
        /\ backlog'[Len(backlog) + 1] = c /\ Len(backlog) \in Nat
        /\ DOMAIN backlog = 1 .. Len(backlog)
    BY <1>2, AppendProperties, LenProperties DEF Types
  <2>2. client[c] = "idle"
    BY <1>2 DEF Connect
  <2>3. PICK i \in DOMAIN backlog' : backlog'[i] = d
    BY DEF Queued
  <2>4. i \in 1 .. Len(backlog) \/ i = Len(backlog) + 1
    BY <2>1, <2>3
  <2> QED
    BY <2>1, <2>2, <2>3, <2>4 DEF Queued
<1> QED
  BY <1>1, <1>2
     DEF ClientStep, Connect, SendLine, Receive, SeeEnd, SeeBreak, Shutdown, Leave

(* A line that is sent is the next one of what the client sends, and it may   *)
(* meet a connection that is closed already.                                  *)
LEMMA SendKeepsStreams ==
    ASSUME Types, Control, Turns, Links, Streams, NEW c \in Clients, SendLine(c)
    PROVE  Streams'
<1> DEFINE n == sent[c]
           line == script[c][n + 1]
<1>1. /\ client[c] = "active" /\ n < Len(script[c]) /\ n \in Nat /\ link[c] = "open"
      /\ sent'[c] = n + 1
      /\ UNCHANGED << phase, conn, rio, backlog, request, client, script, link >>
  BY DEF SendLine, serverVars, Types, Links, LinkOf
<1>2. ASSUME NEW d \in Clients, d # c
      PROVE  /\ Same(d) /\ Ended(d)'
             /\ (Queued(d)' \/ client'[d] = "idle" => Waiting(d)')
             /\ d = conn => Reading' /\ Requesting'
  <2>1. Same(d) /\ (Queued(d)' => Queued(d))
    BY <1>1, <1>2, ClientAside DEF Queued, ClientStep
  <2>2. Ended(d)' /\ (Queued(d)' \/ client'[d] = "idle" => Waiting(d)')
    BY <2>1 DEF Streams, Same, Ended, Excused, BlankIn, BlankAt, Waiting
  <2>3. d = conn => Reading /\ Requesting
    BY TinyAssumption DEF Streams
  <2>4. d = conn => Reading' /\ Requesting'
    BY <1>1, <2>1, <2>3 DEF Same, Reading, Requesting, Taken, Quiet, BlankIn
  <2> QED
    BY <2>1, <2>2, <2>4
<1>3. CASE served[c] = "no"
  <2>1. inbox'[c] = Append(inbox[c], line) /\ served' = served
    BY <1>1, <1>3 DEF SendLine, Attended, Types
  <2>2. /\ inbox[c] \in Seq(AllLines) /\ Len(inbox[c]) \in Nat
        /\ DOMAIN inbox[c] = 1 .. Len(inbox[c])
        /\ DOMAIN inbox'[c] = 1 .. Len(inbox[c]) + 1
        /\ Len(inbox'[c]) = Len(inbox[c]) + 1
        /\ \A i \in 1 .. Len(inbox[c]) : inbox'[c][i] = inbox[c][i]
        /\ inbox'[c][Len(inbox[c]) + 1] = line
    <3>1. n + 1 \in 1 .. Len(script[c]) /\ script[c] \in Seq(AllLines)
      BY <1>1 DEF Types
    <3>2. line \in AllLines
      BY <3>1
    <3>3. inbox[c] \in Seq(AllLines)
      BY DEF Types
    <3> HIDE DEF line
    <3>4. inbox'[c] \in Seq(AllLines)
      BY <2>1, <3>2, <3>3, AppendProperties
    <3>5. DOMAIN inbox'[c] = 1 .. Len(inbox'[c])
      BY <3>4, LenProperties
    <3> QED
      BY <2>1, <3>2, <3>3, <3>5, AppendProperties, LenProperties
  <2>3. Ended(c)'
    BY <1>3, <2>1 DEF Ended
  <2>4. ASSUME Queued(c)' \/ client'[c] = "idle" PROVE Waiting(c)'
    <3>1. Waiting(c)
      BY <1>1, <2>4 DEF Streams, Queued
    <3>2. Len(inbox[c]) = n
      BY <3>1 DEF Waiting
    <3>3. \A i \in 1 .. n + 1 : i \in 1 .. n \/ i = n + 1
      BY <1>1
    <3> QED
      BY <1>1, <2>2, <3>1, <3>2, <3>3 DEF Waiting
  <2>5. ASSUME c = conn PROVE Reading' /\ Requesting'
    <3>1. Reading /\ Requesting /\ ~Quiet /\ ~Quiet'
      BY <1>1, <2>5, TinyAssumption DEF Streams, Quiet
    <3>2. Len(rio) \in Nat /\ Taken = n - Len(inbox[c]) - Len(rio)
      BY <2>5, LenProperties DEF Types, Taken
    <3>3. Taken' = (n + 1) - (Len(inbox[c]) + 1) - Len(rio)
      BY <1>1, <2>2, <2>5 DEF Taken
    <3>4. Taken' = Taken /\ Taken \in Int /\ Taken + Len(rio) + (Len(inbox[c]) + 1) = n + 1
      <4> DEFINE a == Len(inbox[c])
                 b == Len(rio)
      <4>1. a \in Int /\ b \in Int /\ n \in Int /\ Taken = n - a - b
            /\ Taken' = (n + 1) - (a + 1) - b
        BY <1>1, <2>2, <3>2, <3>3
      <4> HIDE DEF a, b, n
      <4>2. Taken' = Taken /\ Taken \in Int /\ Taken + b + (a + 1) = n + 1
        BY <4>1
      <4> QED
        BY <4>2 DEF a, b
    <3>5. \A i \in DOMAIN inbox'[c] : inbox'[c][i] = script[c][Taken + Len(rio) + i]
      <4>1. \A i \in 1 .. Len(inbox[c]) + 1 :
                i \in 1 .. Len(inbox[c]) \/ i = Len(inbox[c]) + 1
        BY <2>2
      <4> QED
        BY <2>2, <2>5, <3>1, <3>4, <4>1 DEF Reading
    <3>6. Reading'
      BY <1>1, <2>5, <3>1, <3>4, <3>5 DEF Reading
    <3> QED
      BY <1>1, <2>5, <3>1, <3>4, <3>6 DEF Requesting, BlankIn
  <2> QED
    BY <1>1, <1>2, <2>3, <2>4, <2>5 DEF Streams, Control
<1>4. CASE served[c] # "no"
  <2>1. c # conn /\ ~Queued(c)
    BY <1>4, TinyAssumption DEF Turns, TurnOf, Serving, Untouched
  <2>2. Excused(c)
    <3>1. served[c] \in {"end", "broken"} /\ Ended(c)
      BY <1>4 DEF Types, Streams
    <3>2. BlankIn(c, n) => \E i \in BlankAt(script[c]) : i < Len(script[c])
      <4>1. Len(script[c]) \in Nat
        BY LenProperties DEF Types
      <4> QED
        BY <1>1, <4>1 DEF BlankIn, BlankAt
    <3> QED
      BY <1>1, <3>1, <3>2 DEF Ended, Excused
  <2>3. Ended(c)'
    <3>1. served'[c] # "end" /\ Excused(c)'
      BY <1>1, <1>4, <2>2 DEF SendLine, Attended, Types, Excused, BlankAt
    <3> QED
      BY <3>1 DEF Ended
  <2>4. ~Queued(c)' /\ client'[c] # "idle"
    BY <1>1, <2>1 DEF Queued
  <2> QED
    BY <1>1, <1>2, <2>1, <2>3, <2>4 DEF Streams, Control
<1> QED
  BY <1>3, <1>4

(* What a client sends arrives in order, behind what the server has read.     *)
LEMMA ClientsKeepStreams ==
    ASSUME Types, Control, Turns, Links, Streams,
           NEW c \in Clients, ClientStep(c) \/ Shutdown(c) \/ Leave(c)
    PROVE  Streams'
<1>1. CASE SendLine(c)
  BY <1>1, SendKeepsStreams
<1>2. CASE ~SendLine(c)
  <2>1. UNCHANGED << phase, conn, rio, request, sent, script, inbox, served >>
    BY <1>2
       DEF ClientStep, Connect, Receive, SeeEnd, SeeBreak, Shutdown, Leave, clientVars, serverVars,
           netVars
  <2>2. client'[c] # "idle"
    BY DEF ClientStep, Connect, SendLine, Receive, SeeEnd, SeeBreak, Shutdown, Leave, Become, Types,
           clientVars
  <2>3. link[c] # "open" /\ link'[c] = "open" => client[c] = "idle"
    BY DEF ClientStep, Connect, SendLine, Receive, SeeEnd, SeeBreak, Shutdown, Leave, netVars, Types
  <2>4. ASSUME NEW d \in Clients
        PROVE  (Queued(d)' \/ client'[d] = "idle" => Waiting(d)') /\ Ended(d)'
    <3>1. Queued(d)' \/ client'[d] = "idle" => Queued(d) \/ client[d] = "idle"
      BY <2>2, QueueGrows, ClientAside DEF Same
    <3>2. link[d] # "open" /\ link'[d] = "open" => served[d] = "no"
      BY <2>3, ClientAside DEF Same, Turns, TurnOf, Untouched
    <3> QED
      BY <2>1, <3>1, <3>2 DEF Streams, Waiting, Ended, Excused, BlankIn, BlankAt
  <2>5. ASSUME conn # None PROVE Reading' /\ Requesting'
    <3>1. link[conn] # "open" => link'[conn] # "open"
      BY <2>3, <2>5, ClientAside, TinyAssumption DEF Same, Turns, Serving, Control
    <3> QED
      BY <2>1, <2>5, <3>1 DEF Streams, Reading, Requesting, Taken, Quiet, BlankIn
  <2> QED
    BY <2>1, <2>4, <2>5 DEF Streams
<1> QED
  BY <1>1, <1>2

(* The server has read the beginning of what a client sent, and it breaks a   *)
(* connection off only when something was sent behind a whole request.        *)
THEOREM StreamsHold == Spec => [](Types /\ Control /\ Turns /\ Links /\ Streams)
<1>1. Init => Streams
  <2> SUFFICES ASSUME Init PROVE Streams
    OBVIOUS
  <2>1. \A c \in Clients : Waiting(c) /\ Ended(c)
    BY DEF Init, Waiting, Ended
  <2> QED
    BY <2>1 DEF Init, Streams
<1>2. Types /\ Control /\ Turns /\ Links /\ Streams /\ [Next]_vars => Streams'
  <2> SUFFICES ASSUME Types, Control, Turns, Links, Streams, [Next]_vars PROVE Streams'
    OBVIOUS
  <2>1. CASE ServerStep
    BY <2>1, ServerKeepsStreams
  <2>2. CASE ChildStep
    BY <2>2, ChildrenKeepStreams DEF ChildStep
  <2>3. ASSUME NEW c \in Clients, ClientStep(c) \/ Shutdown(c) \/ Leave(c)
        PROVE  Streams'
    BY <2>3, ClientsKeepStreams
  <2>4. CASE UNCHANGED << serverVars, backlog, clientVars, script, netVars >>
    BY <2>4 DEF Streams, Queued, Waiting, Ended, Excused, Reading, Requesting, Taken, Quiet, BlankIn,
                BlankAt, serverVars, clientVars, netVars
  <2>5. CASE Refused \/ Overruns
    <3>1. /\ UNCHANGED << rio, request, backlog, clientVars, script, netVars >>
          /\ conn' \in {conn, None} /\ phase' = "exit"
      BY <2>5, ServerEnds
    <3>2. \A c \in Clients : (Queued(c)' \/ client'[c] = "idle" => Waiting(c)') /\ Ended(c)'
      BY <3>1 DEF Streams, Queued, Waiting, Ended, Excused, BlankIn, BlankAt, clientVars, netVars
    <3>3. conn' # None => Reading' /\ Requesting'
      BY <3>1 DEF Streams, Reading, Requesting, Taken, clientVars, netVars
    <3> QED
      BY <3>2, <3>3 DEF Streams
  <2> QED
    BY <2>1, <2>2, <2>3, <2>4, <2>5, TinyAssumption DEF Next, Change, vars
<1> QED
  BY <1>1, <1>2, TurnsHold, LinksHold, PTL DEF Spec

(* Who finds its connection broken off.                                       *)
Failures ==
    \A c \in Clients : client[c] = "failed" /\ link[c] # "none" =>
        phase = "exit" \/ served[c] = "broken"

(* Every step keeps the reason for which a client failed.                     *)
LEMMA FailuresKept ==
    ASSUME Types, Control, Turns, Links, Failures, [Next]_vars
    PROVE  Failures'
<1> SUFFICES ASSUME NEW d \in Clients, client'[d] = "failed", link'[d] # "none"
             PROVE  phase' = "exit" \/ served'[d] = "broken"
  BY DEF Failures
<1>1. CASE ServerStep
  <2>1. client'[d] = client[d] /\ phase # "exit"
    BY <1>1
       DEF ServerStep, Listen, Accept, ReadRequest, ReadHeader, ReadHeaderEnd, ReadFails, Stat, Open,
           Write, WriteFails, Fork, Wait, Close, clientVars
  <2>2. CASE d # conn
    BY <1>1, <2>1, <2>2, ServerAside DEF Same, Failures
  <2>3. CASE d = conn
    <3>1. served[d] = "no" /\ link[d] # "none"
      BY <2>3, TinyAssumption DEF Turns, Serving, Links, LinkOf, Present
    <3> QED
      BY <2>1, <3>1 DEF Failures
  <2> QED
    BY <2>2, <2>3
<1>2. ASSUME NEW c \in Clients, Execve(c) \/ adder(c) PROVE phase' = "exit" \/ served'[d] = "broken"
  <2>1. UNCHANGED << phase, served, client >> /\ conn = c
    BY <1>2 DEF Execve, adder, clientVars, Control
  <2>2. link[d] # "none"
    BY <1>2, <2>1, ChildAside DEF Same, Links, LinkOf, Present
  <2> QED
    BY <2>1, <2>2 DEF Failures
<1>3. ASSUME NEW c \in Clients, ClientStep(c) \/ Shutdown(c) \/ Leave(c)
      PROVE  phase' = "exit" \/ served'[d] = "broken"
  <2>1. UNCHANGED phase
    BY <1>3 DEF ClientStep, Connect, SendLine, Receive, SeeEnd, SeeBreak, Shutdown, Leave, serverVars
  <2>2. CASE d # c
    BY <1>3, <2>1, <2>2, ClientAside DEF Same, Failures
  <2>3. CASE d = c
    <3>1. SeeBreak(c) \/ Connect(c)
      BY <1>3, <2>3 DEF ClientStep, SendLine, Receive, SeeEnd, Shutdown, Leave, Become, Types, clientVars
    <3>2. ~Connect(c)
      <4>1. Connect(c) => client[c] = "idle" /\ link[c] = "none"
        BY DEF Connect, Turns, TurnOf
      <4> QED
        BY <2>3, <4>1 DEF Connect, Become, Types
    <3> QED
      BY <2>1, <2>3, <3>1, <3>2 DEF SeeBreak, netVars
  <2> QED
    BY <2>2, <2>3
<1>4. CASE UNCHANGED << client, link, phase, served >>
  BY <1>4 DEF Failures
<1>5. CASE Refused \/ Overruns
  BY <1>5, ServerEnds
<1> QED
  BY <1>1, <1>2, <1>3, <1>4, <1>5, TinyAssumption
     DEF Next, ChildStep, Change, vars, serverVars, clientVars, netVars

(* A client that stays is broken off only for what it sent behind a request:  *)
(* the run's property, for all clients and all they may send.                 *)
THEOREM BrokenOffOnlyForUnread == Spec => []BrokenOffOnlyUnread
<1>1. Init => Failures
  BY DEF Init, Failures
<1>2. Types /\ Control /\ Turns /\ Links /\ Failures /\ [Next]_vars => Failures'
  BY FailuresKept
<1>3. Streams /\ Failures => BrokenOffOnlyUnread
  BY DEF Streams, Ended, Excused, Failures, BrokenOffOnlyUnread
<1> QED
  BY <1>1, <1>2, <1>3, StreamsHold, PTL DEF Spec

-----------------------------------------------------------------------------
(* Messages                                                                   *)

(* A whole message is not marked as damaged, and may become one that is.      *)
LEMMA WholeNotCut ==
    ASSUME NEW m \in WholeMessages
    PROVE  /\ m[1] # "cut" /\ m[1] # "spoilt" /\ ~Damaged(m) /\ m \in AllMessages
           /\ << "cut", m >> \in AllMessages /\ << "spoilt", m >> \in AllMessages
           /\ Damaged(<< "cut", m >>) /\ Damaged(<< "spoilt", m >>)
  BY DEF WholeMessages, AllMessages, Damaged

(* What is meant by messages, and by one more of them.                        *)
LEMMA MeantType ==
    ASSUME NEW ms \in Seq(AllMessages)
    PROVE  /\ Meant(ms) \in Seq(WholeMessages) /\ Len(Meant(ms)) = Len(ms)
           /\ DOMAIN Meant(ms) = 1 .. Len(ms) /\ DOMAIN ms = 1 .. Len(ms)
           /\ Len(ms) \in Nat
           /\ \A i \in 1 .. Len(ms) :
                 Meant(ms)[i] = IF Damaged(ms[i]) THEN ms[i][2] ELSE ms[i]
<1>1. Len(ms) \in Nat /\ DOMAIN ms = 1 .. Len(ms)
  BY LenProperties
<1>2. ASSUME NEW i \in 1 .. Len(ms)
      PROVE  (IF Damaged(ms[i]) THEN ms[i][2] ELSE ms[i]) \in WholeMessages
  <2>1. ms[i] \in AllMessages
    BY <1>1, ElementOfSeq
  <2>2. CASE ms[i] \in WholeMessages
    BY <2>2, WholeNotCut
  <2>3. CASE ms[i] \in {"cut", "spoilt"} \X WholeMessages
    BY <2>3 DEF Damaged
  <2> QED
    BY <2>1, <2>2, <2>3 DEF AllMessages
<1>3. Meant(ms) \in [1 .. Len(ms) -> WholeMessages]
  BY <1>1, <1>2 DEF Meant
<1>4. Meant(ms) \in Seq(WholeMessages) /\ Len(Meant(ms)) = Len(ms)
  BY <1>1, <1>3
<1> QED
  BY <1>1, <1>4 DEF Meant

(* One more message, whole or damaged, is one more message meant.             *)
LEMMA MeantAppend ==
    ASSUME NEW ms \in Seq(AllMessages), NEW m \in WholeMessages,
           NEW x \in {m, << "cut", m >>, << "spoilt", m >>}
    PROVE  Meant(Append(ms, x)) = Append(Meant(ms), m)
<1>1. x \in AllMessages /\ (IF Damaged(x) THEN x[2] ELSE x) = m
  <2>1. << "cut", m >>[2] = m /\ << "spoilt", m >>[2] = m
    OBVIOUS
  <2>2. CASE x = m
    BY <2>2, WholeNotCut
  <2>3. CASE x # m
    BY <2>1, <2>3, WholeNotCut
  <2> QED
    BY <2>2, <2>3
<1>2. /\ Append(ms, x) \in Seq(AllMessages) /\ Len(Append(ms, x)) = Len(ms) + 1
      /\ \A i \in 1 .. Len(ms) : Append(ms, x)[i] = ms[i]
      /\ Append(ms, x)[Len(ms) + 1] = x
      /\ Len(ms) \in Nat
  BY <1>1, AppendProperties, LenProperties
<1> DEFINE s == Meant(Append(ms, x))
           t == Append(Meant(ms), m)
<1>3. /\ s \in Seq(WholeMessages) /\ Len(s) = Len(ms) + 1
      /\ \A i \in 1 .. Len(ms) : s[i] = Meant(ms)[i]
      /\ s[Len(ms) + 1] = m
  <2>1. /\ s \in Seq(WholeMessages) /\ Len(s) = Len(ms) + 1
        /\ \A i \in 1 .. Len(ms) + 1 : s[i] =
              IF Damaged(Append(ms, x)[i]) THEN Append(ms, x)[i][2] ELSE Append(ms, x)[i]
    BY <1>2, MeantType
  <2> HIDE DEF s
  <2>2. s[Len(ms) + 1] = m
    BY <1>1, <1>2, <2>1
  <2>3. \A i \in 1 .. Len(ms) : s[i] = Meant(ms)[i]
    BY <1>2, <2>1, MeantType
  <2> QED
    BY <2>1, <2>2, <2>3
<1>4. /\ t \in Seq(WholeMessages) /\ Len(t) = Len(ms) + 1
      /\ \A i \in 1 .. Len(ms) : t[i] = Meant(ms)[i]
      /\ t[Len(ms) + 1] = m
  BY MeantType, AppendProperties
<1> HIDE DEF s, t
<1>5. \A i \in 1 .. Len(s) : s[i] = t[i]
  <2>1. \A i \in 1 .. Len(ms) + 1 : i \in 1 .. Len(ms) \/ i = Len(ms) + 1
    BY <1>2
  <2> QED
    BY <1>3, <1>4, <2>1
<1> QED
  BY <1>3, <1>4, <1>5, SeqEqual DEF s, t

(* A write adds the message it was meant to be, whatever became of it.        *)
LEMMA DeliverSpeaks ==
    ASSUME Types, NEW c \in Clients, NEW m \in WholeMessages,
           NEW x \in {m, << "cut", m >>, << "spoilt", m >>}, Deliver(c, x)
    PROVE  Spoken(c)' = Append(Spoken(c), m)
<1>1. written'[c] = Append(written[c], x) /\ written[c] \in Seq(AllMessages)
  BY DEF Deliver, Types
<1> QED
  BY <1>1, MeantAppend DEF Spoken

(* What Rio_writen hands over is the next message of the response.            *)
LEMMA WriteSpeaks ==
    ASSUME Types, Control, Write
    PROVE  /\ Head(todo) \in WholeMessages /\ Spoken(conn)' = Append(Spoken(conn), Head(todo))
           /\ conn \in Clients /\ Spoken(conn) \in Seq(WholeMessages)
<1>1. Head(todo) \in WholeMessages /\ conn \in Clients
  BY FirstTaken DEF Types, Control, Write
<1>2. Spoken(conn)' = Append(Spoken(conn), Head(todo))
  BY <1>1, DeliverSpeaks DEF Write, Handed
<1> QED
  BY <1>1, <1>2, MeantType DEF Types, Spoken

(* Only a body can hold memory that nobody set.                               *)
LEMMA NotUnset ==
    /\ \A status \in {"501", "404", "403"} :
          \A i \in DOMAIN clienterror(status) : ~Unset(clienterror(status)[i])
    /\ \A type, n : ~Unset(StaticHeader(type, n))
    /\ \A i \in DOMAIN DynamicHeader : ~Unset(DynamicHeader[i])
    /\ \A q : ~Unset(Answer(q))
    /\ ~Unset(<< "log" >>)
  BY DEF clienterror, DynamicHeader, StaticHeader, Answer, Unset

-----------------------------------------------------------------------------
(* Races                                                                      *)

(* For every file but a .png it is the file of that name that is opened.      *)
LEMMA OpensItsOwn ==
    ASSUME NEW name, ~Has(name, ".png")
    PROVE  get_filetype(name).filename = name
  BY DEF get_filetype

(* A file that is as long as it was holds no memory that nobody set.          *)
LEMMA ReadIntoSet ==
    ASSUME Types, NEW name, NEW n \in Nat, n <= Len(FileOf(name).bytes)
    PROVE  ~Unset(<< "body", ReadInto(FileOf(name).bytes, n) >>)
<1> DEFINE bytes == FileOf(name).bytes
           s == ReadInto(bytes, n)
<1>1. bytes \in Seq(STRING \ {"unset"}) /\ Len(bytes) \in Nat
  BY FileType DEF AllFiles
<1>2. \A i \in 1 .. n : i \in 1 .. Len(bytes) /\ s[i] = bytes[i]
  BY <1>1 DEF ReadInto
<1>3. \A i \in 1 .. n : s[i] # "unset"
  BY <1>1, <1>2, ElementOfSeq
<1>4. DOMAIN s = 1 .. n
  BY DEF ReadInto
<1> QED
  BY <1>3, <1>4 DEF Unset, ToSet

(* From stat to use, the server relies on the file stat saw, and records      *)
(* nothing in between but its own steps.                                      *)
LEMMA ServerKeepsRaces ==
    ASSUME Types, Control, Turns, Races, ServerStep
    PROVE  Races'
<1>1. CASE Listen \/ ReadFails \/ WriteFails \/ Close \/ Wait
  <2>1. phase' \in {"accept", "exit", "close"}
    BY <1>1 DEF Listen, ReadFails, WriteFails, Close, Wait, Exit
  <2> QED
    BY <2>1 DEF Races, ToOpen, ToRun
<1>2. CASE Accept
  <2>1. phase' = "request" /\ conn' = Head(backlog) /\ written' = written
    BY <1>2 DEF Accept, netVars
  <2>2. written[Head(backlog)] = << >>
    BY <1>2, HeadQueued DEF Turns, TurnOf, Untouched
  <2> QED
    BY <2>1, <2>2 DEF Races, ToOpen, ToRun
<1>3. CASE ReadRequest
  <2>1. /\ UNCHANGED << conn, written >> /\ written[conn] = << >>
        /\ \/ phase' = "headers"
           \/ phase' = "writing" /\ todo' = clienterror("501") /\ after' = "close"
    BY <1>3, PageType DEF ReadRequest, Parsed, Respond, Races
  <2> QED
    BY <2>1, NotUnset DEF Races, ToOpen, ToRun
<1>4. CASE ReadHeader \/ ReadHeaderEnd
  <2>1. /\ UNCHANGED << conn, written >> /\ written[conn] = << >>
        /\ phase' \in {"headers", "stat", "spinning"}
    BY <1>4 DEF ReadHeader, HeaderRead, ReadHeaderEnd, Races
  <2> QED
    BY <2>1 DEF Races, ToOpen, ToRun
<1>5. CASE Stat
  <2> DEFINE file == FileOf(MyName)
             type == get_filetype(MyName).type
  <2>1. /\ phase' = "writing" /\ size' = Len(file.bytes)
        /\ UNCHANGED << conn, request, raced, files >>
        /\ \A i \in DOMAIN todo' : ~Unset(todo'[i])
        /\ after' = "open" => file.kind = "file" /\ file.readable
        /\ after' = "fork" => file.kind = "file" /\ file.executable
    <3>1. /\ size' = Len(file.bytes) /\ UNCHANGED << conn, request, raced, files >>
          /\ \/ \E status \in {"404", "403"} : Respond(clienterror(status), "close")
             \/ /\ Respond(<< StaticHeader(type, Len(file.bytes)) >>, "open")
                /\ file.kind = "file" /\ file.readable
             \/ Respond(DynamicHeader, "fork") /\ file.kind = "file" /\ file.executable
      BY <1>5 DEF Stat, Forbidden, fileVars
    <3>2. CASE \E status \in {"404", "403"} : Respond(clienterror(status), "close")
      <4>1. PICK status \in {"404", "403"} : Respond(clienterror(status), "close")
        BY <3>2
      <4>2. phase' = "writing" /\ todo' = clienterror(status) /\ after' = "close"
        BY <4>1, PageType DEF Respond
      <4> QED
        BY <3>1, <4>2, NotUnset
    <3>3. CASE /\ Respond(<< StaticHeader(type, Len(file.bytes)) >>, "open")
               /\ file.kind = "file" /\ file.readable
      <4>1. /\ phase' = "writing" /\ todo' = << StaticHeader(type, Len(file.bytes)) >>
            /\ after' = "open"
        BY <3>3 DEF Respond
      <4> QED
        BY <3>1, <3>3, <4>1, NotUnset
    <3>4. CASE Respond(DynamicHeader, "fork") /\ file.kind = "file" /\ file.executable
      <4>1. phase' = "writing" /\ todo' = DynamicHeader /\ after' = "fork"
        BY <3>4, DynamicHeaderType DEF Respond
      <4> QED
        BY <3>1, <3>4, <4>1, NotUnset
    <3> QED
      BY <3>1, <3>2, <3>3, <3>4
  <2>2. FileOf(MyName)' = FileOf(MyName)
    BY <2>1 DEF FileOf, MyName, Mine
  <2> QED
    BY <2>1, <2>2 DEF Races, ToOpen, ToRun, AsStatted, Runs
<1>6. CASE Open
  <2> DEFINE file == FileOf(get_filetype(MyName).filename)
             body == << "body", ReadInto(file.bytes, size) >>
  <2>1. CASE file.kind = "file" /\ file.readable /\ size # 0
    <3>1. /\ phase' = "writing" /\ todo' = << body >> /\ after' = "close"
          /\ UNCHANGED << conn, request, raced >>
      BY <1>6, <2>1 DEF Open, Respond, fileVars
    <3>2. Unset(body) => raced[conn] \/ Png(conn)
      <4>1. SUFFICES ASSUME ~raced[conn], ~Png(conn) PROVE ~Unset(body)
        OBVIOUS
      <4>2. file = FileOf(MyName)
        BY <4>1, OpensItsOwn DEF Png, MyName, Mine
      <4>3. size = Len(FileOf(MyName).bytes) /\ size \in Nat
        BY <1>6, <4>1 DEF Open, Races, ToOpen, AsStatted, Control
      <4>4. ~Unset(<< "body", ReadInto(FileOf(MyName).bytes, size) >>)
        BY <4>3, ReadIntoSet
      <4> QED
        BY <4>2, <4>4
    <3> HIDE DEF body
    <3>3. \A i \in DOMAIN todo' : Unset(todo'[i]) => raced'[conn'] \/ Png(conn)'
      BY <3>1, <3>2 DEF Png
    <3> QED
      BY <3>1, <3>3 DEF Races, ToOpen, ToRun
  <2>2. CASE ~(file.kind = "file" /\ file.readable /\ size # 0)
    <3>1. phase' \in {"close", "exit"}
      BY <1>6, <2>2 DEF Open, OpenFails, Exit, Respond
    <3> QED
      BY <3>1 DEF Races, ToOpen, ToRun
  <2> QED
    BY <2>1, <2>2
<1>7. CASE Write
  <2>1. /\ UNCHANGED << conn, request, size, raced, files, child, after >>
        /\ phase = "writing" /\ phase' \in {after, "writing"} /\ todo' = Tail(todo)
        /\ after \in {"close", "open", "fork"}
    BY <1>7 DEF Write, Types
  <2>2. \A i \in DOMAIN todo' : \E j \in DOMAIN todo : todo'[i] = todo[j]
    <3>1. todo \in Seq(WholeMessages) /\ todo # << >>
      BY <2>1 DEF Types, Control
    <3>2. \A i \in DOMAIN todo' : i + 1 \in DOMAIN todo /\ todo'[i] = todo[i + 1]
      BY <2>1, <3>1, HeadTailProperties, LenProperties
    <3> QED
      BY <3>2
  <2>3. FileOf(MyName)' = FileOf(MyName) /\ (Png(conn)' <=> Png(conn))
    BY <2>1 DEF FileOf, MyName, Mine, Png
  <2>4. (ToOpen' => ToOpen) /\ (ToRun' => ToRun)
    BY <2>1 DEF ToOpen, ToRun
  <2> QED
    BY <2>1, <2>2, <2>3, <2>4 DEF Races, AsStatted, Runs
<1>8. CASE Fork
  <2>1. phase = "fork" /\ phase' = "wait" /\ UNCHANGED << conn, request, raced, files >>
    BY <1>8 DEF Fork, fileVars
  <2>2. FileOf(MyName)' = FileOf(MyName)
    BY <2>1 DEF FileOf, MyName, Mine
  <2> QED
    BY <2>1, <2>2 DEF Races, ToOpen, ToRun, Runs
<1> QED
  BY <1>1, <1>2, <1>3, <1>4, <1>5, <1>6, <1>7, <1>8 DEF ServerStep

(* A child that has started relies on the file no longer.                     *)
LEMMA ChildrenKeepRaces ==
    ASSUME Types, Control, Races, NEW c \in Clients, Execve(c) \/ adder(c)
    PROVE  Races'
<1>1. /\ conn = c /\ phase = "wait" /\ UNCHANGED << phase, conn >>
      /\ child'[c] # "forked"
  BY DEF Execve, adder, Control, Types
<1> QED
  BY <1>1 DEF Races, ToOpen, ToRun

(* Who touches neither the server, the files nor what is written, keeps them  *)
(* apart from races.                                                          *)
LEMMA OthersKeepRaces ==
    ASSUME Types, Control, Turns, Races, UNCHANGED << serverVars, written, fileVars >>
    PROVE  Races'
  BY DEF Races, ToOpen, ToRun, AsStatted, Runs, Png, MyName, Mine, FileOf, serverVars, fileVars

(* A change of its file is noticed for the request that depends on it.        *)
LEMMA ChangesKeepRaces ==
    ASSUME Types, Control, Turns, Races, NEW name \in Names, Change(name)
    PROVE  Races'
<1>1. UNCHANGED << phase, conn, request, size, todo, after, child, written >>
  BY DEF Change, serverVars, netVars
<1>2. CASE conn = None \/ phase \notin {"writing", "open", "fork", "wait"}
  <2>1. ~ToOpen' /\ ~ToRun' /\ phase' # "writing"
    BY <1>1, <1>2, TinyAssumption DEF ToOpen, ToRun, Control
  <2> QED
    BY <1>1, <2>1 DEF Races
<1>3. CASE conn \in Clients /\ phase \in {"writing", "open", "fork", "wait"}
  <2>1. raced'[conn] = (raced[conn] \/ name = MyName)
    BY <1>3 DEF Change
  <2>2. name # MyName => FileOf(MyName)' = FileOf(MyName)
    BY <1>1 DEF Change, FileOf, MyName, Mine, Types
  <2> QED
    BY <1>1, <1>3, <2>1, <2>2 DEF Races, ToOpen, ToRun, AsStatted, Runs, Png
<1> QED
  BY <1>2, <1>3 DEF Control

(* Until its file has been opened or run, a request whose file has not        *)
(* changed finds it as stat did.                                              *)
THEOREM RacesHold == Spec => []Races
<1>1. Init => Races
  BY DEF Init, Races, ToOpen, ToRun
<1>2. Types /\ Control /\ Turns /\ Races /\ [Next]_vars => Races'
  <2> SUFFICES ASSUME Types, Control, Turns, Races, [Next]_vars PROVE Races'
    OBVIOUS
  <2>1. CASE ServerStep
    BY <2>1, ServerKeepsRaces
  <2>2. CASE ChildStep
    BY <2>2, ChildrenKeepRaces DEF ChildStep
  <2>3. ASSUME NEW c \in Clients, ClientStep(c) \/ Shutdown(c) \/ Leave(c)
        PROVE  Races'
    <3>1. UNCHANGED << serverVars, written, fileVars >>
      BY <2>3 DEF ClientStep, Connect, SendLine, Receive, SeeEnd, SeeBreak, Shutdown, Leave, netVars
    <3> QED
      BY <3>1, OthersKeepRaces
  <2>4. ASSUME NEW name \in Names, Change(name) PROVE Races'
    BY <2>4, ChangesKeepRaces
  <2>5. CASE UNCHANGED vars
    BY <2>5, OthersKeepRaces DEF vars, netVars
  <2>6. CASE Refused \/ Overruns
    BY <2>6, ServerEnds DEF Races, ToOpen, ToRun
  <2> QED
    BY <2>1, <2>2, <2>3, <2>4, <2>5, <2>6, TinyAssumption DEF Next
<1> QED
  BY <1>1, <1>2, TurnsHold, PTL DEF Spec

(* What has been written.                                                     *)
BodyOf(c) == \A i \in DOMAIN Spoken(c) : Unset(Spoken(c)[i]) => raced[c] \/ Png(c)

(* One more message of the response at hand keeps the cause of unset bytes.   *)
LEMMA BodyKept ==
    ASSUME BodyOf(conn), Types, NEW d, d = conn, NEW m \in WholeMessages,
           Spoken(d)' = Append(Spoken(d), m), Spoken(d) \in Seq(WholeMessages),
           Unset(m) => raced[d] \/ Png(d),
           UNCHANGED << raced, request >>
    PROVE  BodyOf(d)'
<1>1. /\ DOMAIN Spoken(d)' = 1 .. Len(Spoken(d)) + 1
      /\ \A i \in 1 .. Len(Spoken(d)) : Spoken(d)'[i] = Spoken(d)[i]
      /\ Spoken(d)'[Len(Spoken(d)) + 1] = m
      /\ DOMAIN Spoken(d) = 1 .. Len(Spoken(d)) /\ Len(Spoken(d)) \in Nat
  BY AppendProperties, LenProperties
<1>2. \A i \in DOMAIN Spoken(d)' : i \in DOMAIN Spoken(d) \/ i = Len(Spoken(d)) + 1
  BY <1>1
<1> QED
  BY <1>1, <1>2 DEF BodyOf, Png

(* Every step keeps it, for every client.                                     *)
LEMMA BodiesKept ==
    ASSUME Types, Control, Turns, Races, \A c \in Clients : BodyOf(c), [Next]_vars,
           NEW d \in Clients
    PROVE  BodyOf(d)'
<1> USE TinyAssumption
<1>1. ASSUME ServerStep PROVE BodyOf(d)'
  <2>1. CASE d # conn
    BY <1>1, <2>1, ServerAside DEF Same, BodyOf, Spoken, Png
  <2>2. CASE d = conn /\ Write
    <3>1. /\ Head(todo) \in WholeMessages /\ Spoken(d)' = Append(Spoken(d), Head(todo))
          /\ Spoken(d) \in Seq(WholeMessages)
      BY <2>2, WriteSpeaks DEF Write, Spoken
    <3>2. Unset(Head(todo)) => raced[d] \/ Png(d)
      <4>1. Head(todo) = todo[1] /\ 1 \in DOMAIN todo
        BY <2>2, LenProperties, EmptySeq DEF Write, Control, Types
      <4> QED
        BY <2>2, <4>1 DEF Races, Write
    <3> QED
      BY <2>2, <3>1, <3>2, BodyKept DEF Write
  <2>3. CASE d = conn /\ ReadRequest
    <3>1. written'[d] = << >>
      BY <2>3 DEF ReadRequest, Races
    <3>2. DOMAIN Spoken(d)' = {}
      BY <3>1 DEF Spoken, Meant
    <3> QED
      BY <3>2 DEF BodyOf
  <2>4. CASE ~Write /\ ~ReadRequest
    <3>1. UNCHANGED << written, request, raced >>
      BY <1>1, <2>4
         DEF ServerStep, Listen, Accept, ReadHeader, ReadHeaderEnd, ReadFails, Stat, Open,
             WriteFails, Fork, Wait, Close, netVars, fileVars
    <3> QED
      BY <3>1 DEF BodyOf, Spoken, Png
  <2> QED
    BY <2>1, <2>2, <2>3, <2>4
<1>2. ASSUME NEW c \in Clients, Execve(c) \/ adder(c) PROVE BodyOf(d)'
  <2>1. CASE d # c \/ written' = written
    <3>1. UNCHANGED << written[d], request, raced >>
      BY <1>2, <2>1, ChildAside DEF Same, Execve, adder, fileVars
    <3> QED
      BY <3>1 DEF BodyOf, Spoken, Png
  <2>2. CASE d = c /\ written' # written
    <3>1. PICK m \in WholeMessages : Deliver(d, m) /\ ~Unset(m)
      <4>1. CASE Execve(c)
        <5>1. Deliver(d, << "log" >>) /\ << "log" >> \in WholeMessages
          BY <2>2, <4>1 DEF Execve, WholeMessages
        <5> QED
          BY <5>1, NotUnset
      <4>2. CASE adder(c)
        <5>1. ~Fails(c) /\ Deliver(d, Answer(Query(c)))
          BY <2>2, <4>2 DEF adder, Query
        <5>2. Answer(Query(c)) \in WholeMessages
          <6>1. request[c] \in AllRequests
            BY <4>2 DEF adder, Types, Control
          <6>2. Query(c) \in AllQueries
            BY <5>1, <6>1 DEF AllRequests, AllUris, cgiargs, Fails, Crashes, Query
          <6> QED
            BY <6>2, AnswerType
        <5> QED
          BY <5>1, <5>2, NotUnset
      <4> QED
        BY <1>2, <4>1, <4>2
    <3>2. Spoken(d)' = Append(Spoken(d), m) /\ Spoken(d) \in Seq(WholeMessages)
      BY <3>1, DeliverSpeaks, MeantType DEF Types, Spoken
    <3>3. d = conn /\ UNCHANGED << raced, request >>
      BY <1>2, <2>2 DEF Execve, adder, Control, fileVars
    <3> QED
      BY <3>1, <3>2, <3>3, BodyKept
  <2> QED
    BY <2>1, <2>2
<1>3. ASSUME NEW name \in Names, Change(name) PROVE BodyOf(d)'
  <2>1. UNCHANGED << written, request >> /\ (raced[d] => raced'[d])
    BY <1>3 DEF Change, serverVars, netVars
  <2> QED
    BY <2>1 DEF BodyOf, Spoken, Png
<1>4. CASE UNCHANGED << written, request, raced >>
  BY <1>4 DEF BodyOf, Spoken, Png
<1>5. ASSUME NEW c \in Clients, ClientStep(c) \/ Shutdown(c) \/ Leave(c)
      PROVE  UNCHANGED << written, request, raced >>
  BY <1>5 DEF ClientStep, Connect, SendLine, Receive, SeeEnd, SeeBreak, Shutdown, Leave, netVars,
              serverVars, fileVars
<1>6. ASSUME Refused \/ Overruns PROVE UNCHANGED << written, request, raced >>
  BY <1>6, ServerEnds DEF netVars, fileVars
<1> QED
  BY <1>1, <1>2, <1>3, <1>4, <1>5, <1>6 DEF Next, ChildStep, vars, serverVars, netVars, fileVars

(* Memory nobody set is sent only for a file that changed, or a .png: the     *)
(* run's property, for all files and all sizes.                               *)
THEOREM BodyIsTheFileAlways == Spec => []BodyIsTheFile
<1> DEFINE Bodies == \A c \in Clients : BodyOf(c)
<1>1. Init => Bodies
  BY DEF Init, BodyOf, Spoken, Meant
<1>2. Types /\ Control /\ Turns /\ Races /\ Bodies /\ [Next]_vars => Bodies'
  BY BodiesKept
<1>3. Types /\ Bodies => BodyIsTheFile
  <2> SUFFICES ASSUME Types, Bodies, NEW c \in Clients, NEW i \in DOMAIN written[c]
               PROVE  Unset(Spoken(c)[i]) => raced[c] \/ Png(c)
    BY DEF BodyIsTheFile, Spoken, Unset, Png
  <2>1. i \in DOMAIN Spoken(c)
    BY DEF Spoken, Meant
  <2> QED
    BY <2>1 DEF BodyOf
<1> HIDE DEF Bodies
<1> QED
  BY <1>1, <1>2, <1>3, TurnsHold, RacesHold, PTL DEF Spec

(* What makes the server end.                                                 *)
ExitCause ==
    phase = "exit" /\ conn # None =>
        \/ client[conn] = "left" /\ (written[conn] # << >> \/ link[conn] = "reset")
        \/ raced[conn]
        \/ Png(conn)
        \/ TooLong(Mine)

(* Every step keeps the cause of the server's end.                            *)
LEMMA ExitCauseKept ==
    ASSUME Types, Control, Turns, Links, Races, ExitCause, [Next]_vars
    PROVE  ExitCause'
<1> USE TinyAssumption
<1>1. CASE phase = "exit"
  <2>1. ~ServerStep /\ ~ChildStep
    BY <1>1
       DEF ServerStep, Listen, Accept, ReadRequest, ReadHeader, ReadHeaderEnd, ReadFails, Stat, Open,
           Write, WriteFails, Fork, Wait, Close, ChildStep, Execve, adder, Control
  <2>2. ASSUME NEW c \in Clients, ClientStep(c) \/ Shutdown(c) \/ Leave(c), conn # None
        PROVE  ExitCause'
    <3>1. /\ UNCHANGED << conn, request, raced, written >>
          /\ client[c] = "left" => FALSE
      BY <2>2 DEF ClientStep, Connect, SendLine, Receive, SeeEnd, SeeBreak, Shutdown, Leave,
                  serverVars, fileVars, netVars
    <3>2. conn # c => Same(conn)
      BY <2>2, ClientAside DEF Control
    <3> QED
      BY <1>1, <2>2, <3>1, <3>2 DEF ExitCause, Same, Png, Mine
  <2>3. ASSUME NEW c \in Clients, ClientStep(c) \/ Shutdown(c) \/ Leave(c)
        PROVE  UNCHANGED conn
    BY <2>3 DEF ClientStep, Connect, SendLine, Receive, SeeEnd, SeeBreak, Shutdown, Leave,
                serverVars
  <2>4. CASE UNCHANGED vars
    BY <2>4 DEF ExitCause, Png, Mine, vars, serverVars, clientVars, netVars, fileVars
  <2>5. ASSUME NEW name \in Names, Change(name) PROVE FALSE
    BY <1>1, <2>5 DEF Change
  <2>6. ~(Refused \/ Overruns)
    BY <1>1, ServerEnds
  <2> QED
    BY <2>1, <2>2, <2>3, <2>4, <2>5, <2>6 DEF Next, ExitCause
<1>2. CASE phase # "exit" /\ phase' = "exit"
  <2>1. Listen \/ ReadFails \/ WriteFails \/ (Open /\ OpenFails) \/ Refused \/ Overruns
    <3>1. ServerStep \/ Refused \/ Overruns
      BY <1>2
         DEF Next, ChildStep, Execve, adder, ClientStep, Connect, SendLine, Receive, SeeEnd,
             SeeBreak, Shutdown, Leave, Change, vars, serverVars
    <3> QED
      BY <1>2, <3>1, PageType
         DEF ServerStep, Accept, ReadRequest, Parsed, ReadHeader, HeaderRead, ReadHeaderEnd, Stat,
             Open, Write, Fork, Wait, Close, Respond, Forbidden, Types
  <2>2. CASE Listen
    BY <2>2 DEF Listen, Turns, Serving, ExitCause
  <2>3. CASE ReadFails \/ WriteFails
    <3>1. link[conn] = "reset" /\ conn \in Clients /\ UNCHANGED << conn, client, link >>
      BY <2>3 DEF ReadFails, WriteFails, Control, clientVars, netVars
    <3>2. client[conn] = "left"
      BY <3>1 DEF Links, LinkOf
    <3> QED
      BY <3>1, <3>2 DEF ExitCause
  <2>4. CASE Open
    <3> DEFINE file == FileOf(get_filetype(MyName).filename)
    <3>1. ~(file.kind = "file" /\ file.readable)
      BY <1>2, <2>4 DEF Open, Respond
    <3>2. ~raced[conn] => AsStatted
      BY <2>4 DEF Open, Races, ToOpen
    <3>3. ~Png(conn) => file = FileOf(MyName)
      BY OpensItsOwn DEF Png, MyName, Mine
    <3>4. raced[conn] \/ Png(conn)
      BY <3>1, <3>2, <3>3 DEF AsStatted
    <3> QED
      BY <2>4, <3>4 DEF Open, ExitCause, Png, fileVars
  <2>5. CASE Refused
    BY <2>5 DEF Refused, ExitCause
  <2>6. CASE Overruns
    BY <2>6 DEF Overruns, ExitCause, Mine
  <2> QED
    BY <2>1, <2>2, <2>3, <2>4, <2>5, <2>6
<1>3. CASE phase' # "exit"
  BY <1>3 DEF ExitCause
<1> QED
  BY <1>1, <1>2, <1>3

(* A client that has ended its request without an empty line.                 *)
LEMMA SpinsUnfinished ==
    ASSUME Types, Control, Links, Streams, phase = "spinning"
    PROVE  link[conn] # "open" /\ BlankAt(SubSeq(script[conn], 1, sent[conn])) = {}
<1> DEFINE n == sent[conn]
           s == script[conn]
<1>1. conn \in Clients /\ Quiet /\ ~BlankIn(conn, Taken)
  BY TinyAssumption DEF Control, Streams, Requesting
<1>2. Taken = n /\ n \in Nat
  BY <1>1 DEF Quiet, Taken, Types
<1>3. s \in Seq(AllLines) /\ Len(s) \in Nat /\ n <= Len(s)
  BY <1>1, LenProperties DEF Types, Links, LinkOf
<1>4. Len(SubSeq(s, 1, n)) = n /\ \A i \in 1 .. n : SubSeq(s, 1, n)[i] = s[i]
  BY <1>2, <1>3
<1>5. BlankAt(SubSeq(s, 1, n)) = {}
  BY <1>1, <1>2, <1>4 DEF BlankAt, BlankIn
<1> QED
  BY <1>1, <1>5 DEF Quiet

(* What loses the server over a request, for all clients: nothing but one     *)
(* that left in its response, a changed file, a .png, a request that is too   *)
(* long, or an unfinished one.                                                *)
THEOREM ServerLostOnlySo == Spec => []ServerLostOnly
<1>1. Init => ExitCause
  BY DEF Init, ExitCause
<1>2. Types /\ Control /\ Turns /\ Links /\ Races /\ ExitCause /\ [Next]_vars => ExitCause'
  BY ExitCauseKept
<1>3. Types /\ Control /\ Links /\ Streams /\ ExitCause => ServerLostOnly
  BY SpinsUnfinished DEF ExitCause, ServerLostOnly, Png, MyName, Mine
<1> QED
  BY <1>1, <1>2, <1>3, StreamsHold, RacesHold, PTL DEF Spec

-----------------------------------------------------------------------------
(* Responses                                                                  *)

(* Writing the first of the messages to come adds nothing to the whole.       *)
LEMMA TodoMoves ==
    ASSUME NEW S, NEW s \in Seq(S), NEW t \in Seq(S), t # << >>
    PROVE  /\ Append(s, Head(t)) \o Tail(t) = s \o t
           /\ Append(s, Head(t)) \in Seq(S)
           /\ Len(t) = 1 => Append(s, Head(t)) = s \o t
<1>1. Head(t) \in S /\ Tail(t) \in Seq(S) /\ Len(t) \in Nat \ {0}
  BY FirstTaken
<1>2. Append(s, Head(t)) = s \o << Head(t) >> /\ << Head(t) >> \in Seq(S)
  BY <1>1, AppendIsConcat
<1>3. << Head(t) >> \o Tail(t) = t
  <2> DEFINE u == << Head(t) >> \o Tail(t)
  <2>1. /\ u \in Seq(S) /\ Len(u) = Len(t) /\ u[1] = Head(t) /\ Head(t) = t[1]
        /\ \A i \in 1 .. Len(t) - 1 : u[i + 1] = t[i + 1]
    BY <1>1, <1>2, HeadTailProperties, ConcatProperties
  <2> HIDE DEF u
  <2>2. \A i \in 1 .. Len(u) : u[i] = t[i]
    <3> TAKE i \in 1 .. Len(u)
    <3>1. CASE i = 1
      BY <2>1, <3>1
    <3>2. CASE i # 1
      <4>1. i - 1 \in 1 .. Len(t) - 1 /\ (i - 1) + 1 = i
        BY <1>1, <2>1, <3>2
      <4> QED
        BY <2>1, <4>1
    <3> QED
      BY <3>1, <3>2
  <2>3. u = t
    BY <2>1, <2>2, SeqEqual
  <2> QED
    BY <2>3 DEF u
<1>4. (s \o << Head(t) >>) \o Tail(t) = s \o (<< Head(t) >> \o Tail(t))
  BY <1>1, <1>2, ConcatAssociative
<1>5. Append(s, Head(t)) \in Seq(S)
  BY <1>1, AppendProperties
<1>6. Len(t) = 1 => Append(s, Head(t)) = s \o t
  <2>1. Len(t) = 1 => Tail(t) = << >>
    BY FirstTaken
  <2>2. Append(s, Head(t)) \o << >> = Append(s, Head(t))
    BY <1>5, ConcatEmptySeq
  <2> QED
    BY <1>2, <1>3, <1>4, <2>1, <2>2
<1> QED
  BY <1>2, <1>3, <1>4, <1>5, <1>6

(* An error page and a file are whole responses.                              *)
LEMMA PageOrFile ==
    ASSUME NEW c, NEW ms, IsPage(ms) \/ IsFile(ms)
    PROVE  IsResponse(c, ms)
  BY DEF IsPage, IsFile, IsResponse

(* What is written of a planned response begins it.                           *)
LEMMA PlannedBegins ==
    ASSUME NEW c, NEW ms \in Seq(WholeMessages), NEW t \in Seq(WholeMessages),
           NEW next \in {"close", "open", "fork"}, Planned(next, ms \o t)
    PROVE  BeginsResponse(c, ms)
<1> DEFINE w == ms \o t
<1>1. /\ w \in Seq(WholeMessages) /\ IsPrefix(ms, w) /\ Len(ms) \in Nat /\ Len(t) \in Nat
      /\ Len(w) = Len(ms) + Len(t)
      /\ \A i \in 1 .. Len(ms) : ms[i] = w[i]
  BY ConcatProperties, PrefixOfConcat, LenProperties
<1> HIDE DEF w
<1>2. CASE Len(ms) = 0
  <2> DEFINE page == clienterror("404")
  <2>1. page \in Seq(WholeMessages) /\ Len(page) \in Nat
    BY PageType, LenProperties
  <2> HIDE DEF page
  <2>2. IsPrefix(ms, page)
    <3>1. Len(ms) <= Len(page) /\ \A i \in 1 .. Len(ms) : ms[i] = page[i]
      BY <1>2, <2>1
    <3> QED
      BY <2>1, <3>1, PrefixElements
  <2> QED
    BY <2>2 DEF BeginsResponse, page
<1>3. CASE w = DynamicHeader \/ IsPage(w)
  BY <1>1, <1>3 DEF BeginsResponse, IsPage
<1>4. CASE Len(ms) # 0 /\ IsHeader(w)
  <2>1. Len(ms) = 1
    BY <1>1, <1>4 DEF IsHeader
  <2>2. ms[1] = w[1]
    BY <1>1, <2>1
  <2> QED
    BY <1>4, <2>1, <2>2 DEF IsHeader, BeginsResponse
<1>5. CASE Len(ms) # 0 /\ IsFile(w)
  <2>1. Len(ms) \in {1, 2} /\ Len(ms) <= Len(w) /\ Len(w) \in {1, 2}
    <3>1. Len(w) = 1 \/ Len(w) = 2
      BY <1>5 DEF IsFile
    <3> DEFINE a == Len(ms)
               b == Len(t)
               n == Len(w)
    <3>2. a \in Nat /\ b \in Nat /\ n = a + b /\ a # 0 /\ (n = 1 \/ n = 2)
      BY <1>1, <1>5, <3>1
    <3> HIDE DEF a, b, n
    <3>3. a \in {1, 2} /\ a <= n /\ n \in {1, 2}
      BY <3>2
    <3> QED
      BY <3>3 DEF a, n
  <2>2. ms[1] = w[1]
    BY <1>1, <2>1
  <2>3. CASE Len(ms) = 1
    BY <1>5, <2>2, <2>3 DEF IsFile, BeginsResponse
  <2>4. CASE Len(ms) = 2
    <3>1. Len(w) = 2 /\ ms[2] = w[2]
      BY <1>1, <2>1, <2>4
    <3>2. IsFile(ms)
      BY <1>5, <2>2, <2>4, <3>1 DEF IsFile
    <3> QED
      BY <3>2, PageOrFile DEF BeginsResponse
  <2> QED
    BY <2>1, <2>3, <2>4
<1> QED
  BY <1>1, <1>2, <1>3, <1>4, <1>5 DEF Planned, w

(* A client whose response is finished stays finished while nobody writes.    *)
LEMMA FinishedKept ==
    ASSUME NEW c, Finished(c), UNCHANGED << written[c], request[c] >>,
           raced[c] => raced'[c], link[c] = "reset" => link'[c] = "reset"
    PROVE  Finished(c)'
  BY DEF Finished, Spoken, IsResponse, Query

(* Where nothing has been written, the messages to come are all of the        *)
(* response.                                                                  *)
LEMMA SilentYet ==
    ASSUME Types, written[conn] = << >>, NEW ms \in Seq(WholeMessages)
    PROVE  Spoken(conn) = << >> /\ Spoken(conn) \o ms = ms
<1>1. Spoken(conn) \in Seq(WholeMessages) /\ Len(Spoken(conn)) = 0
  <2>1. written[conn] \in Seq(AllMessages) /\ Len(written[conn]) = 0
    BY EmptySeq
  <2> QED
    BY <2>1, MeantType DEF Spoken
<1>2. Spoken(conn) = << >>
  BY <1>1, EmptySeq
<1> QED
  BY <1>2, ConcatEmptySeq

(* Every step of the server keeps it on the way to a whole response.          *)
LEMMA ServerProgress ==
    ASSUME Types, Control, Turns, Links, Races, Responses, ServerStep
    PROVE  Progress'
<1>1. CASE Listen \/ Accept \/ ReadHeader \/ ReadHeaderEnd \/ ReadFails \/ WriteFails \/ Close \/ Fork
  <2>1. phase' \in {"accept", "exit", "request", "headers", "stat", "spinning", "wait"}
    BY <1>1 DEF Listen, Accept, ReadHeader, HeaderRead, ReadHeaderEnd, ReadFails, WriteFails, Close,
                Fork, Exit
  <2> QED
    BY <2>1 DEF Progress
<1>2. CASE ReadRequest
  <2>1. written[conn] = << >> /\ UNCHANGED << written, conn >>
    BY <1>2 DEF ReadRequest, Races
  <2>2. \/ phase' = "headers"
        \/ phase' = "writing" /\ todo' = clienterror("501") /\ after' = "close"
    BY <1>2, PageType DEF ReadRequest, Parsed, Respond
  <2>3. Spoken(conn)' \o clienterror("501") = clienterror("501")
    BY <2>1, SilentYet, PageType DEF Spoken
  <2>4. IsPage(clienterror("501"))
    BY DEF IsPage
  <2> QED
    BY <2>2, <2>3, <2>4 DEF Progress, Planned
<1>3. CASE Stat
  <2> DEFINE file == FileOf(MyName)
             type == get_filetype(MyName).type
             header == << StaticHeader(type, Len(file.bytes)) >>
  <2>1. /\ size' = Len(file.bytes) /\ UNCHANGED << conn, written >> /\ written[conn] = << >>
        /\ \/ \E status \in {"404", "403"} : Respond(clienterror(status), "close")
           \/ Respond(header, "open")
           \/ Respond(DynamicHeader, "fork")
    BY <1>3 DEF Stat, Forbidden, netVars, Races
  <2>2. \A ms \in Seq(WholeMessages) : Spoken(conn)' \o ms = ms
    BY <2>1, SilentYet DEF Spoken
  <2>3. CASE \E status \in {"404", "403"} : Respond(clienterror(status), "close")
    <3>1. PICK status \in {"404", "403"} : Respond(clienterror(status), "close")
      BY <2>3
    <3>2. phase' = "writing" /\ todo' = clienterror(status) /\ after' = "close"
      BY <3>1, PageType DEF Respond
    <3>3. IsPage(Spoken(conn)' \o todo')
      BY <2>2, <3>2, PageType DEF IsPage
    <3> QED
      BY <3>2, <3>3 DEF Progress, Planned
  <2>4. CASE Respond(header, "open")
    <3>1. phase' = "writing" /\ todo' = header /\ after' = "open"
      BY <2>4 DEF Respond
    <3>2. IsHeader(Spoken(conn) \o todo)'
      <4>1. header \in Seq(WholeMessages)
        BY FileType, StaticHeaderType
      <4>2. (Spoken(conn) \o todo)' = header
        BY <2>2, <3>1, <4>1
      <4> QED
        BY <2>1, <4>2 DEF IsHeader, StaticHeader
    <3> QED
      BY <3>1, <3>2 DEF Progress, Planned
  <2>5. CASE Respond(DynamicHeader, "fork")
    <3>1. phase' = "writing" /\ todo' = DynamicHeader /\ after' = "fork"
      BY <2>5, DynamicHeaderType DEF Respond
    <3>2. (Spoken(conn) \o todo)' = DynamicHeader
      BY <2>2, <3>1, DynamicHeaderType
    <3> QED
      BY <3>1, <3>2 DEF Progress, Planned
  <2> QED
    BY <2>1, <2>3, <2>4, <2>5
<1>4. CASE Open
  <2> DEFINE file == FileOf(get_filetype(MyName).filename)
             body == << "body", ReadInto(file.bytes, size) >>
             ms == Spoken(conn)
  <2>1. /\ IsHeader(ms) /\ ms \in Seq(WholeMessages)
        /\ UNCHANGED << conn, written, size, request, link >> /\ size \in Nat
    BY <1>4, MeantType DEF Open, Responses, Progress, Planned, Spoken, Types, netVars, Control
  <2>2. Spoken(conn)' = ms
    BY <2>1 DEF Spoken
  <2>3. CASE ~(file.kind = "file" /\ file.readable)
    <3>1. phase' = "exit"
      BY <1>4, <2>3 DEF Open, OpenFails, Exit
    <3> QED
      BY <3>1 DEF Progress
  <2>4. CASE file.kind = "file" /\ file.readable /\ size = 0
    <3>1. phase' = "close"
      BY <1>4, <2>4 DEF Open, Respond
    <3>2. IsFile(ms)
      BY <2>1, <2>4 DEF IsHeader, IsFile
    <3>3. IsResponse(conn, ms)'
      BY <2>2, <3>2, PageOrFile DEF IsFile, IsResponse
    <3> QED
      BY <2>2, <3>1, <3>3 DEF Progress, Finished
  <2>5. CASE file.kind = "file" /\ file.readable /\ size # 0
    <3>1. phase' = "writing" /\ todo' = << body >> /\ after' = "close"
      BY <1>4, <2>5 DEF Open, Respond
    <3>2. << body >> \in Seq(WholeMessages) /\ body[1] = "body" /\ Len(body[2]) = size
      BY <2>1, FileType, BodyType
    <3> DEFINE w == ms \o << body >>
    <3>3. Len(w) = 2 /\ w[1] = ms[1] /\ w[2] = body
      <4>1. Len(ms) = 1 /\ Len(<< body >>) = 1 /\ << body >>[1] = body
        BY <2>1 DEF IsHeader
      <4> HIDE DEF body, ms
      <4> QED
        BY <2>1, <3>2, <4>1, ConcatProperties
    <3> HIDE DEF body, w
    <3>4. IsFile(w)
      BY <2>1, <3>2, <3>3 DEF IsFile, IsHeader
    <3>5. (Spoken(conn) \o todo)' = w
      BY <2>2, <3>1 DEF w
    <3> QED
      BY <3>1, <3>4, <3>5 DEF Progress, Planned
  <2> QED
    BY <2>3, <2>4, <2>5
<1>5. CASE Write
  <2> DEFINE w == Spoken(conn) \o todo
  <2>1. /\ Planned(after, w) /\ todo \in Seq(WholeMessages) /\ todo # << >>
        /\ Spoken(conn)' = Append(Spoken(conn), Head(todo)) /\ Spoken(conn) \in Seq(WholeMessages)
        /\ todo' = Tail(todo) /\ UNCHANGED << conn, after, size, request >>
        /\ phase' = IF Len(todo) = 1 THEN after ELSE "writing"
        /\ after \in {"close", "open", "fork"}
    BY <1>5, WriteSpeaks DEF Write, Responses, Progress, Types, Control
  <2>2. /\ (Spoken(conn) \o todo)' = w
        /\ Len(todo) = 1 => Spoken(conn)' = w
    BY <2>1, TodoMoves
  <2> HIDE DEF w
  <2>3. CASE Len(todo) # 1
    <3>1. phase' = "writing"
      BY <2>1, <2>3
    <3>2. Planned(after, Spoken(conn) \o todo)'
      BY <2>1, <2>2 DEF Planned, IsHeader
    <3> QED
      BY <3>1, <3>2 DEF Progress
  <2>4. CASE Len(todo) = 1 /\ after = "close"
    <3>1. phase' = "close" /\ Spoken(conn)' = w
      BY <2>1, <2>2, <2>4
    <3>2. IsResponse(conn', w)
      BY <2>1, <2>4, PageOrFile DEF Planned
    <3>3. IsResponse(conn, Spoken(conn))'
      BY <2>1, <2>4, <3>1, PageOrFile DEF Planned, IsPage, IsFile, IsResponse
    <3> QED
      BY <3>1, <3>3 DEF Progress, Finished
  <2>5. CASE Len(todo) = 1 /\ after \in {"open", "fork"}
    <3>1. phase' = after /\ Spoken(conn)' = w
      BY <2>1, <2>2, <2>5
    <3>2. Planned(phase, Spoken(conn))'
      BY <2>1, <2>5, <3>1 DEF Planned, IsHeader
    <3> QED
      BY <2>5, <3>1, <3>2 DEF Progress
  <2> QED
    BY <2>1, <2>3, <2>4, <2>5
<1>6. CASE Wait
  <2>1. /\ phase' = "close" /\ Finished(conn) /\ UNCHANGED << conn, written, request, raced, link >>
    BY <1>6 DEF Wait, Responses, Settled, Control, netVars, fileVars
  <2>2. Finished(conn)'
    BY <2>1 DEF Finished, Spoken, IsResponse, Query
  <2> QED
    BY <2>1, <2>2 DEF Progress
<1> QED
  BY <1>1, <1>2, <1>3, <1>4, <1>5, <1>6 DEF ServerStep

(* It closes a connection only when the response is finished, and forks only  *)
(* behind the header that the child's answer belongs to.                      *)
LEMMA ServerSettles ==
    ASSUME Types, Control, Turns, Links, Races, Responses, ServerStep, NEW d \in Clients
    PROVE  Settled(d)'
<1>1. CASE d # conn
  <2>1. Same(d) /\ Settled(d)
    BY <1>1, ServerAside DEF Responses
  <2> QED
    BY <2>1, FinishedKept DEF Same, Settled, Spoken
<1>2. CASE d = conn
  <2>1. served[d] = "no" /\ (child[d] # "none" => phase = "wait")
    BY <1>2, TinyAssumption DEF Turns, Serving, Control
  <2>2. CASE Close
    <3>1. /\ Finished(d) /\ child' = child /\ child[d] = "none"
          /\ UNCHANGED << written, request, raced, link >>
      BY <1>2, <2>1, <2>2 DEF Close, Responses, Progress, fileVars
    <3>2. Finished(d)'
      BY <3>1, FinishedKept
    <3> QED
      BY <3>1, <3>2 DEF Settled
  <2>3. CASE Fork
    <3>1. Spoken(d) = DynamicHeader /\ UNCHANGED << written, served >> /\ child'[d] = "forked"
      BY <1>2, <2>3 DEF Fork, Responses, Progress, Planned, netVars, Types
    <3> QED
      BY <2>1, <3>1 DEF Settled, Spoken
  <2>4. CASE ~Close /\ ~Fork
    <3>1. served'[d] = "no" /\ child'[d] = "none"
      BY <1>2, <2>1, <2>4
         DEF ServerStep, Listen, Accept, ReadRequest, ReadHeader, ReadHeaderEnd, ReadFails, Stat,
             Open, Write, WriteFails, Wait, netVars, Types
    <3> QED
      BY <3>1 DEF Settled
  <2> QED
    BY <2>2, <2>3, <2>4
<1> QED
  BY <1>1, <1>2

(* What a child may print, and when it ends without printing an answer.       *)
LEMMA ChildPrints ==
    ASSUME Types, Control, Races, NEW c \in Clients, Execve(c) \/ adder(c), Settled(c)
    PROVE  /\ Spoken(c) = DynamicHeader
           /\ \/ Spoken(c)' = DynamicHeader
              \/ Spoken(c)' = Append(DynamicHeader, << "log" >>) /\ raced[c]
              \/ /\ ~Crashes(Query(c)) /\ Spoken(c)' = Append(DynamicHeader, Answer(Query(c)))
           /\ child'[c] = "exited" /\ Spoken(c)' = DynamicHeader =>
                 Crashes(Query(c)) \/ raced[c] \/ link[c] = "reset"
           /\ link[c] = "reset" => link'[c] = "reset"
<1>1. Spoken(c) = DynamicHeader
  BY DEF Execve, adder, Settled
<1>2. ASSUME NEW m \in WholeMessages, Deliver(c, m)
      PROVE  Spoken(c)' = Append(DynamicHeader, m) /\ Spoken(c)' # DynamicHeader
  <2>1. Spoken(c)' = Append(DynamicHeader, m)
    BY <1>1, <1>2, DeliverSpeaks
  <2>2. Len(Append(DynamicHeader, m)) = Len(DynamicHeader) + 1 /\ Len(DynamicHeader) \in Nat
    BY DynamicHeaderType, AppendProperties, LenProperties
  <2> QED
    BY <2>1, <2>2
<1>3. link[c] = "reset" => link'[c] = "reset"
  BY DEF Execve, adder, Deliver, Types
<1>4. CASE Execve(c)
  <2>1. conn = c /\ child[c] = "forked" /\ phase = "wait"
    BY <1>4 DEF Execve, Control
  <2>2. ~raced[c] => Runs
    BY <2>1 DEF Races, ToRun
  <2> DEFINE file == FileOf(filename(request[c].uri))
             runs == file.kind = "file" /\ file.executable
  <2>3. runs \/ raced[c]
    BY <2>1, <2>2 DEF Runs, MyName, Mine
  <2>4. CASE written' = written
    <3>1. Spoken(c)' = DynamicHeader
      BY <1>1, <2>4 DEF Spoken
    <3>2. child'[c] = "exited" => raced[c]
      BY <1>4, <2>3 DEF Execve, Types
    <3> QED
      BY <1>1, <1>3, <3>1, <3>2
  <2>5. CASE ~runs /\ Deliver(c, << "log" >>)
    <3>1. << "log" >> \in WholeMessages
      BY DEF WholeMessages
    <3> QED
      BY <1>1, <1>2, <1>3, <2>3, <2>5, <3>1
  <2> QED
    BY <1>4, <2>4, <2>5 DEF Execve
<1>5. CASE adder(c)
  <2>1. CASE Fails(c)
    <3>1. Spoken(c)' = DynamicHeader
      BY <1>1, <1>5, <2>1 DEF Spoken, adder
    <3> QED
      BY <1>1, <1>3, <2>1, <3>1 DEF Fails, Query
  <2>2. CASE ~Fails(c)
    <3>1. ~Crashes(Query(c)) /\ Deliver(c, Answer(Query(c)))
      BY <1>5, <2>2 DEF adder, Query, Fails
    <3>2. request[c] \in AllRequests
      BY <1>5 DEF adder, Types, Control
    <3>3. Query(c) \in AllQueries
      BY <3>1, <3>2 DEF AllRequests, AllUris, cgiargs, Crashes, Query
    <3>4. Answer(Query(c)) \in WholeMessages
      BY <3>3, AnswerType
    <3> QED
      BY <1>1, <1>2, <1>3, <3>1, <3>4
  <2> QED
    BY <2>1, <2>2
<1> QED
  BY <1>4, <1>5

(* The header and the answer of a program that ran are a whole response.      *)
LEMMA AnswerIsResponse ==
    ASSUME NEW c, ~Crashes(Query(c)), Answer(Query(c)) \in WholeMessages
    PROVE  IsResponse(c, Append(DynamicHeader, Answer(Query(c))))
<1> DEFINE a == Answer(Query(c))
           h == DynamicHeader
           ms == Append(h, a)
<1>1. Len(h) = 2 /\ h \in Seq(WholeMessages) /\ a \in WholeMessages
  BY DynamicHeaderType DEF DynamicHeader
<1> HIDE DEF a, h
<1>2. /\ ms \in Seq(WholeMessages) /\ Len(ms) = 3 /\ ms[3] = a
      /\ \A i \in 1 .. 2 : ms[i] = h[i]
  <2>1. ms \in Seq(WholeMessages)
    BY <1>1, AppendProperties
  <2>2. Len(ms) = Len(h) + 1
    BY <1>1, AppendProperties
  <2>3. ms[Len(h) + 1] = a
    BY <1>1, AppendProperties
  <2>4. \A i \in 1 .. Len(h) : ms[i] = h[i]
    BY <1>1, AppendKeepsFront
  <2>5. Len(h) + 1 = 3
    BY <1>1
  <2> QED
    BY <2>1, <2>2, <2>3, <2>4, <2>5
<1> HIDE DEF ms
<1> DEFINE u == SubSeq(ms, 1, 2)
<1>3. u \in Seq(WholeMessages) /\ Len(u) = 2 /\ \A i \in 1 .. 2 : u[i] = ms[i]
  BY <1>2
<1> HIDE DEF u
<1>4. u = h
  BY <1>1, <1>2, <1>3, SeqEqual
<1> QED
  BY <1>2, <1>4 DEF IsResponse, Query, a, h, ms, u

(* The child of a request adds its answer, or leaves the response as it is.   *)
LEMMA ChildrenKeepResponses ==
    ASSUME Types, Control, Turns, Links, Races, Responses,
           NEW c \in Clients, Execve(c) \/ adder(c), NEW d \in Clients
    PROVE  Settled(d)' /\ (BeginsResponse(d, Spoken(d)) => BeginsResponse(d, Spoken(d))')
<1>1. UNCHANGED << request, raced >>
  BY DEF Execve, adder, fileVars
<1>2. CASE d # c
  <2>1. Same(d) /\ Settled(d)
    BY <1>2, ChildAside DEF Responses
  <2>2. Settled(d)'
    BY <2>1, FinishedKept DEF Same, Settled, Spoken
  <2> QED
    BY <1>1, <2>1, <2>2 DEF Same, BeginsResponse, IsResponse, Spoken
<1>3. CASE d = c
  <2> DEFINE answer == Answer(Query(d))
             log == << "log" >>
  <2>1. /\ Spoken(d) = DynamicHeader
        /\ \/ Spoken(d)' = DynamicHeader
           \/ Spoken(d)' = Append(DynamicHeader, log) /\ raced[d]
           \/ ~Crashes(Query(d)) /\ Spoken(d)' = Append(DynamicHeader, answer)
        /\ child'[d] = "exited" /\ Spoken(d)' = DynamicHeader =>
              Crashes(Query(d)) \/ raced[d] \/ link[d] = "reset"
        /\ link[d] = "reset" => link'[d] = "reset"
    BY <1>3, ChildPrints DEF Responses
  <2>2. served'[d] = "no" /\ child'[d] \in {"running", "exited"}
    BY <1>3, TinyAssumption DEF Execve, adder, Types, Turns, Serving, Control
  <2>3. child'[d] = "running" => Spoken(d)' = DynamicHeader
    <3>1. child'[d] = "running" => Execve(d) /\ written' = written
      BY <1>3 DEF Execve, adder, Types
    <3> QED
      BY <2>1, <3>1 DEF Spoken
  <2>4. log \in WholeMessages
    BY DEF WholeMessages
  <2>5. IsPrefix(DynamicHeader, DynamicHeader) /\ IsPrefix(DynamicHeader, Append(DynamicHeader, log))
    BY <2>4, DynamicHeaderType, PrefixOfAppend, TrivialPrefixes
  <2>6. CASE Spoken(d)' = DynamicHeader
    <3>1. child'[d] = "exited" => Finished(d)'
      BY <1>1, <2>1, <2>5, <2>6 DEF Finished, Query
    <3>2. Settled(d)'
      BY <2>2, <2>6, <3>1 DEF Settled
    <3> QED
      BY <2>5, <2>6, <3>2 DEF BeginsResponse
  <2>7. CASE Spoken(d)' = Append(DynamicHeader, log) /\ raced[d]
    <3>1. Finished(d)'
      BY <1>1, <2>5, <2>7 DEF Finished
    <3>2. Settled(d)'
      BY <2>2, <2>3, <2>7, <3>1 DEF Settled
    <3> QED
      BY <1>1, <2>7, <3>2 DEF BeginsResponse
  <2>8. CASE ~Crashes(Query(d)) /\ Spoken(d)' = Append(DynamicHeader, answer)
    <3>1. answer \in WholeMessages
      <4>1. request[d] \in AllRequests
        BY <1>3 DEF Execve, adder, Types, Control
      <4>2. Query(d) \in AllQueries
        BY <2>8, <4>1 DEF AllRequests, AllUris, cgiargs, Crashes, Query
      <4> QED
        BY <4>2, AnswerType
    <3>2. IsResponse(d, Append(DynamicHeader, answer))
      BY <2>8, <3>1, AnswerIsResponse
    <3> HIDE DEF answer
    <3>3. IsResponse(d, Spoken(d))'
      BY <1>1, <2>8, <3>2 DEF IsResponse
    <3>4. Settled(d)'
      BY <2>2, <2>3, <2>8, <3>3 DEF Settled, Finished
    <3> QED
      BY <3>3, <3>4 DEF BeginsResponse
  <2> QED
    BY <2>1, <2>6, <2>7, <2>8
<1> QED
  BY <1>2, <1>3

(* Clients and changes of files leave what was written alone.                 *)
LEMMA OthersKeepResponses ==
    ASSUME Types, Control, Turns, Links, Responses, UNCHANGED serverVars,
           UNCHANGED written, \A c \in Clients : served'[c] = "no" <=> served[c] = "no",
           \A c \in Clients : raced[c] => raced'[c],
           \A c \in Clients : link[c] = "reset" => link'[c] = "reset"
    PROVE  Responses'
<1>1. UNCHANGED << phase, conn, request, size, todo, after, child >>
  BY DEF serverVars
<1>2. ASSUME NEW d \in Clients, Finished(d) PROVE Finished(d)'
  BY <1>1, <1>2, FinishedKept
<1>3. ASSUME NEW d \in Clients PROVE Settled(d)'
  BY <1>1, <1>2 DEF Responses, Settled, Spoken
<1>4. Progress'
  <2>1. phase = "close" => conn \in Clients
    BY DEF Control
  <2> QED
    BY <1>1, <1>2, <2>1 DEF Responses, Progress, Planned, IsHeader, Spoken
<1> QED
  BY <1>3, <1>4 DEF Responses

(* The link of a client that has been reset stays so.                         *)
LEMMA ResetStays ==
    ASSUME Types, Links, NEW c \in Clients, ClientStep(c) \/ Shutdown(c) \/ Leave(c),
           NEW d \in Clients, link[d] = "reset"
    PROVE  link'[d] = "reset"
<1>1. CASE d # c
  BY <1>1, ClientAside DEF Same
<1>2. CASE d = c
  <2>1. client[c] = "left"
    BY <1>2 DEF Links, LinkOf
  <2> QED
    BY <1>2, <2>1
       DEF ClientStep, Connect, SendLine, Receive, SeeEnd, SeeBreak, Shutdown, Leave
<1> QED
  BY <1>1, <1>2

(* The server is on the way to a whole response.                              *)
THEOREM ResponsesHold == Spec => []Responses
<1>1. Init => Responses
  BY DEF Init, Responses, Progress, Settled
<1>2. Types /\ Control /\ Turns /\ Links /\ Races /\ Responses /\ [Next]_vars => Responses'
  <2> SUFFICES ASSUME Types, Control, Turns, Links, Races, Responses, [Next]_vars
               PROVE  Responses'
    OBVIOUS
  <2>1. CASE ServerStep
    BY <2>1, ServerProgress, ServerSettles DEF Responses
  <2>2. ASSUME NEW c \in Clients, Execve(c) \/ adder(c) PROVE Responses'
    <3>1. phase' = "wait"
      BY <2>2 DEF Execve, adder, Control
    <3> QED
      BY <2>2, <3>1, ChildrenKeepResponses DEF Responses, Progress
  <2>3. ASSUME NEW c \in Clients, ClientStep(c) \/ Shutdown(c) \/ Leave(c)
        PROVE  Responses'
    <3>1. \A d \in Clients : served'[d] = "no" <=> served[d] = "no"
      BY <2>3
         DEF ClientStep, Connect, SendLine, Receive, SeeEnd, SeeBreak, Shutdown, Leave, netVars,
             Attended, Types
    <3>2. UNCHANGED << serverVars, written, raced >>
      BY <2>3
         DEF ClientStep, Connect, SendLine, Receive, SeeEnd, SeeBreak, Shutdown, Leave, netVars,
             fileVars
    <3> QED
      BY <2>3, <3>1, <3>2, OthersKeepResponses, ResetStays
  <2>4. ASSUME NEW name \in Names, Change(name) PROVE Responses'
    <3>1. UNCHANGED << serverVars, netVars >> /\ \A c \in Clients : raced[c] => raced'[c]
      BY <2>4 DEF Change
    <3> QED
      BY <3>1, OthersKeepResponses DEF netVars
  <2>5. CASE UNCHANGED vars
    BY <2>5, OthersKeepResponses DEF vars, netVars, fileVars
  <2>6. CASE Refused \/ Overruns
    <3>1. /\ UNCHANGED << request, child, netVars, fileVars >> /\ phase' = "exit"
      BY <2>6, ServerEnds
    <3>2. ASSUME NEW d \in Clients PROVE Settled(d)'
      BY <3>1, FinishedKept DEF Responses, Settled, Spoken, netVars, fileVars
    <3> QED
      BY <3>1, <3>2 DEF Responses, Progress
  <2> QED
    BY <2>1, <2>2, <2>3, <2>4, <2>5, <2>6, TinyAssumption DEF Next, ChildStep
<1> QED
  BY <1>1, <1>2, TurnsHold, LinksHold, RacesHold, PTL DEF Spec

(* What was written begins one response.                                      *)
LEMMA BeginningsKept ==
    ASSUME Types, Control, Turns, Links, Races, Responses,
           \A c \in Clients : BeginsResponse(c, Spoken(c)), [Next]_vars, NEW d \in Clients
    PROVE  BeginsResponse(d, Spoken(d))'
<1> USE TinyAssumption
<1>1. ASSUME UNCHANGED << written[d], request[d] >>, raced[d] => raced'[d]
      PROVE  BeginsResponse(d, Spoken(d))'
  BY <1>1 DEF BeginsResponse, IsResponse, Spoken
<1>2. ASSUME ServerStep PROVE BeginsResponse(d, Spoken(d))'
  <2>1. CASE d # conn
    BY <1>1, <1>2, <2>1, ServerAside DEF Same
  <2>2. CASE d = conn /\ ReadRequest
    <3>1. /\ written[d] = << >> /\ written' = written
      BY <2>2 DEF ReadRequest, Races
    <3>2. Spoken(d)' = << >>
      <4>1. << >> \in Seq(WholeMessages)
        OBVIOUS
      <4> QED
        BY <2>2, <3>1, <4>1, SilentYet DEF Spoken
    <3>3. IsPrefix(<< >>, DynamicHeader)
      <4>1. << >> \o DynamicHeader = DynamicHeader
        BY DynamicHeaderType, ConcatEmptySeq
      <4>2. IsPrefix(<< >>, << >> \o DynamicHeader)
        BY DynamicHeaderType, EmptySeq, PrefixOfConcat
      <4> QED
        BY <4>1, <4>2
    <3> QED
      BY <3>2, <3>3 DEF BeginsResponse
  <2>3. CASE d = conn /\ Write
    <3>1. /\ Planned(after, Spoken(d) \o todo) /\ todo \in Seq(WholeMessages) /\ todo # << >>
          /\ Spoken(d) \in Seq(WholeMessages) /\ after \in {"close", "open", "fork"}
          /\ Spoken(d)' = Append(Spoken(d), Head(todo))
          /\ UNCHANGED << request, raced >>
      BY <2>3, WriteSpeaks DEF Write, Responses, Progress, Types, Control, Spoken
    <3>2. /\ Append(Spoken(d), Head(todo)) \in Seq(WholeMessages)
          /\ Tail(todo) \in Seq(WholeMessages)
          /\ Append(Spoken(d), Head(todo)) \o Tail(todo) = Spoken(d) \o todo
      BY <3>1, TodoMoves, FirstTaken
    <3>3. BeginsResponse(d, Append(Spoken(d), Head(todo)))
      <4> DEFINE s == Append(Spoken(d), Head(todo))
                 t == Tail(todo)
      <4>1. s \in Seq(WholeMessages) /\ t \in Seq(WholeMessages) /\ Planned(after, s \o t)
        BY <3>1, <3>2
      <4> HIDE DEF s, t
      <4>2. BeginsResponse(d, s)
        BY <3>1, <4>1, PlannedBegins
      <4> QED
        BY <4>2 DEF s
    <3> QED
      BY <3>1, <3>3 DEF BeginsResponse, IsResponse
  <2>4. CASE ~Write /\ ~ReadRequest
    <3>1. UNCHANGED << written, request, raced >>
      BY <1>2, <2>4
         DEF ServerStep, Listen, Accept, ReadHeader, ReadHeaderEnd, ReadFails, Stat, Open,
             WriteFails, Fork, Wait, Close, netVars, fileVars
    <3> QED
      BY <1>1, <3>1
  <2> QED
    BY <2>1, <2>2, <2>3, <2>4
<1>3. ASSUME NEW c \in Clients, Execve(c) \/ adder(c) PROVE BeginsResponse(d, Spoken(d))'
  BY <1>3, ChildrenKeepResponses
<1>4. ASSUME NEW c \in Clients, ClientStep(c) \/ Shutdown(c) \/ Leave(c)
      PROVE  BeginsResponse(d, Spoken(d))'
  <2>1. UNCHANGED << written, request, raced >>
    BY <1>4
       DEF ClientStep, Connect, SendLine, Receive, SeeEnd, SeeBreak, Shutdown, Leave, netVars,
           serverVars, fileVars
  <2> QED
    BY <1>1, <2>1
<1>5. ASSUME NEW name \in Names, Change(name) PROVE BeginsResponse(d, Spoken(d))'
  <2>1. UNCHANGED << written, request >> /\ (raced[d] => raced'[d])
    BY <1>5 DEF Change, serverVars, netVars
  <2> QED
    BY <1>1, <2>1
<1>6. CASE UNCHANGED vars
  BY <1>1, <1>6 DEF vars, serverVars, netVars, fileVars
<1>7. CASE Refused \/ Overruns
  BY <1>1, <1>7, ServerEnds DEF netVars, fileVars
<1> QED
  BY <1>2, <1>3, <1>4, <1>5, <1>6, <1>7 DEF Next, ChildStep

(* On every path through doit and its child what is written to a client is    *)
(* the beginning of one response: the run's property, for all requests, all   *)
(* files and any number of short writes.                                      *)
THEOREM OneResponseAlways == Spec => []OneResponse
<1>1. Init => OneResponse
  <2> SUFFICES ASSUME Init, NEW c \in Clients PROVE BeginsResponse(c, Meant(written[c]))
    BY DEF OneResponse
  <2> DEFINE ms == Meant(written[c])
  <2>1. written[c] = << >> /\ << >> \in Seq(AllMessages)
    BY DEF Init
  <2>2. ms \in Seq(WholeMessages) /\ Len(ms) = 0
    BY <2>1, MeantType, EmptySeq
  <2> HIDE DEF ms
  <2>3. ms = << >>
    BY <2>2, EmptySeq
  <2>4. << >> \o DynamicHeader = DynamicHeader /\ IsPrefix(<< >>, << >> \o DynamicHeader)
    BY DynamicHeaderType, ConcatEmptySeq, EmptySeq, PrefixOfConcat
  <2> QED
    BY <2>3, <2>4 DEF BeginsResponse, ms
<1>2. Types /\ Control /\ Turns /\ Links /\ Races /\ Responses /\ OneResponse /\ [Next]_vars
        => OneResponse'
  BY BeginningsKept DEF OneResponse, Spoken
<1> QED
  BY <1>1, <1>2, TurnsHold, LinksHold, RacesHold, ResponsesHold, PTL DEF Spec

-----------------------------------------------------------------------------
(* Deliveries                                                                 *)

(* What is written for a client that is there is under way to it.             *)
LEMMA DeliverDelivers ==
    ASSUME Types, NEW c \in Clients, NEW m \in AllMessages, Deliver(c, m), link[c] # "none",
           Delivery(c), client[c] # "done", UNCHANGED << client, got >>
    PROVE  Delivery(c)'
<1>1. CASE link[c] \in {"open", "half"}
  <2>1. wire'[c] = Append(wire[c], m) /\ written'[c] = Append(written[c], m)
        /\ got[c] \o wire[c] = written[c]
        /\ wire[c] \in Seq(AllMessages) /\ got[c] \in Seq(AllMessages)
    BY <1>1 DEF Deliver, Types, Delivery
  <2>2. got[c] \o Append(wire[c], m) = Append(got[c] \o wire[c], m)
    <3> DEFINE g == got[c]
               w == wire[c]
    <3>1. g \in Seq(AllMessages) /\ w \in Seq(AllMessages)
      BY <2>1
    <3> HIDE DEF g, w
    <3>2. g \o Append(w, m) = Append(g \o w, m)
      BY <3>1, ConcatThenAppend
    <3> QED
      BY <3>2 DEF g, w
  <2> QED
    BY <2>1, <2>2 DEF Delivery
<1>2. CASE link[c] \in {"closed", "reset"}
  <2>1. link'[c] \in {"closed", "reset"}
    BY <1>2 DEF Deliver, Types
  <2> QED
    BY <2>1 DEF Delivery
<1> QED
  BY <1>1, <1>2 DEF Types

(* Every step keeps what is under way, for every client.                      *)
LEMMA DeliveriesKept ==
    ASSUME Types, Control, Turns, Links, Deliveries, [Next]_vars, NEW d \in Clients
    PROVE  Delivery(d)'
<1> USE TinyAssumption
<1>1. ASSUME Same(d) PROVE Delivery(d)'
  BY <1>1 DEF Same, Delivery, Deliveries
<1>2. ASSUME ServerStep PROVE Delivery(d)'
  <2>1. CASE d # conn
    BY <1>1, <1>2, <2>1, ServerAside
  <2>2. CASE d = conn /\ Write
    <3>1. Head(todo) \in WholeMessages
      BY <2>2, WriteSpeaks
    <3>2. \E m \in AllMessages : Deliver(d, m)
      BY <2>2, <3>1, WholeNotCut DEF Write, Handed
    <3>3. link[d] # "none" /\ client[d] # "done" /\ UNCHANGED << client, got >>
      BY <2>2 DEF Links, LinkOf, Present, Turns, Serving, Write, clientVars
    <3> QED
      BY <3>2, <3>3, DeliverDelivers DEF Deliveries
  <2>3. CASE ~Write
    <3>1. UNCHANGED << written, wire, got, link, client >>
      BY <1>2, <2>3
         DEF ServerStep, Listen, Accept, ReadRequest, ReadHeader, ReadHeaderEnd, ReadFails, Stat,
             Open, WriteFails, Fork, Wait, Close, netVars, clientVars
    <3> QED
      BY <3>1 DEF Delivery, Deliveries
  <2> QED
    BY <2>1, <2>2, <2>3
<1>3. ASSUME NEW c \in Clients, Execve(c) \/ adder(c) PROVE Delivery(d)'
  <2>1. CASE d # c
    BY <1>1, <1>3, <2>1, ChildAside
  <2>2. CASE d = c
    <3>1. /\ link[d] # "none" /\ client[d] # "done" /\ UNCHANGED << client, got >>
          /\ request[d] \in AllRequests
      BY <1>3, <2>2 DEF Links, LinkOf, Present, Turns, Serving, Execve, adder, clientVars, Control,
                        Types
    <3>2. UNCHANGED << written, wire, link >> \/ \E m \in AllMessages : Deliver(d, m)
      <4>1. << "log" >> \in AllMessages
        BY DEF AllMessages, WholeMessages
      <4>2. ~Fails(d) => Answer(Query(d)) \in AllMessages
        <5>1. ~Fails(d) => Query(d) \in AllQueries
          BY <3>1 DEF Fails, Crashes, Query, cgiargs, AllRequests, AllUris
        <5> QED
          BY <5>1, AnswerType DEF AllMessages
      <4> QED
        BY <1>3, <2>2, <4>1, <4>2 DEF Execve, adder, Query
    <3>3. CASE UNCHANGED << written, wire, link >>
      BY <3>1, <3>3 DEF Delivery, Deliveries
    <3>4. CASE \E m \in AllMessages : Deliver(d, m)
      BY <3>1, <3>4, DeliverDelivers DEF Deliveries
    <3> QED
      BY <3>2, <3>3, <3>4
  <2> QED
    BY <2>1, <2>2
<1>4. ASSUME NEW c \in Clients, ClientStep(c) \/ Shutdown(c) \/ Leave(c) PROVE Delivery(d)'
  <2>1. CASE d # c
    BY <1>1, <1>4, <2>1, ClientAside
  <2>2. CASE d = c
    <3>0. Delivery(c) /\ TurnOf(c) /\ LinkOf(c)
      BY DEF Deliveries, Turns, Links
    <3>1. CASE Connect(c)
      <4>1. UNCHANGED << got, wire, written >> /\ client'[c] # "done" /\ link[c] = "none"
        BY <3>0, <3>1 DEF Connect, TurnOf, Become, Types
      <4> QED
        BY <2>2, <3>0, <4>1 DEF Delivery
    <3>2. CASE Receive(c)
      <4>1. /\ got'[c] = got[c] \o wire[c] /\ wire'[c] = << >>
            /\ UNCHANGED << written, link, client >>
            /\ got[c] \in Seq(AllMessages) /\ wire[c] \in Seq(AllMessages)
        BY <3>2 DEF Receive, Types
      <4>2. (got[c] \o wire[c]) \o << >> = got[c] \o wire[c]
        BY <4>1, ConcatProperties, ConcatEmptySeq
      <4> QED
        BY <2>2, <3>0, <4>1, <4>2 DEF Delivery
    <3>3. CASE Leave(c)
      BY <2>2, <3>3 DEF Leave, Become, Delivery, Types
    <3>4. CASE SendLine(c) \/ SeeEnd(c) \/ SeeBreak(c) \/ Shutdown(c)
      <4>1. /\ UNCHANGED << got, wire, written >>
            /\ client'[c] = "done" => wire[c] = << >>
            /\ link[c] \in {"none", "open", "half"}
        BY <3>0, <3>4
           DEF SendLine, SeeEnd, SeeBreak, Shutdown, Become, netVars, clientVars, Types, LinkOf,
               Delivery
      <4> QED
        BY <2>2, <3>0, <4>1 DEF Delivery
    <3> QED
      BY <1>4, <3>1, <3>2, <3>3, <3>4 DEF ClientStep
  <2> QED
    BY <2>1, <2>2
<1>5. CASE UNCHANGED << got, wire, written, link, client >>
  BY <1>5 DEF Delivery, Deliveries
<1>6. CASE Refused \/ Overruns
  BY <1>6, ServerEnds DEF Delivery, Deliveries, clientVars, netVars
<1> QED
  BY <1>2, <1>3, <1>4, <1>5, <1>6 DEF Next, ChildStep, Change, vars, clientVars, netVars

(* Only a page about a request that is too long is spoilt.                    *)
SpoiltOf(c) == \A i \in DOMAIN written[c] : written[c][i][1] = "spoilt" => TooLong(request[c])

(* One more message that is not spoilt without that reason keeps it.          *)
LEMMA SpoiltDelivered ==
    ASSUME Types, NEW c \in Clients, NEW m, Deliver(c, m), SpoiltOf(c), UNCHANGED request,
           m[1] = "spoilt" => TooLong(request[c])
    PROVE  SpoiltOf(c)'
<1>1. written'[c] = Append(written[c], m) /\ DOMAIN written[c] = 1 .. Len(written[c])
      /\ Len(written[c]) \in Nat
  BY LenProperties DEF Deliver, Types
<1>2. ASSUME NEW i \in DOMAIN written'[c]
      PROVE  (i \in DOMAIN written[c] /\ written'[c][i] = written[c][i]) \/ written'[c][i] = m
  BY <1>1
<1> QED
  BY <1>2 DEF SpoiltOf

(* Every step keeps it, for every client.                                     *)
LEMMA SpoiltKept ==
    ASSUME Types, Control, Races, \A c \in Clients : SpoiltOf(c), [Next]_vars, NEW d \in Clients
    PROVE  SpoiltOf(d)'
<1>1. ASSUME UNCHANGED << written[d], request[d] >> PROVE SpoiltOf(d)'
  BY <1>1 DEF SpoiltOf
<1>2. ASSUME ServerStep PROVE SpoiltOf(d)'
  <2>1. CASE d # conn
    BY <1>1, <1>2, <2>1, ServerAside DEF Same
  <2>2. CASE d = conn /\ ReadRequest
    <3>1. written'[d] = << >>
      BY <2>2 DEF ReadRequest, Races
    <3> QED
      BY <3>1 DEF SpoiltOf
  <2>3. CASE d = conn /\ Write
    <3>1. Head(todo) \in WholeMessages
      BY <2>3, WriteSpeaks
    <3>2. PICK m : Deliver(d, m) /\ (m[1] = "spoilt" => TooLong(request[d]))
      BY <2>3, <3>1, WholeNotCut DEF Write, Handed, Mine
    <3> QED
      BY <2>3, <3>2, SpoiltDelivered DEF Write
  <2>4. CASE ~Write /\ ~ReadRequest
    <3>1. UNCHANGED << written, request >>
      BY <1>2, <2>4
         DEF ServerStep, Listen, Accept, ReadHeader, ReadHeaderEnd, ReadFails, Stat, Open,
             WriteFails, Fork, Wait, Close, netVars
    <3> QED
      BY <1>1, <3>1
  <2> QED
    BY <2>1, <2>2, <2>3, <2>4
<1>3. ASSUME NEW c \in Clients, Execve(c) \/ adder(c) PROVE SpoiltOf(d)'
  <2>1. CASE d # c \/ written' = written
    <3>1. UNCHANGED << written[d], request >>
      BY <1>3, <2>1, ChildAside DEF Same, Execve, adder
    <3> QED
      BY <1>1, <3>1
  <2>2. CASE d = c /\ written' # written
    <3>1. PICK m : Deliver(d, m) /\ m[1] \in {"log", "answer"}
      BY <1>3, <2>2 DEF Execve, adder, Answer
    <3> QED
      BY <1>3, <2>2, <3>1, SpoiltDelivered DEF Execve, adder
  <2> QED
    BY <2>1, <2>2
<1>4. ASSUME NEW c \in Clients, ClientStep(c) \/ Shutdown(c) \/ Leave(c)
      PROVE  UNCHANGED << written, request >>
  BY <1>4
     DEF ClientStep, Connect, SendLine, Receive, SeeEnd, SeeBreak, Shutdown, Leave, netVars,
         serverVars
<1>5. ASSUME Refused \/ Overruns PROVE UNCHANGED << written, request >>
  BY <1>5, ServerEnds DEF netVars
<1> QED
  BY <1>1, <1>2, <1>3, <1>4, <1>5, TinyAssumption
     DEF Next, ChildStep, Change, vars, serverVars, netVars

(* Messages none of which is damaged are what was meant.                      *)
LEMMA MeantUndamaged ==
    ASSUME NEW ms \in Seq(AllMessages), \A i \in DOMAIN ms : ~Damaged(ms[i])
    PROVE  Meant(ms) = ms
<1> DEFINE s == Meant(ms)
<1>1. /\ s \in Seq(WholeMessages) /\ Len(s) = Len(ms) /\ Len(ms) \in Nat
      /\ \A i \in 1 .. Len(ms) : s[i] = ms[i]
  BY MeantType
<1> HIDE DEF s
<1>2. s \in Seq(AllMessages)
  BY <1>1 DEF AllMessages
<1>3. s = ms
  BY <1>1, <1>2, SeqEqual
<1> QED
  BY <1>3 DEF s

(* A client that has read to the end has got the whole of one response, or    *)
(* all that a program printed that died or could not be run; only where a     *)
(* write was short or the request too long may bytes of it be missing or      *)
(* wrong.  The run's property, for all clients.                               *)
THEOREM DoneIsAnswered == Spec => []DoneMeansAnswered
<1> DEFINE Spoilt == \A c \in Clients : SpoiltOf(c)
<1>1. Init => Deliveries /\ Spoilt
  <2>1. << >> \o << >> = << >>
    BY EmptySeq, ConcatEmptySeq
  <2> QED
    BY <2>1 DEF Init, Deliveries, Delivery, SpoiltOf
<1>2. Types /\ Control /\ Turns /\ Links /\ Deliveries /\ [Next]_vars => Deliveries'
  BY DeliveriesKept DEF Deliveries
<1>3. Types /\ Control /\ Races /\ Spoilt /\ [Next]_vars => Spoilt'
  BY SpoiltKept
<1>4. Types /\ Turns /\ Links /\ Responses /\ Deliveries /\ Spoilt => DoneMeansAnswered
  <2> SUFFICES ASSUME Types, Turns, Links, Responses, Deliveries, Spoilt,
                      NEW c \in Clients, client[c] = "done"
               PROVE  /\ got[c] = written[c]
                      /\ Answers(c, got[c]) \/ CutShort(c) \/ TooLong(request[c])
                      /\ Answers(c, Meant(got[c]))
    BY DEF DoneMeansAnswered
  <2>1. link[c] \in {"open", "half"} /\ served[c] = "end"
    BY DEF Links, LinkOf
  <2>2. got[c] = written[c]
    <3>1. got[c] \o wire[c] = written[c] /\ wire[c] = << >> /\ got[c] \in Seq(AllMessages)
      BY <2>1 DEF Deliveries, Delivery, Types
    <3> QED
      BY <3>1, ConcatEmptySeq
  <2>3. Finished(c)
    BY <2>1 DEF Responses, Settled
  <2>4. Answers(c, Meant(got[c]))
    BY <2>1, <2>2, <2>3 DEF Finished, Spoken, Query, Answers
  <2>5. CASE \E i \in DOMAIN written[c] : Damaged(written[c][i])
    BY <2>2, <2>4, <2>5 DEF Damaged, CutShort, SpoiltOf
  <2>6. CASE \A i \in DOMAIN written[c] : ~Damaged(written[c][i])
    <3>1. Meant(got[c]) = got[c]
      BY <2>2, <2>6, MeantUndamaged DEF Types
    <3> QED
      BY <2>2, <2>4, <3>1
  <2> QED
    BY <2>5, <2>6
<1> HIDE DEF Spoilt
<1> QED
  BY <1>1, <1>2, <1>3, <1>4, TurnsHold, LinksHold, RacesHold, ResponsesHold, PTL DEF Spec

=============================================================================
