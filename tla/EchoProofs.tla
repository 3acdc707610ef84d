----------------------------- MODULE EchoProofs -----------------------------
(* The safety of the echo programs, for all inputs, buffer sizes and ways of  *)
(* the kernel to cut the bytes into reads and writes.                         *)
(*                                                                            *)
(* The argument: as long as the server lives, every client has one line under *)
(* way at most, either towards the server's echo or back (Flows); a line that *)
(* a client has sent looks the same wherever it is cut, so rio_readlineb puts *)
(* it together again and leaves nothing behind in a buffer.  Once the server  *)
(* has ended nothing is echoed any more (Outcome).                            *)
EXTENDS Echo, SequenceFacts

Byte == STRING
Buffer == [buf : Seq(Byte), line : Seq(Byte)]
Streams == [Clients -> Seq(Byte)]

(* The types of all variables, with the room in the buffers.                  *)
Types ==
    /\ server \in {"starting", "accepting", "reading", "writing", "exited"}
    /\ serving \in Clients \cup {None}
    /\ server \in {"reading", "writing"} => serving \in Clients
    /\ rio \in Buffer /\ Len(rio.line) < MAXLINE /\ Len(rio.buf) <= RIO_BUFSIZE
    /\ backlog \in Seq(Clients)
    /\ client \in [Clients -> {"idle", "sending", "reading", "done", "failed", "killed"}]
    /\ stdin \in Streams /\ at \in [Clients -> Nat]
    /\ buf \in Streams /\ crio \in [Clients -> Buffer] /\ output \in Streams
    /\ conn \in [Clients -> {"none", "open", "closed", "reset"}]
    /\ toServer \in Streams /\ toClient \in Streams /\ echoed \in Streams
    /\ cut \in [Clients -> BOOLEAN]
    /\ \A c \in Clients :
          at[c] <= Len(stdin[c]) /\ Len(crio[c].line) < MAXLINE /\ Len(crio[c].buf) <= RIO_BUFSIZE

(* What a line looks like that a client has sent, or the beginning of one: it *)
(* fits a buffer, and a newline only ends it.                                 *)
LineShape(s) ==
    /\ Len(s) < MAXLINE
    /\ \A i \in DOMAIN s : s[i] # Zero /\ (i < Len(s) => s[i] # NewLine)

(* What is on its way to the server's echo, and back.                         *)
Held(c) == IF serving = c THEN rio.line ELSE << >>
Coming(c) == Held(c) \o toServer[c]
Back(c) == crio[c].line \o toClient[c]
Unsent(c) == TravellingFrom(stdin[c])[at[c]]

(* How far the line of a client has got, by what the client is doing.         *)
Untouched(c) ==
    /\ conn[c] = "none" /\ at[c] = 0 /\ output[c] = << >> /\ echoed[c] = << >>
    /\ crio[c].line = << >> /\ Coming(c) = << >> /\ toClient[c] = << >>
BetweenLines(c) ==
    /\ conn[c] = "open" /\ output[c] = echoed[c]
    /\ output[c] \o Unsent(c) = Travelling(stdin[c])
    /\ crio[c].line = << >> /\ Coming(c) = << >> /\ toClient[c] = << >>
OneLine(c) ==
    /\ conn[c] = "open" /\ echoed[c] = output[c] \o Back(c)
    /\ output[c] \o (buf[c] \o Unsent(c)) = Travelling(stdin[c])
    /\ LineShape(buf[c]) /\ IsPrefix(Coming(c), buf[c]) /\ IsPrefix(Back(c), buf[c])
    /\ Coming(c) = << >> \/ Back(c) = << >>
    /\ ~cut[c] => Coming(c) = buf[c] \/ Back(c) = buf[c]
    /\ ~Whole(crio[c].line)
AllEchoed(c) ==
    /\ conn[c] = "closed" /\ output[c] = Travelling(stdin[c]) /\ echoed[c] = output[c]
    /\ Coming(c) = << >> /\ toClient[c] = << >>
BrokenOff(c) ==
    /\ conn[c] \in {"closed", "reset"} /\ toClient[c] = << >>
    /\ IsPrefix(output[c], echoed[c]) /\ IsPrefix(echoed[c] \o Coming(c), Travelling(stdin[c]))
    /\ LineShape(Coming(c))
    /\ conn[c] = "reset" => Coming(c) = << >>
Flow(c) ==
    /\ crio[c].buf = << >>
    /\ client[c] \in {"idle", "failed"} => Untouched(c)
    /\ client[c] = "sending" => BetweenLines(c)
    /\ client[c] = "reading" => OneLine(c)
    /\ client[c] = "done" => AllEchoed(c)
    /\ client[c] = "killed" => BrokenOff(c)

(* The server between two steps.                                              *)
Serving ==
    /\ rio.buf = << >>
    /\ server \in {"starting", "accepting"} => serving = None
    /\ server = "reading" => ~Whole(rio.line)
    /\ server = "writing" =>
          rio.line # << >> /\ toServer[serving] = << >> /\ conn[serving] # "reset"
Flows == server # "exited" => Serving /\ \A c \in Clients : Flow(c)

(* What outlasts the server.                                                  *)
Room(c) ==
    Len(toServer[c]) + Len(toClient[c])
        + (IF serving = c THEN Len(rio.buf) + Len(rio.line) ELSE 0) < MAXLINE
Outcome ==
    /\ \A c \in Clients : Room(c) /\ IsPrefix(echoed[c], Travelling(stdin[c]))
    /\ server = "exited" /\ serving # None => client[serving] = "killed"

-----------------------------------------------------------------------------
(* Lines and buffers                                                          *)

(* A line takes what there is, up to the room it has or to a newline.         *)
LEMMA LineLengthProperties ==
    ASSUME NEW s \in Seq(Byte), NEW room \in Nat
    PROVE  LET n == LineLength(s, room)
           IN  /\ n \in 0 .. Len(s) /\ n <= room
               /\ \A i \in 1 .. Len(s) : i < n => s[i] # NewLine
               /\ n < Len(s) /\ n < room => n > 0 /\ s[n] = NewLine
               /\ Len(s) > 0 /\ room > 0 => n > 0
<1> DEFINE newlines == {i \in DOMAIN s : s[i] = NewLine}
           stops == {Len(s), room} \cup newlines
           n == LineLength(s, room)
<1>0. DOMAIN s = 1 .. Len(s)
  BY LenProperties
<1>1. Len(s) \in Nat
  BY LenProperties
<1>2. stops \in SUBSET Nat /\ stops # {}
  BY <1>0, <1>1
<1>3. n = Min(stops)
  BY DEF LineLength
<1> HIDE DEF n
<1>4. n \in stops /\ \A m \in stops : n <= m
  BY <1>2, <1>3, MinIsLeast
<1>5. /\ n = Len(s) \/ n = room \/ (n \in 1 .. Len(s) /\ s[n] = NewLine)
      /\ n <= Len(s) /\ n <= room
      /\ \A i \in 1 .. Len(s) : s[i] = NewLine => n <= i
  BY <1>0, <1>1, <1>4
<1> HIDE DEF stops, newlines
<1>6. n \in 0 .. Len(s) /\ n <= room
  BY <1>1, <1>5
<1>7. \A i \in 1 .. Len(s) : i < n => s[i] # NewLine
  BY <1>1, <1>5, <1>6
<1>8. n < Len(s) /\ n < room => n > 0 /\ s[n] = NewLine
  BY <1>1, <1>5, <1>6
<1>9. Len(s) > 0 /\ room > 0 => n > 0
  BY <1>1, <1>5, <1>6
<1> QED
  BY <1>6, <1>7, <1>8, <1>9 DEF n

(* What strlen sees of a buffer is its beginning, without a zero.             *)
LEMMA TextProperties ==
    ASSUME NEW s \in Seq(Byte)
    PROVE  /\ Text(s) \in Seq(Byte) /\ IsPrefix(Text(s), s)
           /\ \A i \in 1 .. Len(Text(s)) : Text(s)[i] # Zero
           /\ (\A i \in 1 .. Len(s) : s[i] # Zero) => Text(s) = s
<1> DEFINE zeros == {j \in DOMAIN s : s[j] = Zero}
           stops == {Len(s)} \cup {i - 1 : i \in zeros}
           n == Min(stops)
<1>1. Len(s) \in Nat /\ DOMAIN s = 1 .. Len(s)
  BY LenProperties
<1>2. stops \in SUBSET Nat /\ stops # {}
  BY <1>1
<1>3. Text(s) = SubSeq(s, 1, n)
  BY DEF Text, Prefix
<1> HIDE DEF n
<1>4. n \in stops /\ \A m \in stops : n <= m
  BY <1>2, MinIsLeast DEF n
<1>5. n \in 0 .. Len(s) /\ \A i \in 1 .. Len(s) : s[i] = Zero => n <= i - 1
  BY <1>1, <1>4
<1>6. ASSUME NEW i \in 1 .. n PROVE s[i] # Zero
  BY <1>1, <1>5
<1>7. (\A i \in 1 .. Len(s) : s[i] # Zero) => n = Len(s)
  BY <1>1, <1>4, <1>5
<1> HIDE DEF stops
<1> DEFINE t == SubSeq(s, 1, n)
<1>8. t \in Seq(Byte) /\ Len(t) = n /\ \A i \in 1 .. n : t[i] = s[i]
  BY <1>5, CutInTwo
<1>9. n = Len(s) => t = s
  BY SubSeqFull
<1> HIDE DEF t
<1>10. Len(t) <= Len(s) /\ \A i \in 1 .. Len(t) : t[i] = s[i] /\ t[i] # Zero
  BY <1>1, <1>5, <1>6, <1>8
<1>11. IsPrefix(t, s)
  BY <1>8, <1>10, PrefixElements
<1> QED
  BY <1>3, <1>7, <1>8, <1>9, <1>10, <1>11 DEF t

(* Every beginning of a line looks like one.                                  *)
LEMMA BeginningOfLine ==
    ASSUME NEW s \in Seq(Byte), NEW t \in Seq(Byte), IsPrefix(s, t), LineShape(t)
    PROVE  LineShape(s)
<1>1. /\ Len(s) \in Nat /\ Len(t) \in Nat /\ DOMAIN s = 1 .. Len(s) /\ DOMAIN t = 1 .. Len(t)
      /\ MAXLINE \in Nat
  BY LenProperties, RioAssumption
<1>2. Len(s) <= Len(t) /\ \A i \in 1 .. Len(s) : s[i] = t[i]
  BY PrefixElements
<1> QED
  BY <1>1, <1>2 DEF LineShape

(* If it is whole it is the line.                                             *)
LEMMA WholeIsAll ==
    ASSUME NEW s \in Seq(Byte), NEW t \in Seq(Byte), IsPrefix(s, t), LineShape(t), Whole(s)
    PROVE  s = t /\ s # << >>
<1>1. /\ Len(s) \in Nat /\ Len(t) \in Nat /\ DOMAIN s = 1 .. Len(s) /\ DOMAIN t = 1 .. Len(t)
      /\ MAXLINE \in Nat /\ MAXLINE > 1
  BY LenProperties, RioAssumption
<1>2. Len(s) <= Len(t) /\ \A i \in 1 .. Len(s) : s[i] = t[i]
  BY PrefixElements
<1>3. CASE Len(s) >= MAXLINE - 1
  <2>1. Len(s) >= Len(t) /\ Len(s) > 0
    BY <1>1, <1>3 DEF LineShape
  <2> QED
    BY <2>1, LongPrefix, EmptySeq
<1>4. CASE s # << >> /\ Last(s) = NewLine
  <2>1. Len(s) \in 1 .. Len(s) /\ s[Len(s)] = NewLine
    BY <1>1, <1>4, EmptySeq DEF Last
  <2>2. t[Len(s)] = NewLine /\ Len(s) \in 1 .. Len(t)
    BY <1>1, <1>2, <2>1
  <2>3. Len(s) >= Len(t)
    BY <1>1, <2>2 DEF LineShape
  <2> QED
    BY <1>4, <2>3, LongPrefix
<1> QED
  BY <1>3, <1>4 DEF Whole

(* rio_readlineb moves bytes from the buffer to the line, in order, and       *)
(* leaves some only if the line is whole.                                     *)
LEMMA LineMoves ==
    ASSUME NEW r \in Buffer, Len(r.line) < MAXLINE
    PROVE  LET t == rio_readlineb(r)
           IN  /\ t \in Buffer /\ Len(t.line) < MAXLINE /\ Len(t.buf) <= Len(r.buf)
               /\ t.line \o t.buf = r.line \o r.buf
               /\ t.buf # << >> => Whole(t.line)
<1> DEFINE b == r.buf
           l == r.line
           room == MAXLINE - 1 - Len(l)
           n == LineLength(b, room)
<1>1. b \in Seq(Byte) /\ l \in Seq(Byte) /\ MAXLINE \in Nat /\ Len(l) < MAXLINE
  BY RioAssumption DEF Buffer
<1> HIDE DEF b, l
<1>2. Len(b) \in Nat /\ Len(l) \in Nat /\ room \in Nat
  BY <1>1, LenProperties
<1> HIDE DEF room
<1>3. /\ n \in 0 .. Len(b) /\ n <= room
      /\ n < Len(b) /\ n < room => n > 0 /\ b[n] = NewLine
  BY <1>1, <1>2, LineLengthProperties
<1> HIDE DEF n
<1> DEFINE u == SubSeq(b, 1, n)
           v == SubSeq(b, n + 1, Len(b))
<1>4. /\ u \in Seq(Byte) /\ Len(u) = n /\ \A i \in 1 .. n : u[i] = b[i]
      /\ v \in Seq(Byte) /\ Len(v) = Len(b) - n
      /\ u \o v = b
  BY <1>1, <1>3, CutInTwo
<1> HIDE DEF u, v
<1> DEFINE w == l \o u
<1>5. /\ w \in Seq(Byte) /\ Len(w) = Len(l) + n
      /\ \A i \in 1 .. Len(l) + n : w[i] = IF i <= Len(l) THEN l[i] ELSE u[i - Len(l)]
  BY <1>1, <1>4, ConcatProperties
<1>6. w \o v = l \o b
  <2>1. l \in Seq(Byte) /\ u \in Seq(Byte) /\ v \in Seq(Byte)
    BY <1>1, <1>4
  <2>2. (l \o u) \o v = l \o (u \o v)
    BY <2>1, ConcatAssociative
  <2> QED
    BY <1>4, <2>2
<1> HIDE DEF w
<1>7. Len(w) < MAXLINE /\ Len(v) <= Len(b)
  BY <1>1, <1>2, <1>3, <1>4, <1>5 DEF room
<1>8. ASSUME v # << >> PROVE Whole(w)
  <2>1. n < Len(b)
    BY <1>2, <1>3, <1>4, <1>8, EmptySeq
  <2>2. CASE n = room
    BY <1>1, <1>2, <1>5, <2>2 DEF Whole, room
  <2>3. CASE n < room
    <3>1. n > 0 /\ b[n] = NewLine
      BY <1>3, <2>1, <2>3
    <3>2. w[Len(l) + n] = u[n] /\ u[n] = b[n]
      <4>1. Len(l) + n \in 1 .. Len(l) + n /\ ~(Len(l) + n <= Len(l)) /\ Len(l) + n - Len(l) = n
        BY <1>2, <1>3, <3>1
      <4> QED
        BY <1>3, <1>4, <1>5, <3>1, <4>1
    <3>3. w # << >> /\ Last(w) = NewLine
      <4>1. Len(w) > 0
        BY <1>2, <1>3, <1>5, <3>1
      <4> QED
        BY <1>5, <3>1, <3>2, <4>1, EmptySeq DEF Last
    <3> QED
      BY <3>3 DEF Whole
  <2> QED
    BY <1>2, <1>3, <2>2, <2>3
<1>9. rio_readlineb(r) = [buf |-> v, line |-> w]
  BY DEF rio_readlineb, Prefix, Suffix, b, l, room, n, u, v, w
<1>10. w \o v = r.line \o r.buf /\ Len(v) <= Len(r.buf)
  BY <1>6, <1>7 DEF b, l
<1> HIDE DEF w, v
<1> DEFINE t == rio_readlineb(r)
<1>11. t.buf = v /\ t.line = w /\ t \in Buffer
  BY <1>4, <1>5, <1>9 DEF Buffer
<1> HIDE DEF t
<1> QED
  BY <1>7, <1>8, <1>10, <1>11 DEF t

-----------------------------------------------------------------------------
(* What travels of an input                                                   *)

(* Fgets takes at least a byte while there are any, and what it puts into a   *)
(* client's buf looks like a line up to its first zero.                       *)
LEMMA LineAtProperties ==
    ASSUME NEW s \in Seq(Byte), NEW i \in 0 .. Len(s)
    PROVE  LET line == LineAt(s, i)
           IN  /\ line \in Seq(Byte) /\ Len(line) \in 0 .. Len(s) - i
               /\ i < Len(s) => Len(line) > 0
               /\ Text(line) \in Seq(Byte) /\ LineShape(Text(line))
<1> DEFINE rest == SubSeq(s, i + 1, Len(s))
           n == LineLength(rest, MAXLINE - 1)
           line == SubSeq(rest, 1, n)
<1>1. /\ Len(s) \in Nat /\ i \in Nat /\ i <= Len(s)
      /\ MAXLINE \in Nat /\ MAXLINE > 1 /\ MAXLINE - 1 \in Nat
  BY LenProperties, RioAssumption
<1>2. rest \in Seq(Byte) /\ Len(rest) = Len(s) - i
  BY <1>1, CutInTwo
<1>3. LineAt(s, i) = line
  BY DEF LineAt, Prefix, Suffix
<1> HIDE DEF rest
<1>4. /\ n \in 0 .. Len(rest) /\ n <= MAXLINE - 1
      /\ \A j \in 1 .. Len(rest) : j < n => rest[j] # NewLine
      /\ Len(rest) > 0 => n > 0
  <2> DEFINE room == MAXLINE - 1
  <2>1. room \in Nat /\ room > 0
    BY <1>1
  <2> HIDE DEF room
  <2>2. LET k == LineLength(rest, room)
        IN  /\ k \in 0 .. Len(rest) /\ k <= room
            /\ \A j \in 1 .. Len(rest) : j < k => rest[j] # NewLine
            /\ Len(rest) > 0 /\ room > 0 => k > 0
    BY <1>2, <2>1, LineLengthProperties
  <2> QED
    BY <2>1, <2>2 DEF room
<1> HIDE DEF n
<1>5. line \in Seq(Byte) /\ Len(line) = n /\ \A j \in 1 .. n : line[j] = rest[j]
  BY <1>2, <1>4, CutInTwo
<1> HIDE DEF line
<1> DEFINE text == Text(line)
<1>6. /\ text \in Seq(Byte) /\ IsPrefix(text, line)
      /\ \A j \in 1 .. Len(text) : text[j] # Zero
  BY <1>5, TextProperties
<1> HIDE DEF text
<1>7. Len(text) <= n /\ \A j \in 1 .. Len(text) : text[j] = line[j]
  BY <1>5, <1>6, PrefixElements
<1>8. Len(text) \in Nat /\ DOMAIN text = 1 .. Len(text)
  BY <1>6, LenProperties
<1>9. ASSUME NEW j \in 1 .. Len(text), j < Len(text) PROVE text[j] # NewLine
  <2>1. Len(text) \in Nat
    BY <1>8
  <2>2. j \in 1 .. n /\ j < n /\ j \in 1 .. Len(rest)
    BY <1>1, <1>2, <1>4, <1>7, <1>9, <2>1
  <2> QED
    BY <1>4, <1>5, <1>7, <2>2
<1>10. LineShape(text)
  <2>1. Len(text) < MAXLINE
    <3>1. Len(text) \in Nat
      BY <1>8
    <3> QED
      BY <1>1, <1>4, <1>7, <3>1
  <2> QED
    BY <1>6, <1>8, <1>9, <2>1 DEF LineShape
<1>11. Len(line) \in 0 .. Len(s) - i /\ (i < Len(s) => Len(line) > 0)
  BY <1>1, <1>2, <1>4, <1>5
<1> QED
  BY <1>3, <1>5, <1>6, <1>10, <1>11 DEF text

(* The recursion of TravellingFrom has a solution, so it defines one: by      *)
(* induction, from the end of the input towards its start.                    *)
LEMMA TravellingUnfolds ==
    ASSUME NEW s \in Seq(Byte)
    PROVE  LET from == TravellingFrom(s)
           IN  /\ from \in [0 .. Len(s) -> Seq(Byte)]
               /\ from[Len(s)] = << >>
               /\ \A i \in 0 .. Len(s) :
                     i < Len(s) =>
                        from[i] = Text(LineAt(s, i)) \o from[i + Len(LineAt(s, i))]
<1> DEFINE N == Len(s)
           next(i) == i + Len(LineAt(s, i))
           text(i) == Text(LineAt(s, i))
           step(g, i) == IF i = N THEN << >> ELSE text(i) \o g[next(i)]
           solved(g, k) == \A i \in 0 .. N : i >= k => g[i] = step(g, i)
           Some(k) == \E g \in [0 .. N -> Seq(Byte)] : solved(g, k)
           unsolved == {m \in 0 .. N : ~Some(N - m)}
<1>1. N \in Nat
  BY LenProperties
<1>2. ASSUME NEW i \in 0 .. N
      PROVE  /\ text(i) \in Seq(Byte)
             /\ next(i) \in Nat /\ next(i) >= i /\ next(i) <= N
             /\ i < N => next(i) > i
  <2> DEFINE n == Len(LineAt(s, i))
  <2>1. n \in 0 .. N - i /\ (i < N => n > 0) /\ text(i) \in Seq(Byte)
    BY LineAtProperties
  <2> HIDE DEF n
  <2>2. i + n \in Nat /\ i + n >= i /\ i + n <= N /\ (i < N => i + n > i)
    BY <1>1, <2>1
  <2> QED
    BY <2>1, <2>2 DEF n
<1> HIDE DEF N, next, text
<1>3. Some(N)
  <2> DEFINE g == [i \in 0 .. N |-> << >>]
  <2>1. g \in [0 .. N -> Seq(Byte)] /\ solved(g, N)
    BY <1>1
  <2> QED
    BY <2>1
<1>4. ASSUME NEW k \in 0 .. N, k < N, Some(k + 1) PROVE Some(k)
  <2>1. PICK g \in [0 .. N -> Seq(Byte)] : solved(g, k + 1)
    BY <1>4
  <2> DEFINE h == [g EXCEPT ![k] = step(g, k)]
  <2>2. step(g, k) \in Seq(Byte)
    <3>1. next(k) \in 0 .. N /\ text(k) \in Seq(Byte)
      <4>1. next(k) \in Nat /\ next(k) <= N /\ text(k) \in Seq(Byte)
        BY <1>2
      <4> QED
        BY <1>1, <4>1
    <3>2. text(k) \o g[next(k)] \in Seq(Byte)
      BY <3>1, ConcatProperties
    <3> QED
      BY <1>1, <1>4, <3>2
  <2>3. h \in [0 .. N -> Seq(Byte)] /\ h[k] = step(g, k)
        /\ \A i \in 0 .. N : i > k => h[i] = g[i]
    BY <1>1, <1>4, <2>2
  <2> HIDE DEF h
  <2>4. ASSUME NEW i \in 0 .. N, i >= k PROVE h[i] = step(h, i)
    <3>1. step(h, i) = step(g, i)
      <4>1. CASE i = N
        BY <4>1
      <4>2. CASE i < N
        <5>1. next(i) \in Nat /\ next(i) <= N /\ next(i) > i
          BY <1>2, <4>2
        <5>2. next(i) \in 0 .. N /\ next(i) > k
          BY <1>1, <2>4, <5>1
        <5> QED
          BY <2>3, <5>2
      <4> QED
        BY <1>1, <4>1, <4>2
    <3>2. CASE i = k
      BY <2>3, <3>1, <3>2
    <3>3. CASE i > k
      <4>1. i >= k + 1
        BY <1>1, <1>4, <3>3
      <4>2. h[i] = g[i] /\ g[i] = step(g, i)
        BY <2>1, <2>3, <3>3, <4>1
      <4> QED
        BY <3>1, <4>2
    <3> QED
      BY <1>1, <1>4, <2>4, <3>2, <3>3
  <2> QED
    BY <2>3, <2>4
<1> HIDE DEF Some
<1>5. unsolved = {}
  <2> SUFFICES ASSUME unsolved # {} PROVE FALSE
    OBVIOUS
  <2>1. unsolved \in SUBSET Nat
    BY <1>1
  <2>2. PICK m \in unsolved : \A l \in unsolved : m <= l
    BY <2>1, LeastNumber
  <2>3. m \in 0 .. N /\ ~Some(N - m) /\ \A l \in 0 .. N : ~Some(N - l) => m <= l
    BY <2>2
  <2> HIDE DEF unsolved
  <2>4. m # 0
    <3>1. N - 0 = N
      BY <1>1
    <3> QED
      BY <1>3, <2>3, <3>1
  <2>5. m - 1 \in 0 .. N /\ ~(m <= m - 1) /\ N - (m - 1) = N - m + 1
        /\ N - m \in 0 .. N /\ N - m < N
    BY <1>1, <2>3, <2>4
  <2>6. Some(N - m + 1)
    BY <2>3, <2>5
  <2> QED
    BY <1>4, <2>3, <2>5, <2>6
<1>6. Some(0)
  <2>1. N \in 0 .. N /\ N - N = 0
    BY <1>1
  <2>2. N \notin unsolved
    BY <1>5
  <2> QED
    BY <2>1, <2>2
<1> HIDE DEF unsolved
<1> DEFINE from[i \in 0 .. N] == step(from, i)
<1>7. TravellingFrom(s) = from
  BY DEF TravellingFrom, N, next, text
<1>8. PICK g \in [0 .. N -> Seq(Byte)] : solved(g, 0)
  BY <1>6 DEF Some
<1>9. g = [i \in 0 .. N |-> step(g, i)]
  BY <1>1, <1>8
<1>10. from = [i \in 0 .. N |-> step(from, i)]
  BY <1>9
<1> HIDE DEF from
<1>11. \A i \in 0 .. N : from[i] = step(from, i)
  BY <1>10
<1> DEFINE untyped == {m \in 0 .. N : from[N - m] \notin Seq(Byte)}
<1>12. untyped = {}
  <2> SUFFICES ASSUME untyped # {} PROVE FALSE
    OBVIOUS
  <2>1. untyped \in SUBSET Nat
    BY <1>1
  <2>2. PICK m \in untyped : \A l \in untyped : m <= l
    BY <2>1, LeastNumber
  <2>3. /\ m \in 0 .. N /\ from[N - m] \notin Seq(Byte)
        /\ \A l \in 0 .. N : from[N - l] \notin Seq(Byte) => m <= l
    BY <2>2
  <2> HIDE DEF untyped
  <2> DEFINE i == N - m
  <2>4. i \in 0 .. N /\ (i # N => i < N) /\ m = N - i
    BY <1>1, <2>3
  <2>0. from[i] \notin Seq(Byte) /\ from[i] = step(from, i)
    BY <1>11, <2>3, <2>4
  <2> HIDE DEF i
  <2>5. CASE i = N
    BY <2>0, <2>5, EmptySeq
  <2>6. CASE i < N
    <3> DEFINE l == N - next(i)
    <3>0. next(i) \in Nat /\ next(i) <= N /\ next(i) > i
      BY <1>2, <2>4, <2>6
    <3>1. l \in 0 .. N /\ ~(m <= l) /\ N - l = next(i)
      BY <1>1, <2>4, <3>0
    <3>2. from[next(i)] \in Seq(Byte)
      BY <2>3, <3>1
    <3>3. text(i) \o from[next(i)] \in Seq(Byte)
      BY <1>2, <2>4, <3>2, ConcatProperties
    <3> QED
      BY <1>1, <2>0, <2>4, <2>6, <3>3
  <2> QED
    BY <2>4, <2>5, <2>6
<1>13. from \in [0 .. N -> Seq(Byte)]
  <2>1. ASSUME NEW i \in 0 .. N PROVE from[i] \in Seq(Byte)
    <3>1. N - i \in 0 .. N /\ N - (N - i) = i
      BY <1>1
    <3> QED
      BY <1>12, <3>1
  <2> QED
    BY <1>10, <2>1
<1>14. /\ from[N] = << >>
       /\ \A i \in 0 .. N : i < N => from[i] = text(i) \o from[next(i)]
  <2>1. N \in 0 .. N /\ \A i \in 0 .. N : i < N => i # N
    BY <1>1
  <2> QED
    BY <1>11, <2>1
<1> QED
  BY <1>7, <1>13, <1>14 DEF N, next, text

-----------------------------------------------------------------------------
(* Types                                                                      *)

(* A read empties a stream from the front.                                    *)
LEMMA ReadCountsProperties ==
    ASSUME NEW s \in Seq(Byte), NEW k \in ReadCounts(s)
    PROVE  /\ k \in 1 .. Len(s) /\ k <= RIO_BUFSIZE
           /\ Prefix(s, k) \in Seq(Byte) /\ Suffix(s, k) \in Seq(Byte)
           /\ Len(Prefix(s, k)) = k /\ Len(Suffix(s, k)) = Len(s) - k
           /\ Prefix(s, k) \o Suffix(s, k) = s
<1> DEFINE bounds == {Len(s), RIO_BUFSIZE}
<1>1. Len(s) \in Nat /\ RIO_BUFSIZE \in Nat
  BY LenProperties, RioAssumption
<1>2. bounds \in SUBSET Nat /\ bounds # {}
  BY <1>1
<1> HIDE DEF bounds
<1>3. Min(bounds) \in bounds /\ \A m \in bounds : Min(bounds) <= m
  BY <1>2, MinIsLeast
<1>4. Min(bounds) \in Nat /\ Min(bounds) <= Len(s) /\ Min(bounds) <= RIO_BUFSIZE
  BY <1>2, <1>3 DEF bounds
<1>5. k \in 1 .. Min(bounds)
  BY DEF ReadCounts, bounds
<1>6. k \in 1 .. Len(s) /\ k \in 0 .. Len(s) /\ k <= RIO_BUFSIZE
  BY <1>1, <1>4, <1>5
<1> QED
  BY <1>6, CutInTwo DEF Prefix, Suffix

(* A write takes the beginning of what it is given.                           *)
LEMMA WriteCountsProperties ==
    ASSUME NEW s \in Seq(Byte), NEW k \in WriteCounts(Len(s))
    PROVE  /\ k \in 0 .. Len(s)
           /\ Prefix(s, k) \in Seq(Byte) /\ Len(Prefix(s, k)) = k /\ IsPrefix(Prefix(s, k), s)
           /\ ~(k < Len(s)) => Prefix(s, k) = s
<1>1. Len(s) \in Nat
  BY LenProperties
<1>2. k \in 0 .. Len(s)
  BY <1>1, RioAssumption DEF WriteCounts
<1> DEFINE p == SubSeq(s, 1, k)
<1>3. p \in Seq(Byte) /\ Len(p) = k /\ \A i \in 1 .. k : p[i] = s[i]
  BY <1>2, CutInTwo
<1> HIDE DEF p
<1>4. Len(p) <= Len(s) /\ \A i \in 1 .. Len(p) : p[i] = s[i]
  BY <1>1, <1>2, <1>3
<1>5. IsPrefix(p, s)
  BY <1>3, <1>4, PrefixElements
<1>6. ~(k < Len(s)) => p = s
  <2>1. ~(k < Len(s)) => Len(p) >= Len(s)
    BY <1>1, <1>2, <1>3
  <2> QED
    BY <1>3, <1>5, <2>1, LongPrefix
<1> QED
  BY <1>2, <1>3, <1>5, <1>6 DEF p, Prefix

(* rio_read has read k bytes of a stream into an empty buffer.                *)
LEMMA RefillMoves ==
    ASSUME NEW r \in Buffer, Len(r.line) < MAXLINE, NEW s \in Seq(Byte), NEW k \in ReadCounts(s)
    PROVE  LET t == Refilled(r, Prefix(s, k))
           IN  /\ t \in Buffer /\ Len(t.line) < MAXLINE /\ Len(t.buf) <= RIO_BUFSIZE
               /\ t.line \o t.buf = r.line \o Prefix(s, k)
               /\ t.buf # << >> => Whole(t.line)
<1> DEFINE p == Prefix(s, k)
           q == [r EXCEPT !.buf = p]
           t == rio_readlineb(q)
<1>1. p \in Seq(Byte) /\ Len(p) <= RIO_BUFSIZE /\ Len(p) \in Nat
  <2>1. Len(p) = k /\ k \in 1 .. Len(s) /\ k <= RIO_BUFSIZE /\ p \in Seq(Byte)
    BY ReadCountsProperties
  <2> QED
    BY <2>1, LenProperties
<1> HIDE DEF p
<1>2. q \in Buffer /\ q.buf = p /\ q.line = r.line
  BY <1>1 DEF Buffer
<1> HIDE DEF q
<1>3. /\ t \in Buffer /\ Len(t.line) < MAXLINE /\ Len(t.buf) <= Len(q.buf)
      /\ t.line \o t.buf = q.line \o q.buf
      /\ t.buf # << >> => Whole(t.line)
  BY <1>2, LineMoves
<1>4. Len(t.buf) <= RIO_BUFSIZE
  <2>1. Len(t.buf) \in Nat /\ RIO_BUFSIZE \in Nat
    BY <1>3, LenProperties, RioAssumption DEF Buffer
  <2> QED
    BY <1>1, <1>2, <1>3, <2>1
<1>5. t = Refilled(r, Prefix(s, k))
  BY DEF Refilled, p, q
<1> HIDE DEF t
<1> QED
  BY <1>2, <1>3, <1>4, <1>5 DEF p

(* The next line is taken from the buffer.                                    *)
LEMMA NextLineMoves ==
    ASSUME NEW r \in Buffer, Len(r.buf) <= RIO_BUFSIZE
    PROVE  LET t == NextLine(r)
           IN  /\ t \in Buffer /\ Len(t.line) < MAXLINE /\ Len(t.buf) <= RIO_BUFSIZE
               /\ t.line \o t.buf = r.buf
               /\ t.buf # << >> => Whole(t.line)
<1> DEFINE q == [r EXCEPT !.line = << >>]
           t == rio_readlineb(q)
<1>1. << >> \in Seq(Byte) /\ Len(<< >>) = 0 /\ Len(<< >>) < MAXLINE
  BY EmptySeq, RioAssumption
<1>2. q \in Buffer /\ q.buf = r.buf /\ q.line = << >> /\ Len(q.line) < MAXLINE
  BY <1>1 DEF Buffer
<1> HIDE DEF q
<1>3. /\ t \in Buffer /\ Len(t.line) < MAXLINE /\ Len(t.buf) <= Len(q.buf)
      /\ t.line \o t.buf = q.line \o q.buf
      /\ t.buf # << >> => Whole(t.line)
  BY <1>2, LineMoves
<1>4. q.line \o q.buf = r.buf
  BY <1>2, ConcatEmptySeq DEF Buffer
<1>5. Len(t.buf) <= RIO_BUFSIZE
  <2>1. Len(t.buf) \in Nat /\ RIO_BUFSIZE \in Nat /\ Len(r.buf) \in Nat
    BY <1>3, LenProperties, RioAssumption DEF Buffer
  <2> QED
    BY <1>2, <1>3, <2>1
<1>6. t = NextLine(r)
  BY DEF NextLine, q
<1> HIDE DEF t
<1> QED
  BY <1>3, <1>4, <1>5, <1>6

(* The empty buffer.                                                          *)
LEMMA EmptyBuffer ==
    /\ rio_readinitb \in Buffer /\ rio_readinitb.buf = << >> /\ rio_readinitb.line = << >>
    /\ Len(<< >>) = 0 /\ Len(<< >>) < MAXLINE /\ Len(<< >>) <= RIO_BUFSIZE
    /\ ~Whole(<< >>)
<1>1. << >> \in Seq(Byte) /\ Len(<< >>) = 0
  BY EmptySeq
<1>2. MAXLINE \in Nat /\ MAXLINE > 1 /\ RIO_BUFSIZE \in Nat
  BY RioAssumption
<1>3. ~(Len(<< >>) >= MAXLINE - 1)
  BY <1>1, <1>2
<1> QED
  BY <1>1, <1>2, <1>3 DEF rio_readinitb, Buffer, Whole

(* The types hold at the start.                                               *)
LEMMA TypesInit == Init => Types
<1> SUFFICES ASSUME Init PROVE Types
  OBVIOUS
<1>1. stdin \in Streams
  BY EchoAssumption DEF Init, Streams, Byte
<1>2. << >> \in Seq(Byte) /\ << >> \in Seq(Clients)
  OBVIOUS
<1>3. ASSUME NEW c \in Clients PROVE Len(stdin[c]) \in Nat
  BY <1>1, LenProperties DEF Streams
<1> QED
  BY <1>1, <1>2, <1>3, EmptyBuffer DEF Init, Types, Streams

(* The steps of a client keep the types.                                      *)
LEMMA ClientsKeepTypes ==
    ASSUME Types, NEW c \in Clients, ClientStep(c) \/ Killed(c)
    PROVE  Types'
<1>1. CASE Connect(c)
  <2>1. backlog' \in Seq(Clients)
    <3>1. backlog \in Seq(Clients)
      BY DEF Types
    <3>2. Append(backlog, c) \in Seq(Clients)
      BY <3>1, AppendProperties
    <3>3. backlog' = Append(backlog, c) \/ backlog' = backlog
      BY <1>1 DEF Connect
    <3> QED
      BY <3>1, <3>2, <3>3
  <2> QED
    BY <1>1, <2>1 DEF Connect, Become, Types, serverVars
<1>2. CASE SendLine(c)
  <2> DEFINE line == LineAt(stdin[c], at[c])
             text == Text(line)
  <2>1. stdin[c] \in Seq(Byte) /\ at[c] \in 0 .. Len(stdin[c])
    BY LenProperties DEF Types, Streams
  <2>2. /\ Len(line) \in 0 .. Len(stdin[c]) - at[c]
        /\ text \in Seq(Byte)
    BY <2>1, LineAtProperties
  <2>3. PICK k \in WriteCounts(Len(text)) :
           /\ toServer' = IF server = "exited" THEN toServer
                          ELSE [toServer EXCEPT ![c] = @ \o Prefix(text, k)]
           /\ cut' = [cut EXCEPT ![c] = @ \/ k < Len(text)]
    BY <1>2 DEF SendLine
  <2>4. at' = [at EXCEPT ![c] = @ + Len(line)] /\ buf' = [buf EXCEPT ![c] = text]
    BY <1>2 DEF SendLine
  <2> HIDE DEF line, text
  <2>5. at[c] + Len(line) \in Nat /\ at[c] + Len(line) <= Len(stdin[c])
    <3>1. Len(stdin[c]) \in Nat
      BY <2>1, LenProperties
    <3> QED
      BY <2>1, <2>2, <3>1
  <2>6. toServer' \in Streams
    <3>1. Prefix(text, k) \in Seq(Byte)
      BY <2>2, WriteCountsProperties
    <3>2. toServer[c] \o Prefix(text, k) \in Seq(Byte)
      BY <3>1, ConcatProperties DEF Types, Streams
    <3> QED
      BY <2>3, <3>2 DEF Types, Streams
  <2>7. cut' \in [Clients -> BOOLEAN] /\ buf' \in Streams
    BY <2>2, <2>3, <2>4 DEF Types, Streams
  <2>8. client' \in [Clients -> {"idle", "sending", "reading", "done", "failed", "killed"}]
    BY <1>2 DEF SendLine, Await, Become, Types
  <2>9. at' \in [Clients -> Nat] /\ \A d \in Clients : at'[d] <= Len(stdin[d])
    BY <2>4, <2>5 DEF Types
  <2> QED
    BY <1>2, <2>6, <2>7, <2>8, <2>9 DEF SendLine, Types, serverVars
<1>3. CASE Finish(c)
  BY <1>3 DEF Finish, Hangup, Become, Types, Streams, serverVars
<1>4. CASE Receive(c)
  <2>1. PICK k \in ReadCounts(toClient[c]) :
          LET r == Refilled(crio[c], Prefix(toClient[c], k))
          IN  /\ toClient' = [toClient EXCEPT ![c] = Suffix(@, k)]
              /\ crio' = [crio EXCEPT ![c] = IF Whole(r.line) THEN [r EXCEPT !.line = << >>] ELSE r]
              /\ IF Whole(r.line) THEN Fputs(c, r.line) ELSE UNCHANGED << output, client >>
    BY <1>4 DEF Receive
  <2> DEFINE r == Refilled(crio[c], Prefix(toClient[c], k))
             q == IF Whole(r.line) THEN [r EXCEPT !.line = << >>] ELSE r
  <2>2. toClient[c] \in Seq(Byte) /\ crio[c] \in Buffer /\ Len(crio[c].line) < MAXLINE
    BY DEF Types, Streams
  <2>3. r \in Buffer /\ Len(r.line) < MAXLINE /\ Len(r.buf) <= RIO_BUFSIZE
    BY <2>2, RefillMoves
  <2>4. /\ toClient' = [toClient EXCEPT ![c] = Suffix(@, k)]
        /\ crio' = [crio EXCEPT ![c] = q]
        /\ IF Whole(r.line) THEN Fputs(c, r.line) ELSE UNCHANGED << output, client >>
    BY <2>1
  <2> HIDE DEF r
  <2>5. q \in Buffer /\ Len(q.line) < MAXLINE /\ Len(q.buf) <= RIO_BUFSIZE
    BY <2>3, EmptyBuffer DEF Buffer
  <2> HIDE DEF q
  <2>6. toClient' \in Streams
    BY <2>2, <2>4, ReadCountsProperties DEF Types, Streams
  <2>7. output' \in Streams
    <3>1. Text(r.line) \in Seq(Byte)
      BY <2>3, TextProperties DEF Buffer
    <3>2. output[c] \o Text(r.line) \in Seq(Byte)
      BY <3>1, ConcatProperties DEF Types, Streams
    <3> QED
      BY <2>4, <3>2 DEF Fputs, Types, Streams
  <2>8. client' \in [Clients -> {"idle", "sending", "reading", "done", "failed", "killed"}]
    BY <2>4 DEF Fputs, Become, Types
  <2>9. /\ crio' \in [Clients -> Buffer]
        /\ \A d \in Clients : Len(crio'[d].line) < MAXLINE /\ Len(crio'[d].buf) <= RIO_BUFSIZE
    BY <2>4, <2>5 DEF Types
  <2> QED
    BY <1>4, <2>6, <2>7, <2>8, <2>9 DEF Receive, Types, serverVars
<1>5. CASE ReceiveEnd(c)
  <2>1. /\ crio' \in [Clients -> Buffer]
        /\ \A d \in Clients : Len(crio'[d].line) < MAXLINE /\ Len(crio'[d].buf) <= RIO_BUFSIZE
    <3> DEFINE q == [crio[c] EXCEPT !.line = << >>]
    <3>1. q \in Buffer /\ Len(q.line) < MAXLINE /\ Len(q.buf) <= RIO_BUFSIZE
      <4>1. crio[c] \in Buffer /\ Len(crio[c].buf) <= RIO_BUFSIZE
        BY DEF Types
      <4>2. q \in Buffer /\ q.line = << >> /\ q.buf = crio[c].buf
        BY <4>1, EmptyBuffer DEF Buffer
      <4> QED
        BY <4>1, <4>2, EmptyBuffer
    <3>2. crio' = crio \/ crio' = [crio EXCEPT ![c] = q]
      BY <1>5 DEF ReceiveEnd
    <3> HIDE DEF q
    <3> QED
      BY <3>1, <3>2 DEF Types
  <2>2. output' \in Streams
    <3> DEFINE line == IF crio[c].line = << >> THEN buf[c] ELSE crio[c].line
    <3>1. line \in Seq(Byte)
      BY DEF Types, Streams, Buffer
    <3>2. output' = output \/ output' = [output EXCEPT ![c] = @ \o Text(line)]
      BY <1>5 DEF ReceiveEnd, Fputs
    <3> HIDE DEF line
    <3>3. output[c] \o Text(line) \in Seq(Byte)
      BY <3>1, TextProperties, ConcatProperties DEF Types, Streams
    <3> QED
      BY <3>2, <3>3 DEF Types, Streams
  <2>3. client' \in [Clients -> {"idle", "sending", "reading", "done", "failed", "killed"}]
    BY <1>5 DEF ReceiveEnd, Fputs, Become, Types
  <2> QED
    BY <1>5, <2>1, <2>2, <2>3 DEF ReceiveEnd, Types, serverVars, streamVars
<1>6. CASE Killed(c)
  BY <1>6 DEF Killed, Hangup, Become, Types, Streams, serverVars
<1> QED
  BY <1>1, <1>2, <1>3, <1>4, <1>5, <1>6 DEF ClientStep

(* So do the steps of the server.                                             *)
LEMMA ServerKeepsTypes ==
    ASSUME Types, ServerStep \/ AcceptFails
    PROVE  Types'
<1>1. CASE Listen
  BY <1>1 DEF Listen, Types, clientVars, streamVars
<1>2. CASE Accept
  <2>1. Head(backlog) \in Clients /\ Tail(backlog) \in Seq(Clients)
    BY <1>2, FirstTaken DEF Accept, Types
  <2> QED
    BY <1>2, <2>1, EmptyBuffer DEF Accept, Types, clientVars, streamVars
<1>3. CASE ServerRead
  <2>1. serving \in Clients /\ toServer[serving] \in Seq(Byte)
    BY <1>3 DEF ServerRead, Types, Streams
  <2>2. PICK k \in ReadCounts(toServer[serving]) :
          /\ Reading(Refilled(rio, Prefix(toServer[serving], k)))
          /\ toServer' = [toServer EXCEPT ![serving] = Suffix(@, k)]
    BY <1>3 DEF ServerRead
  <2>3. /\ rio' \in Buffer /\ Len(rio'.line) < MAXLINE /\ Len(rio'.buf) <= RIO_BUFSIZE
        /\ server' \in {"reading", "writing"}
    BY <2>1, <2>2, RefillMoves DEF Reading, Types
  <2>4. toServer' \in Streams
    BY <2>1, <2>2, ReadCountsProperties DEF Types, Streams
  <2> QED
    BY <1>3, <2>1, <2>3, <2>4 DEF ServerRead, Types, clientVars
<1>4. CASE ServerReadEnd
  BY <1>4 DEF ServerReadEnd, AtEnd, Types, clientVars, streamVars
<1>5. CASE ServerReadFails
  BY <1>5 DEF ServerReadFails, ServerDies, Types, clientVars, streamVars
<1>6. CASE ServerWrite
  <2>1. serving \in Clients /\ rio.line \in Seq(Byte)
    BY <1>6 DEF ServerWrite, Types, Buffer
  <2>2. PICK k \in WriteCounts(Len(rio.line)) :
          /\ echoed' = [echoed EXCEPT ![serving] = @ \o Prefix(rio.line, k)]
          /\ cut' = [cut EXCEPT ![serving] = @ \/ k < Len(rio.line)]
          /\ IF conn[serving] = "open"
             THEN /\ toClient' = [toClient EXCEPT ![serving] = @ \o Prefix(rio.line, k)]
                  /\ UNCHANGED conn
             ELSE /\ conn' \in {conn, [conn EXCEPT ![serving] = "reset"]}
                  /\ UNCHANGED toClient
    BY <1>6 DEF ServerWrite
  <2>3. Prefix(rio.line, k) \in Seq(Byte)
    BY <2>1, WriteCountsProperties
  <2>4. /\ echoed[serving] \o Prefix(rio.line, k) \in Seq(Byte)
        /\ toClient[serving] \o Prefix(rio.line, k) \in Seq(Byte)
    BY <2>1, <2>3, ConcatProperties DEF Types, Streams
  <2>5. /\ echoed' \in Streams /\ toClient' \in Streams /\ cut' \in [Clients -> BOOLEAN]
        /\ conn' \in [Clients -> {"none", "open", "closed", "reset"}]
    BY <2>1, <2>2, <2>4 DEF Types, Streams
  <2>6. /\ rio' \in Buffer /\ Len(rio'.line) < MAXLINE /\ Len(rio'.buf) <= RIO_BUFSIZE
        /\ server' \in {"reading", "writing"}
    BY <1>6, NextLineMoves DEF ServerWrite, Reading, Types
  <2> QED
    BY <1>6, <2>1, <2>5, <2>6 DEF ServerWrite, Types, clientVars
<1>7. CASE AcceptFails
  <2>1. backlog' = backlog \/ (backlog # << >> /\ backlog' = Tail(backlog))
    BY <1>7 DEF AcceptFails
  <2>2. backlog' \in Seq(Clients)
    BY <2>1, FirstTaken DEF Types
  <2> QED
    BY <1>7, <2>2 DEF AcceptFails, ServerDies, Types, clientVars, streamVars
<1> QED
  BY <1>1, <1>2, <1>3, <1>4, <1>5, <1>6, <1>7 DEF ServerStep

(* Every variable keeps its type, and every buffer its bounds.                *)
THEOREM TypesHold == Spec => []Types
<1>1. Types /\ [Next]_vars => Types'
  <2>1. Types /\ UNCHANGED vars => Types'
    BY DEF Types, vars, serverVars, clientVars, streamVars
  <2> QED
    BY <2>1, ClientsKeepTypes, ServerKeepsTypes DEF Next, ClientStep
<1> QED
  BY <1>1, TypesInit, PTL DEF Spec

-----------------------------------------------------------------------------
(* One line under way                                                         *)

(* For a client all is as it was, although the server may have moved bytes of *)
(* its from the connection to the line.                                       *)
Bystander(d) ==
    /\ client'[d] = client[d] /\ stdin'[d] = stdin[d] /\ at'[d] = at[d]
    /\ buf'[d] = buf[d] /\ crio'[d] = crio[d] /\ output'[d] = output[d]
    /\ conn'[d] = conn[d] /\ Coming(d)' = Coming(d) /\ toClient'[d] = toClient[d]
    /\ echoed'[d] = echoed[d] /\ cut'[d] = cut[d]

(* Its line has then got as far as before.                                    *)
LEMMA BystandersFlow ==
    ASSUME NEW d \in Clients, Flow(d), Bystander(d)
    PROVE  Flow(d)'
<1>1. Untouched(d) => Untouched(d)'
  BY DEF Bystander, Untouched
<1>2. BetweenLines(d) => BetweenLines(d)'
  BY DEF Bystander, BetweenLines, Unsent
<1>3. OneLine(d) => OneLine(d)'
  BY DEF Bystander, OneLine, Unsent, Back
<1>4. AllEchoed(d) => AllEchoed(d)'
  BY DEF Bystander, AllEchoed
<1>5. BrokenOff(d) => BrokenOff(d)'
  BY DEF Bystander, BrokenOff
<1> QED
  BY <1>1, <1>2, <1>3, <1>4, <1>5 DEF Bystander, Flow

(* The sequences of a client.                                                 *)
LEMMA ClientSequences ==
    ASSUME Types, NEW c \in Clients
    PROVE  /\ stdin[c] \in Seq(Byte) /\ buf[c] \in Seq(Byte) /\ output[c] \in Seq(Byte)
           /\ crio[c] \in Buffer /\ crio[c].line \in Seq(Byte)
           /\ toServer[c] \in Seq(Byte) /\ toClient[c] \in Seq(Byte) /\ echoed[c] \in Seq(Byte)
           /\ Held(c) \in Seq(Byte) /\ Coming(c) \in Seq(Byte) /\ Back(c) \in Seq(Byte)
           /\ Unsent(c) \in Seq(Byte) /\ Travelling(stdin[c]) \in Seq(Byte)
<1>1. /\ stdin[c] \in Seq(Byte) /\ buf[c] \in Seq(Byte) /\ output[c] \in Seq(Byte)
      /\ crio[c] \in Buffer /\ crio[c].line \in Seq(Byte)
      /\ toServer[c] \in Seq(Byte) /\ toClient[c] \in Seq(Byte) /\ echoed[c] \in Seq(Byte)
      /\ at[c] \in Nat /\ at[c] <= Len(stdin[c])
  BY DEF Types, Streams, Buffer
<1>2. Held(c) \in Seq(Byte)
  BY EmptySeq DEF Held, Types, Buffer
<1>3. Coming(c) \in Seq(Byte) /\ Back(c) \in Seq(Byte)
  BY <1>1, <1>2, ConcatProperties DEF Coming, Back
<1>4. at[c] \in 0 .. Len(stdin[c]) /\ 0 \in 0 .. Len(stdin[c])
  <2>1. Len(stdin[c]) \in Nat
    BY <1>1, LenProperties
  <2> QED
    BY <1>1, <2>1
<1>5. Unsent(c) \in Seq(Byte) /\ Travelling(stdin[c]) \in Seq(Byte)
  BY <1>1, <1>4, TravellingUnfolds DEF Unsent, Travelling
<1> QED
  BY <1>1, <1>2, <1>3, <1>5

(* Only nothing joined to nothing is nothing.                                 *)
LEMMA EmptyConcat ==
    ASSUME NEW s \in Seq(Byte), NEW t \in Seq(Byte)
    PROVE  /\ s \o t = << >> <=> s = << >> /\ t = << >>
           /\ s \o << >> = s /\ << >> \o t = t
           /\ (s \o t = s) => t = << >>
<1>1. Len(s) \in Nat /\ Len(t) \in Nat /\ Len(s \o t) = Len(s) + Len(t) /\ s \o t \in Seq(Byte)
  BY LenProperties, ConcatProperties
<1>2. (s = << >> <=> Len(s) = 0) /\ (t = << >> <=> Len(t) = 0) /\ (s \o t = << >> <=> Len(s \o t) = 0)
  BY <1>1, EmptySeq
<1>3. s \o << >> = s /\ << >> \o t = t
  BY ConcatEmptySeq
<1>4. s \o t = s => Len(t) = 0
  BY <1>1
<1> HIDE DEF Byte
<1> QED
  BY <1>1, <1>2, <1>3, <1>4

(* A client's first step after it is connected finds nothing under way.       *)
LEMMA ConnectFlows ==
    ASSUME Types, Flows, server # "exited", NEW c \in Clients, Connect(c)
    PROVE  Flows'
<1>0. Serving /\ \A d \in Clients : Flow(d)
  BY DEF Flows
<1>1. Serving'
  BY <1>0 DEF Connect, Serving, serverVars, Types
<1>2. ASSUME NEW d \in Clients, d # c PROVE Flow(d)'
  <2>1. Bystander(d)
    BY <1>2 DEF Connect, Become, Bystander, Coming, Held, serverVars, Types
  <2> QED
    BY <1>0, <2>1, BystandersFlow
<1>3. Flow(c)'
  <2>1. Untouched(c) /\ crio[c].buf = << >>
    BY <1>0 DEF Connect, Flow
  <2>2. Coming(c)' = Coming(c)
    BY DEF Connect, Coming, Held, serverVars
  <2>3. CASE server = "starting"
    <3>1. client'[c] = "failed"
      BY <2>3 DEF Connect, Become, Types
    <3>2. Untouched(c)'
      BY <2>1, <2>2, <2>3 DEF Connect, Untouched
    <3> QED
      BY <2>1, <3>1, <3>2 DEF Connect, Flow
  <2>4. CASE server # "starting"
    <3>1. client'[c] = "sending" /\ conn'[c] = "open"
      BY <2>4 DEF Connect, Become, Types
    <3>2. << >> \o Unsent(c) = Travelling(stdin[c])
      <4>1. Unsent(c) = Travelling(stdin[c])
        BY <2>1 DEF Unsent, Travelling, Untouched
      <4> QED
        BY <4>1, ClientSequences, EmptyConcat
    <3>3. BetweenLines(c)'
      BY <2>1, <2>2, <3>1, <3>2 DEF Connect, Untouched, BetweenLines, Unsent
    <3> QED
      BY <2>1, <3>1, <3>3 DEF Connect, Flow
  <2> QED
    BY <2>3, <2>4
<1> QED
  BY <1>1, <1>2, <1>3 DEF Flows

(* While the server writes its client has a line to come.                     *)
LEMMA WriterHasALine ==
    ASSUME Types, Serving, server = "writing"
    PROVE  serving \in Clients /\ Coming(serving) = rio.line /\ Coming(serving) # << >>
<1>1. serving \in Clients /\ rio.line # << >> /\ toServer[serving] = << >> /\ rio.line \in Seq(Byte)
  BY DEF Types, Serving, Buffer
<1> QED
  BY <1>1, EmptyConcat, EmptySeq DEF Coming, Held

(* A line is sent when the last one has come back.                            *)
LEMMA SendLineFlows ==
    ASSUME Types, Flows, server # "exited", NEW c \in Clients, SendLine(c)
    PROVE  Flows'
<1>0. Serving /\ \A d \in Clients : Flow(d)
  BY DEF Flows
<1>1. BetweenLines(c) /\ crio[c].buf = << >>
  BY <1>0 DEF SendLine, Flow
<1>2. Held(c) = << >> /\ toServer[c] = << >>
  BY <1>1, ClientSequences, EmptyConcat DEF BetweenLines, Coming
<1>3. serving = c => server # "writing"
  BY <1>0, <1>1, WriterHasALine DEF BetweenLines
<1>4. Serving'
  <2>1. ASSUME server = "writing" PROVE toServer'[serving] = toServer[serving]
    BY <1>3, <2>1 DEF SendLine, Types
  <2> QED
    BY <1>0, <2>1 DEF SendLine, Serving, serverVars
<1>5. ASSUME NEW d \in Clients, d # c PROVE Flow(d)'
  <2>1. /\ at'[d] = at[d] /\ buf'[d] = buf[d]
        /\ toServer'[d] = toServer[d] /\ cut'[d] = cut[d]
    BY <1>5 DEF SendLine, Types, Streams
  <2>2. client'[d] = client[d]
    BY <1>5 DEF SendLine, Await, Become, Types
  <2>3. Held(d)' = Held(d) /\ Coming(d)' = Coming(d)
    BY <2>1 DEF SendLine, Held, Coming, serverVars
  <2>4. Bystander(d)
    BY <2>1, <2>2, <2>3 DEF SendLine, Bystander
  <2> QED
    BY <1>0, <2>4, BystandersFlow
<1>6. Flow(c)'
  <2> DEFINE line == LineAt(stdin[c], at[c])
             text == Text(line)
             next == at[c] + Len(line)
             from == TravellingFrom(stdin[c])
  <2>1. stdin[c] \in Seq(Byte) /\ Len(stdin[c]) \in Nat /\ at[c] \in 0 .. Len(stdin[c])
    BY LenProperties DEF Types, Streams
  <2>2. at[c] < Len(stdin[c])
    <3>1. at[c] = Len(stdin[c]) => Rest(c) = << >>
      <4>1. ASSUME at[c] = Len(stdin[c]) PROVE at[c] + 1 > Len(stdin[c])
        BY <2>1, <4>1
      <4> QED
        BY <2>1, <4>1, SubSeqEmpty DEF Rest, Suffix
    <3>2. Rest(c) # << >>
      BY DEF SendLine
    <3> QED
      BY <2>1, <3>1, <3>2
  <2>3. /\ line \in Seq(Byte) /\ Len(line) \in 0 .. Len(stdin[c]) - at[c]
        /\ text \in Seq(Byte) /\ LineShape(text)
    BY <2>1, LineAtProperties
  <2>4. from[at[c]] = text \o from[next]
    BY <2>1, <2>2, TravellingUnfolds
  <2>5. PICK k \in WriteCounts(Len(text)) :
           /\ toServer' = IF server = "exited" THEN toServer
                          ELSE [toServer EXCEPT ![c] = @ \o Prefix(text, k)]
           /\ cut' = [cut EXCEPT ![c] = @ \/ k < Len(text)]
    BY DEF SendLine
  <2>6. at' = [at EXCEPT ![c] = @ + Len(line)] /\ buf' = [buf EXCEPT ![c] = text]
    BY DEF SendLine
  <2>7. at'[c] = next /\ buf'[c] = text
    BY <2>6 DEF Types, Streams
  <2> HIDE DEF text, line, next
  <2> DEFINE p == Prefix(text, k)
  <2>8. p \in Seq(Byte) /\ IsPrefix(p, text) /\ (~(k < Len(text)) => p = text)
    BY <2>3, <2>5, WriteCountsProperties
  <2>9. toServer'[c] = << >> \o p /\ cut'[c] = (cut[c] \/ k < Len(text))
    BY <1>2, <2>5 DEF Types, Streams
  <2> HIDE DEF p
  <2>10. Coming(c)' = p
    <3>1. Held(c)' = << >>
      BY <1>2 DEF SendLine, Held, serverVars
    <3> QED
      BY <2>8, <2>9, <3>1, EmptyConcat DEF Coming
  <2>11. Back(c)' = << >>
    <3>1. crio'[c].line = << >> /\ toClient'[c] = << >>
      BY <1>1 DEF BetweenLines, SendLine
    <3> QED
      BY <3>1, EmptyConcat, EmptySeq DEF Back
  <2>12. stdin' = stdin /\ Unsent(c)' = from[next]
    BY <2>7 DEF SendLine, Unsent
  <2>13. IsPrefix(<< >>, text)
    BY <2>3, TrivialPrefixes
  <2>14. output'[c] = output[c] /\ echoed'[c] = echoed[c] /\ conn'[c] = conn[c] /\ crio'[c] = crio[c]
    BY DEF SendLine
  <2>15. echoed'[c] = output'[c] \o Back(c)'
    BY <1>1, <2>11, <2>14, ClientSequences, EmptyConcat DEF BetweenLines
  <2>16. output'[c] \o (buf'[c] \o Unsent(c)') = Travelling(stdin'[c])
    <3>1. output[c] \o from[at[c]] = Travelling(stdin[c])
      BY <1>1 DEF BetweenLines, Unsent
    <3> HIDE DEF from
    <3> QED
      BY <2>4, <2>7, <2>12, <2>14, <3>1
  <2>17. OneLine(c)'
    <3>1. ~cut'[c] => p = text
      BY <2>8, <2>9
    <3>2. ~Whole(crio'[c].line)
      BY <1>1, <2>14, EmptyBuffer DEF BetweenLines
    <3>3. conn'[c] = "open"
      BY <1>1, <2>14 DEF BetweenLines
    <3> QED
      BY <2>3, <2>7, <2>8, <2>10, <2>11, <2>13, <2>15, <2>16, <3>1, <3>2, <3>3 DEF OneLine
  <2>18. client'[c] = "reading"
    BY DEF SendLine, Await, Become, Types
  <2> QED
    BY <1>1, <2>14, <2>17, <2>18 DEF Flow
<1> QED
  BY <1>4, <1>5, <1>6 DEF Flows

(* A client ends when all its lines have come back.                           *)
LEMMA FinishFlows ==
    ASSUME Types, Flows, server # "exited", NEW c \in Clients, Finish(c)
    PROVE  Flows'
<1>0. Serving /\ \A d \in Clients : Flow(d)
  BY DEF Flows
<1>1. BetweenLines(c) /\ crio[c].buf = << >>
  BY <1>0 DEF Finish, Flow
<1>2. toClient[c] = << >>
  BY <1>1 DEF BetweenLines
<1>3. conn' = [conn EXCEPT ![c] = "closed"] /\ toClient' = [toClient EXCEPT ![c] = << >>]
  BY <1>2 DEF Finish, Hangup
<1>4. Serving'
  BY <1>0, <1>3 DEF Finish, Serving, serverVars, Types
<1>5. ASSUME NEW d \in Clients, d # c PROVE Flow(d)'
  <2>1. Bystander(d)
    BY <1>3, <1>5 DEF Finish, Become, Bystander, Coming, Held, serverVars, Types
  <2> QED
    BY <1>0, <2>1, BystandersFlow
<1>6. Flow(c)'
  <2>1. Unsent(c) = << >>
    <3>1. stdin[c] \in Seq(Byte) /\ Len(stdin[c]) \in Nat /\ at[c] \in 0 .. Len(stdin[c])
      BY LenProperties DEF Types, Streams
    <3>2. Len(SubSeq(stdin[c], at[c] + 1, Len(stdin[c]))) = Len(stdin[c]) - at[c]
      BY <3>1, CutInTwo
    <3>3. Len(SubSeq(stdin[c], at[c] + 1, Len(stdin[c]))) = 0
      BY EmptySeq DEF Finish, Rest, Suffix
    <3>4. at[c] = Len(stdin[c])
      BY <3>1, <3>2, <3>3
    <3> QED
      BY <3>1, <3>4, TravellingUnfolds DEF Unsent
  <2>2. output[c] = Travelling(stdin[c])
    BY <1>1, <2>1, ClientSequences, EmptyConcat DEF BetweenLines
  <2>3. Coming(c)' = << >>
    BY <1>1 DEF Finish, BetweenLines, Coming, Held, serverVars
  <2>4. AllEchoed(c)'
    BY <1>1, <1>3, <2>2, <2>3 DEF Finish, BetweenLines, AllEchoed, Types
  <2>5. client'[c] = "done"
    BY DEF Finish, Become, Types
  <2> QED
    BY <1>1, <2>4, <2>5 DEF Finish, Flow
<1> QED
  BY <1>4, <1>5, <1>6 DEF Flows

(* Of one line, a read leaves nothing in the buffer; and the line is whole    *)
(* only when all of it has been read.                                         *)
LEMMA ReadOfOneLine ==
    ASSUME NEW r \in Buffer, Len(r.line) < MAXLINE, NEW s \in Seq(Byte), NEW k \in ReadCounts(s),
           NEW all \in Seq(Byte), LineShape(all), IsPrefix(r.line \o s, all)
    PROVE  LET t == Refilled(r, Prefix(s, k))
           IN  /\ t.buf = << >> /\ t.line \in Seq(Byte)
               /\ t.line \o Suffix(s, k) = r.line \o s
               /\ Whole(t.line) => t.line = all /\ t.line # << >> /\ Suffix(s, k) = << >>
<1> DEFINE p == Prefix(s, k)
           rest == Suffix(s, k)
           t == Refilled(r, p)
           line == r.line
           bs == t.buf
           ls == t.line
<1>1. p \in Seq(Byte) /\ rest \in Seq(Byte) /\ p \o rest = s
  BY ReadCountsProperties
<1>2. t \in Buffer /\ ls \o bs = line \o p /\ (bs # << >> => Whole(ls))
  BY RefillMoves
<1>3. line \in Seq(Byte) /\ bs \in Seq(Byte) /\ ls \in Seq(Byte)
  BY <1>2 DEF Buffer
<1> HIDE DEF p, rest, line, t, bs, ls
<1>4. line \o s = ls \o (bs \o rest)
  <2>1. line \in Seq(Byte) /\ p \in Seq(Byte) /\ rest \in Seq(Byte)
    BY <1>1, <1>3
  <2>2. ls \in Seq(Byte) /\ bs \in Seq(Byte) /\ rest \in Seq(Byte)
    BY <1>1, <1>3
  <2>3. (line \o p) \o rest = line \o (p \o rest)
    BY <2>1, ConcatAssociative, SMTT(30)
  <2>4. (ls \o bs) \o rest = ls \o (bs \o rest)
    BY <2>2, ConcatAssociative, SMTT(30)
  <2> QED
    BY <1>1, <1>2, <2>3, <2>4
<1>5. bs \o rest \in Seq(Byte)
  BY <1>1, <1>3, ConcatProperties
<1>6. IsPrefix(line \o s, all)
  BY DEF line
<1>7. line \o s \in Seq(Byte)
  BY <1>3, ConcatProperties
<1>8. IsPrefix(ls, line \o s)
  BY <1>3, <1>4, <1>5, PrefixOfConcat
<1>9. IsPrefix(ls, all)
  BY <1>3, <1>6, <1>7, <1>8, PrefixOfPrefix
<1>10. Whole(ls) => ls = all /\ ls # << >>
  BY <1>3, <1>9, WholeIsAll
<1>11. ASSUME Whole(ls) PROVE bs = << >> /\ rest = << >>
  <2>1. Len(line \o s) <= Len(all)
    BY <1>6, <1>7, PrefixElements
  <2>2. Len(ls \o (bs \o rest)) = Len(ls) + Len(bs \o rest)
    BY <1>3, <1>5, ConcatProperties
  <2>3. Len(ls) \in Nat /\ Len(bs \o rest) \in Nat
    BY <1>3, <1>5, LenProperties
  <2>4. Len(bs \o rest) = 0
    BY <1>4, <1>10, <1>11, <2>1, <2>2, <2>3
  <2>5. bs \o rest = << >>
    BY <1>5, <2>4, EmptySeq
  <2> QED
    BY <1>1, <1>3, <2>5, EmptyConcat
<1>12. bs = << >>
  BY <1>2, <1>11
<1>13. ls \o rest = line \o s
  BY <1>1, <1>4, <1>12, EmptyConcat
<1>14. t.buf = << >> /\ t.line = ls /\ t = Refilled(r, Prefix(s, k))
  BY <1>12 DEF bs, ls, t, p
<1> QED
  BY <1>3, <1>10, <1>11, <1>13, <1>14 DEF rest, line

(* A client reads its echo.                                                   *)
LEMMA ReceiveFlows ==
    ASSUME Types, Flows, server # "exited", NEW c \in Clients, Receive(c)
    PROVE  Flows'
<1>0. Serving /\ \A d \in Clients : Flow(d)
  BY DEF Flows
<1>1. OneLine(c) /\ crio[c].buf = << >>
  BY <1>0 DEF Receive, Flow
<1>2. PICK k \in ReadCounts(toClient[c]) :
        LET r == Refilled(crio[c], Prefix(toClient[c], k))
        IN  /\ toClient' = [toClient EXCEPT ![c] = Suffix(@, k)]
            /\ crio' = [crio EXCEPT ![c] = IF Whole(r.line) THEN [r EXCEPT !.line = << >>] ELSE r]
            /\ IF Whole(r.line) THEN Fputs(c, r.line) ELSE UNCHANGED << output, client >>
  BY DEF Receive
<1> DEFINE r == Refilled(crio[c], Prefix(toClient[c], k))
           rest == Suffix(toClient[c], k)
           line == r.line
<1>3. /\ toClient' = [toClient EXCEPT ![c] = rest]
      /\ crio' = [crio EXCEPT ![c] = IF Whole(line) THEN [r EXCEPT !.line = << >>] ELSE r]
      /\ IF Whole(line) THEN Fputs(c, line) ELSE UNCHANGED << output, client >>
  BY <1>2
<1>4. /\ crio[c] \in Buffer /\ Len(crio[c].line) < MAXLINE /\ toClient[c] \in Seq(Byte)
      /\ buf[c] \in Seq(Byte)
  BY DEF Types, Streams
<1>5. LineShape(buf[c]) /\ IsPrefix(crio[c].line \o toClient[c], buf[c])
  BY <1>1 DEF OneLine, Back
<1>6. /\ r.buf = << >> /\ line \in Seq(Byte)
      /\ line \o rest = crio[c].line \o toClient[c]
      /\ Whole(line) => line = buf[c] /\ line # << >> /\ rest = << >>
  BY <1>4, <1>5, ReadOfOneLine
<1>7. r \in Buffer
  BY <1>4, RefillMoves
<1> HIDE DEF r, rest
<1>8. Serving'
  BY <1>0 DEF Receive, Serving, serverVars
<1>9. ASSUME NEW d \in Clients, d # c PROVE Flow(d)'
  <2>1. toClient'[d] = toClient[d] /\ crio'[d] = crio[d]
    BY <1>3, <1>9 DEF Types, Streams
  <2>2. output'[d] = output[d] /\ client'[d] = client[d]
    BY <1>3, <1>9 DEF Fputs, Become, Types, Streams
  <2>3. Held(d)' = Held(d) /\ Coming(d)' = Coming(d)
    BY DEF Receive, Held, Coming, serverVars
  <2>4. Bystander(d)
    BY <2>1, <2>2, <2>3 DEF Receive, Bystander
  <2> QED
    BY <1>0, <2>4, BystandersFlow
<1>10. Flow(c)'
  <2>1. toClient'[c] = rest
    BY <1>3 DEF Types, Streams
  <2>2. /\ stdin' = stdin /\ at' = at /\ buf' = buf /\ conn' = conn /\ echoed' = echoed /\ cut' = cut
        /\ Coming(c)' = Coming(c) /\ Unsent(c)' = Unsent(c)
    BY DEF Receive, Held, Coming, Unsent, serverVars
  <2>3. /\ output[c] \in Seq(Byte) /\ buf[c] \in Seq(Byte) /\ Unsent(c) \in Seq(Byte)
        /\ Coming(c) \in Seq(Byte)
    BY ClientSequences
  <2>4. Back(c) = line \o rest
    BY <1>6 DEF Back
  <2>5. CASE Whole(line)
    <3>1. crio'[c].buf = << >> /\ crio'[c].line = << >>
      BY <1>3, <1>6, <1>7, <2>5 DEF Types, Buffer
    <3>2. line = buf[c] /\ line # << >> /\ rest = << >>
      BY <1>6, <2>5
    <3>3. Text(line) = line
      <4>1. \A i \in 1 .. Len(line) : line[i] # Zero
        <5>1. DOMAIN line = 1 .. Len(line)
          BY <1>6, LenProperties
        <5> QED
          BY <1>5, <3>2, <5>1 DEF LineShape
      <4> QED
        BY <1>6, <4>1, TextProperties
    <3>4. client'[c] = "sending" /\ output'[c] = output[c] \o line
      <4>1. client' = [client EXCEPT ![c] = "sending"]
        BY <1>3, <2>5 DEF Fputs, Become
      <4>2. output' = [output EXCEPT ![c] = @ \o line]
        BY <1>3, <2>5, <3>3 DEF Fputs
      <4> HIDE DEF line
      <4> QED
        BY <4>1, <4>2 DEF Types, Streams
    <3>5. Back(c) = line /\ Back(c) # << >>
      BY <1>6, <2>4, <3>2, EmptyConcat
    <3>6. Coming(c) = << >>
      BY <1>1, <3>5 DEF OneLine
    <3>7. output'[c] = echoed'[c] /\ conn'[c] = "open"
      BY <1>1, <2>2, <3>4, <3>5 DEF OneLine
    <3>8. output'[c] \o Unsent(c)' = Travelling(stdin'[c])
      <4>1. output[c] \o (buf[c] \o Unsent(c)) = (output[c] \o buf[c]) \o Unsent(c)
        <5> DEFINE out == output[c]
                   sent == buf[c]
                   unsent == Unsent(c)
        <5>1. out \in Seq(Byte) /\ sent \in Seq(Byte) /\ unsent \in Seq(Byte)
          BY <2>3
        <5> HIDE DEF out, sent, unsent
        <5>2. (out \o sent) \o unsent = out \o (sent \o unsent)
          BY <5>1, ConcatAssociative
        <5> QED
          BY <5>2 DEF out, sent, unsent
      <4> QED
        BY <1>1, <2>2, <3>2, <3>4, <4>1 DEF OneLine
    <3>9. BetweenLines(c)'
      BY <2>1, <2>2, <3>1, <3>2, <3>6, <3>7, <3>8 DEF BetweenLines
    <3> QED
      BY <3>1, <3>4, <3>9 DEF Flow
  <2>6. CASE ~Whole(line)
    <3>1. crio'[c] = r /\ crio'[c].buf = << >> /\ crio'[c].line = line
      BY <1>3, <1>6, <2>6 DEF Types
    <3>2. Back(c)' = Back(c)
      BY <2>1, <2>4, <3>1 DEF Back
    <3>3. output' = output /\ client' = client
      BY <1>3, <2>6
    <3>4. OneLine(c)'
      BY <1>1, <2>2, <2>6, <3>1, <3>2, <3>3 DEF OneLine
    <3>5. client'[c] = "reading"
      BY <3>3 DEF Receive
    <3> QED
      BY <3>1, <3>4, <3>5 DEF Flow
  <2> QED
    BY <2>5, <2>6
<1> QED
  BY <1>8, <1>9, <1>10 DEF Flows

(* What there is of a line when its client is killed: what has been echoed,   *)
(* with what is still to be.                                                  *)
LEMMA LineOfConnected ==
    ASSUME Types, NEW c \in Clients, BetweenLines(c) \/ OneLine(c)
    PROVE  /\ IsPrefix(output[c], echoed[c])
           /\ IsPrefix(echoed[c] \o Coming(c), Travelling(stdin[c]))
           /\ LineShape(Coming(c))
           /\ toClient[c] # << >> => Coming(c) = << >>
<1> DEFINE out == output[c]
           coming == Coming(c)
           back == Back(c)
           unsent == Unsent(c)
           line == buf[c]
           all == Travelling(stdin[c])
           ech == echoed[c]
<1>1. /\ out \in Seq(Byte) /\ coming \in Seq(Byte) /\ back \in Seq(Byte) /\ unsent \in Seq(Byte)
      /\ line \in Seq(Byte) /\ all \in Seq(Byte) /\ ech \in Seq(Byte)
  BY ClientSequences
<1>2. CASE BetweenLines(c)
  <2>1. ech = out /\ coming = << >> /\ out \o unsent = all /\ toClient[c] = << >>
    BY <1>2 DEF BetweenLines
  <2>2. LineShape(<< >>)
    BY EmptyBuffer, EmptySeq DEF LineShape
  <2> HIDE DEF out, coming, unsent, all, ech
  <2>3. IsPrefix(out, all) /\ IsPrefix(out, out) /\ out \o << >> = out
    <3>1. IsPrefix(out, out \o unsent)
      BY <1>1, PrefixOfConcat
    <3> QED
      BY <1>1, <2>1, <3>1, TrivialPrefixes, EmptyConcat
  <2> QED
    BY <2>1, <2>2, <2>3 DEF out, coming, all, ech
<1>3. CASE OneLine(c)
  <2>1. /\ ech = out \o back /\ out \o (line \o unsent) = all
        /\ LineShape(line) /\ IsPrefix(coming, line) /\ IsPrefix(back, line)
        /\ coming = << >> \/ back = << >>
    BY <1>3 DEF OneLine
  <2>2. toClient[c] # << >> => back # << >>
    BY ClientSequences, EmptyConcat DEF Back
  <2> HIDE DEF out, coming, back, unsent, line, all, ech
  <2>3. LineShape(coming)
    BY <1>1, <2>1, BeginningOfLine
  <2>4. IsPrefix(out, ech)
    BY <1>1, <2>1, PrefixOfConcat
  <2>5. ASSUME NEW s \in Seq(Byte), IsPrefix(s, line) PROVE IsPrefix(out \o s, all)
    <3>1. IsPrefix(line, line \o unsent) /\ line \o unsent \in Seq(Byte)
      BY <1>1, PrefixOfConcat, ConcatProperties
    <3>2. IsPrefix(s, line \o unsent)
      BY <1>1, <2>5, <3>1, PrefixOfPrefix
    <3>3. IsPrefix(out \o s, out \o (line \o unsent))
      BY <1>1, <3>1, <3>2, PrefixBehind
    <3> QED
      BY <2>1, <3>3
  <2>6. IsPrefix(ech \o coming, all)
    <3>1. CASE coming = << >>
      <4>1. ech \o coming = out \o back
        BY <1>1, <2>1, <3>1, EmptyConcat
      <4> QED
        BY <1>1, <2>1, <2>5, <4>1
    <3>2. CASE back = << >>
      <4>1. ech \o coming = out \o coming
        BY <1>1, <2>1, <3>2, EmptyConcat
      <4> QED
        BY <1>1, <2>1, <2>5, <4>1
    <3> QED
      BY <2>1, <3>1, <3>2
  <2>7. toClient[c] # << >> => coming = << >>
    BY <2>1, <2>2
  <2> QED
    BY <2>3, <2>4, <2>6, <2>7 DEF out, coming, all, ech
<1> QED
  BY <1>2, <1>3

(* A client is killed.                                                        *)
LEMMA KilledFlows ==
    ASSUME Types, Flows, server # "exited", NEW c \in Clients, Killed(c)
    PROVE  Flows'
<1>0. Serving /\ \A d \in Clients : Flow(d)
  BY DEF Flows
<1>1. (BetweenLines(c) \/ OneLine(c)) /\ crio[c].buf = << >>
  BY <1>0 DEF Killed, Flow
<1>2. /\ IsPrefix(output[c], echoed[c])
      /\ IsPrefix(echoed[c] \o Coming(c), Travelling(stdin[c]))
      /\ LineShape(Coming(c))
      /\ toClient[c] # << >> => Coming(c) = << >>
  BY <1>1, LineOfConnected
<1>3. /\ conn'[c] = IF toClient[c] # << >> THEN "reset" ELSE "closed"
      /\ toClient'[c] = << >>
      /\ \A d \in Clients : d # c => conn'[d] = conn[d] /\ toClient'[d] = toClient[d]
  BY DEF Killed, Hangup, Types, Streams
<1>4. Serving'
  <2>1. ASSUME server = "writing" PROVE conn'[serving] # "reset"
    <3>1. serving \in Clients /\ Coming(serving) # << >> /\ conn[serving] # "reset"
      BY <1>0, <2>1, WriterHasALine DEF Serving
    <3> QED
      BY <1>2, <1>3, <3>1
  <2> QED
    BY <1>0, <2>1 DEF Killed, Serving, serverVars
<1>5. ASSUME NEW d \in Clients, d # c PROVE Flow(d)'
  <2>1. Bystander(d)
    BY <1>3, <1>5 DEF Killed, Become, Bystander, Coming, Held, serverVars, Types
  <2> QED
    BY <1>0, <2>1, BystandersFlow
<1>6. Flow(c)'
  <2>1. Coming(c)' = Coming(c)
    BY DEF Killed, Coming, Held, serverVars
  <2>2. BrokenOff(c)'
    BY <1>2, <1>3, <2>1 DEF Killed, BrokenOff
  <2>3. client'[c] = "killed"
    BY DEF Killed, Become, Types
  <2> QED
    BY <1>1, <2>2, <2>3 DEF Killed, Flow
<1> QED
  BY <1>4, <1>5, <1>6 DEF Flows

(* Listen, and Accept, which empties a buffer that is empty.                  *)
LEMMA AcceptFlows ==
    ASSUME Types, Flows, Listen \/ Accept
    PROVE  Flows'
<1>0. Serving /\ \A d \in Clients : Flow(d)
  BY DEF Flows, Listen, Accept
<1>1. CASE Listen
  <2>1. ASSUME NEW d \in Clients PROVE Flow(d)'
    <3>1. Bystander(d)
      BY <1>1 DEF Listen, Bystander, Coming, Held, clientVars, streamVars
    <3> QED
      BY <1>0, <3>1, BystandersFlow
  <2>2. Serving'
    BY <1>0, <1>1 DEF Listen, Serving, clientVars, streamVars
  <2> QED
    BY <2>1, <2>2 DEF Flows
<1>2. CASE Accept
  <2>1. rio'.buf = << >> /\ rio'.line = << >> /\ server' = "reading" /\ serving = None
    BY <1>0, <1>2, EmptyBuffer DEF Accept, Serving
  <2>2. ASSUME NEW d \in Clients PROVE Flow(d)'
    <3>1. Held(d) = << >> /\ Held(d)' = << >>
      BY <2>1, EchoAssumption DEF Held
    <3>2. Bystander(d)
      BY <1>2, <3>1 DEF Accept, Bystander, Coming, clientVars, streamVars
    <3> QED
      BY <1>0, <3>2, BystandersFlow
  <2>3. Serving'
    BY <2>1, EmptyBuffer DEF Serving
  <2> QED
    BY <2>2, <2>3 DEF Flows
<1> QED
  BY <1>1, <1>2

(* The server reads what a client has sent.                                   *)
LEMMA ServerReadFlows ==
    ASSUME Types, Flows, ServerRead, NEW c \in Clients, serving = c
    PROVE  Flows'
<1>0. Serving /\ \A d \in Clients : Flow(d)
  BY DEF Flows, ServerRead
<1>1. PICK k \in ReadCounts(toServer[c]) :
          /\ Reading(Refilled(rio, Prefix(toServer[c], k)))
          /\ toServer' = [toServer EXCEPT ![c] = Suffix(@, k)]
  BY DEF ServerRead
<1>2. serving' = serving
  BY DEF ServerRead
<1> DEFINE r == Refilled(rio, Prefix(toServer[c], k))
           rest == Suffix(toServer[c], k)
           line == r.line
<1>3. rio' = r /\ server' = IF Whole(line) THEN "writing" ELSE "reading"
  BY <1>1 DEF Reading
<1>4. rio \in Buffer /\ Len(rio.line) < MAXLINE /\ toServer[c] \in Seq(Byte)
  BY <1>0 DEF Types, Streams
<1>5. Coming(c) = rio.line \o toServer[c] /\ Coming(c) \in Seq(Byte)
  BY <1>0, ClientSequences DEF Coming, Held
<1>6. toServer[c] # << >>
  BY <1>4, ReadCountsProperties, EmptySeq
<1>7. Coming(c) # << >>
  BY <1>4, <1>5, <1>6, EmptyConcat DEF Buffer
<1>8. LineShape(Coming(c)) /\ conn[c] # "reset"
  <2>1. client[c] \in {"reading", "killed"}
    BY <1>0, <1>7 DEF Flow, Untouched, BetweenLines, AllEchoed, Types
  <2>2. CASE client[c] = "reading"
    <3>1. LineShape(buf[c]) /\ IsPrefix(Coming(c), buf[c]) /\ conn[c] = "open"
      BY <1>0, <2>2 DEF Flow, OneLine
    <3>2. buf[c] \in Seq(Byte)
      BY <1>0, ClientSequences
    <3> QED
      BY <1>5, <3>1, <3>2, BeginningOfLine
  <2>3. CASE client[c] = "killed"
    BY <1>0, <1>7, <2>3 DEF Flow, BrokenOff
  <2> QED
    BY <2>1, <2>2, <2>3
<1>9. IsPrefix(rio.line \o toServer[c], Coming(c))
  BY <1>5, TrivialPrefixes
<1>10. /\ r.buf = << >> /\ line \in Seq(Byte)
       /\ line \o rest = Coming(c)
       /\ Whole(line) => line # << >> /\ rest = << >>
  BY <1>4, <1>5, <1>8, <1>9, ReadOfOneLine
<1> HIDE DEF r, rest
<1>11. toServer'[c] = rest /\ \A d \in Clients : d # c => toServer'[d] = toServer[d]
  BY <1>0, <1>1 DEF Types, Streams, rest
<1>12. Coming(c)' = Coming(c)
  <2>1. Held(c)' = line
    BY <1>2, <1>3 DEF Held
  <2> QED
    BY <1>10, <1>11, <2>1 DEF Coming
<1>13. ASSUME NEW d \in Clients PROVE Flow(d)'
  <2>1. Coming(d)' = Coming(d)
    <3>1. ASSUME d # c PROVE Held(d)' = Held(d)
      BY <1>2, <3>1 DEF Held
    <3> QED
      BY <1>11, <1>12, <3>1 DEF Coming
  <2>2. Bystander(d)
    BY <2>1 DEF ServerRead, Bystander, clientVars
  <2> QED
    BY <1>0, <2>2, BystandersFlow
<1>14. Serving'
  <2>1. rio'.buf = << >> /\ rio'.line = line
    BY <1>3, <1>10
  <2>2. server' = "reading" => ~Whole(line)
    BY <1>3
  <2>3. server' = "writing" => line # << >> /\ toServer'[c] = << >>
    BY <1>3, <1>10, <1>11
  <2>4. server' \notin {"starting", "accepting"} /\ serving' = c /\ conn' = conn
    BY <1>2, <1>3 DEF ServerRead
  <2> HIDE DEF line
  <2> QED
    BY <1>8, <2>1, <2>2, <2>3, <2>4 DEF Serving
<1> QED
  BY <1>13, <1>14 DEF Flows

(* At the end of a connection echo returns, when it has echoed what there was *)
(* of a line.                                                                 *)
LEMMA ServerReadEndFlows ==
    ASSUME Types, Flows, ServerReadEnd
    PROVE  Flows'
<1>0. /\ Serving /\ \A d \in Clients : Flow(d)
      /\ serving \in Clients
  BY DEF Flows, ServerReadEnd, Types
<1>1. ASSUME NEW d \in Clients PROVE Flow(d)'
  <2>1. Held(d)' = Held(d)
    BY DEF ServerReadEnd, AtEnd, Held
  <2>2. Bystander(d)
    BY <2>1 DEF ServerReadEnd, Bystander, Coming, clientVars, streamVars
  <2> QED
    BY <1>0, <2>2, BystandersFlow
<1>2. CASE rio.line # << >>
  <2>1. Coming(serving) # << >>
    <3>1. rio.line \in Seq(Byte) /\ toServer[serving] \in Seq(Byte)
      BY <1>0 DEF Types, Streams, Buffer
    <3> QED
      BY <1>2, <3>1, EmptyConcat DEF Coming, Held
  <2>2. conn[serving] # "reset"
    <3>1. client[serving] = "killed"
      BY <1>0, <2>1
      DEF ServerReadEnd, Flow, Untouched, BetweenLines, OneLine, AllEchoed, Types
    <3> QED
      BY <1>0, <2>1, <3>1 DEF Flow, BrokenOff
  <2>3. Serving'
    BY <1>0, <1>2, <2>2 DEF ServerReadEnd, Serving, streamVars
  <2> QED
    BY <1>1, <2>3 DEF Flows
<1>3. CASE rio.line = << >>
  <2>1. Serving'
    BY <1>0, <1>3 DEF ServerReadEnd, AtEnd, Serving, streamVars
  <2> QED
    BY <1>1, <2>1 DEF Flows
<1> QED
  BY <1>2, <1>3

(* The server writes a line back, and has none any more.                      *)
LEMMA ServerWriteFlows ==
    ASSUME Types, Flows, ServerWrite, NEW c \in Clients, serving = c
    PROVE  Flows'
<1> DEFINE line == rio.line
<1>0. Serving /\ \A d \in Clients : Flow(d)
  BY DEF Flows, ServerWrite
<1>1. /\ c \in Clients /\ Coming(c) = line /\ line # << >> /\ line \in Seq(Byte)
      /\ toServer[c] = << >>
  BY <1>0, WriterHasALine DEF ServerWrite, Types, Buffer, Serving
<1>2. PICK k \in WriteCounts(Len(line)) :
        /\ echoed' = [echoed EXCEPT ![c] = @ \o Prefix(line, k)]
        /\ cut' = [cut EXCEPT ![c] = @ \/ k < Len(line)]
        /\ IF conn[c] = "open"
           THEN /\ toClient' = [toClient EXCEPT ![c] = @ \o Prefix(line, k)]
                /\ UNCHANGED conn
           ELSE /\ conn' \in {conn, [conn EXCEPT ![c] = "reset"]}
                /\ UNCHANGED toClient
  BY DEF ServerWrite
<1> DEFINE p == Prefix(line, k)
<1>3. p \in Seq(Byte) /\ IsPrefix(p, line) /\ (~(k < Len(line)) => p = line)
  BY <1>1, <1>2, WriteCountsProperties
<1>4. rio'.buf = << >> /\ rio'.line = << >> /\ server' = "reading"
  <2> DEFINE r == NextLine(rio)
  <2>1. rio \in Buffer /\ Len(rio.buf) <= RIO_BUFSIZE /\ rio.buf = << >>
    BY <1>0 DEF Types, Serving
  <2>2. r \in Buffer /\ r.line \o r.buf = << >>
    BY <2>1, NextLineMoves
  <2>3. r.line = << >> /\ r.buf = << >>
    BY <2>2, EmptyConcat DEF Buffer
  <2>4. rio' = r /\ server' = IF Whole(r.line) THEN "writing" ELSE "reading"
    BY DEF ServerWrite, Reading
  <2> HIDE DEF r
  <2> QED
    BY <2>3, <2>4, EmptyBuffer
<1>5. serving' = serving /\ toServer' = toServer
  BY DEF ServerWrite
<1>6. Serving'
  BY <1>4, EmptyBuffer DEF Serving
<1> HIDE DEF p, line
<1>7. echoed'[c] = echoed[c] \o p /\ cut'[c] = (cut[c] \/ k < Len(line))
  BY <1>1, <1>2 DEF Types, Streams, p
<1>8. ASSUME NEW d \in Clients, d # c PROVE Flow(d)'
  <2>1. echoed'[d] = echoed[d] /\ cut'[d] = cut[d]
    BY <1>2, <1>8 DEF Types, Streams
  <2>2. conn'[d] = conn[d] /\ toClient'[d] = toClient[d]
    BY <1>2, <1>8 DEF Types, Streams
  <2>3. Held(d)' = Held(d) /\ Coming(d)' = Coming(d)
    BY <1>5, <1>8 DEF Held, Coming
  <2>4. Bystander(d)
    BY <2>1, <2>2, <2>3 DEF ServerWrite, Bystander, clientVars
  <2> QED
    BY <1>0, <2>4, BystandersFlow
<1>9. Coming(c)' = << >>
  <2>1. Held(c)' = << >> /\ toServer'[c] = << >>
    BY <1>1, <1>4, <1>5 DEF Held
  <2> QED
    BY <2>1, EmptyConcat, EmptySeq DEF Coming
<1>10. /\ client' = client /\ at' = at /\ buf' = buf /\ crio' = crio /\ output' = output
       /\ stdin' = stdin /\ Unsent(c)' = Unsent(c)
  BY DEF ServerWrite, clientVars, Unsent
<1>11. /\ echoed[c] \in Seq(Byte) /\ output[c] \in Seq(Byte) /\ buf[c] \in Seq(Byte)
       /\ crio[c].line \in Seq(Byte) /\ toClient[c] \in Seq(Byte)
       /\ Back(c) \in Seq(Byte) /\ Travelling(stdin[c]) \in Seq(Byte)
  BY <1>1, ClientSequences
<1>12. client[c] \in {"reading", "killed"} /\ crio[c].buf = << >>
  BY <1>0, <1>1 DEF Flow, Untouched, BetweenLines, AllEchoed, Types
<1>13. ASSUME client[c] = "reading" PROVE Flow(c)'
  <2>1. OneLine(c)
    BY <1>0, <1>1, <1>13 DEF Flow
  <2>2. Back(c) = << >>
    BY <1>1, <2>1 DEF OneLine
  <2>3. crio[c].line = << >> /\ toClient[c] = << >>
    BY <1>11, <2>2, EmptyConcat DEF Back
  <2>4. conn[c] = "open" /\ conn' = conn /\ toClient' = [toClient EXCEPT ![c] = @ \o p]
    BY <1>2, <2>1 DEF OneLine, p
  <2>5. toClient'[c] = p
    <3>1. toClient'[c] = toClient[c] \o p
      BY <1>1, <2>4 DEF Types, Streams
    <3> QED
      BY <1>3, <1>11, <2>3, <3>1, EmptyConcat
  <2>6. Back(c)' = p
    BY <1>3, <1>10, <1>11, <2>3, <2>5, EmptyConcat DEF Back
  <2>7. IsPrefix(line, buf[c]) /\ LineShape(buf[c])
    BY <1>1, <2>1 DEF OneLine
  <2>8. IsPrefix(p, buf[c]) /\ IsPrefix(<< >>, buf[c])
    BY <1>1, <1>3, <1>11, <2>7, PrefixOfPrefix, TrivialPrefixes
  <2>9. ASSUME ~cut'[c] PROVE p = buf[c]
    <3>1. p = line /\ ~cut[c]
      BY <1>3, <1>7, <2>9
    <3>2. line = buf[c] \/ buf[c] = << >>
      BY <1>1, <2>1, <2>2, <3>1 DEF OneLine
    <3>3. buf[c] = << >> => line = << >>
      <4>1. ASSUME buf[c] = << >> PROVE Len(line) >= Len(buf[c])
        BY <1>1, <4>1, LenProperties, EmptySeq
      <4> QED
        BY <1>1, <1>11, <2>7, <4>1, LongPrefix
    <3> QED
      BY <1>1, <3>1, <3>2, <3>3
  <2>10. echoed'[c] = output'[c] \o p
    <3>1. echoed[c] = output[c]
      BY <1>11, <2>1, <2>2, EmptyConcat DEF OneLine
    <3> QED
      BY <1>7, <1>10, <3>1
  <2>11. OneLine(c)'
    <3>1. /\ output[c] \o (buf[c] \o Unsent(c)) = Travelling(stdin[c])
          /\ ~Whole(crio[c].line)
      BY <2>1 DEF OneLine
    <3> QED
      BY <1>9, <1>10, <2>4, <2>6, <2>7, <2>8, <2>9, <2>10, <3>1 DEF OneLine
  <2> QED
    BY <1>10, <1>12, <1>13, <2>11 DEF Flow
<1>14. ASSUME client[c] = "killed" PROVE Flow(c)'
  <2>1. BrokenOff(c)
    BY <1>0, <1>1, <1>14 DEF Flow
  <2>2. toClient[c] = << >> /\ conn[c] = "closed"
    BY <1>1, <2>1 DEF BrokenOff
  <2>3. toClient' = toClient /\ conn'[c] \in {"closed", "reset"}
    BY <1>1, <1>2, <2>2 DEF Types
  <2>4. IsPrefix(output'[c], echoed'[c])
    <3>1. IsPrefix(echoed[c], echoed[c] \o p) /\ echoed[c] \o p \in Seq(Byte)
      BY <1>3, <1>11, PrefixOfConcat, ConcatProperties
    <3>2. IsPrefix(output[c], echoed[c])
      BY <2>1 DEF BrokenOff
    <3>3. IsPrefix(output[c], echoed[c] \o p)
      BY <1>11, <3>1, <3>2, PrefixOfPrefix
    <3> QED
      BY <1>7, <1>10, <3>3
  <2>5. IsPrefix(echoed'[c] \o << >>, Travelling(stdin'[c]))
    <3>1. IsPrefix(echoed[c] \o p, echoed[c] \o line)
      BY <1>1, <1>3, <1>11, PrefixBehind
    <3>2. IsPrefix(echoed[c] \o line, Travelling(stdin[c]))
      BY <1>1, <2>1 DEF BrokenOff
    <3>3. echoed[c] \o p \in Seq(Byte) /\ echoed[c] \o line \in Seq(Byte)
      BY <1>1, <1>3, <1>11, ConcatProperties
    <3>4. IsPrefix(echoed[c] \o p, Travelling(stdin[c]))
      BY <1>11, <3>1, <3>2, <3>3, PrefixOfPrefix
    <3>5. (echoed[c] \o p) \o << >> = echoed[c] \o p
      BY <3>3, EmptyConcat
    <3> QED
      BY <1>7, <1>10, <3>4, <3>5
  <2>6. LineShape(<< >>)
    BY EmptyBuffer, EmptySeq DEF LineShape
  <2>7. BrokenOff(c)'
    BY <1>9, <2>2, <2>3, <2>4, <2>5, <2>6 DEF BrokenOff
  <2> QED
    BY <1>10, <1>12, <1>14, <2>7 DEF Flow
<1>15. Flow(c)'
  BY <1>12, <1>13, <1>14
<1> QED
  BY <1>6, <1>8, <1>15 DEF Flows

(* Every step keeps every client's line together, as long as there is a       *)
(* server.                                                                    *)
LEMMA StepsFlow ==
    ASSUME Types, Flows, [Next]_vars
    PROVE  Flows'
<1> SUFFICES ASSUME server' # "exited" PROVE Flows'
  BY DEF Flows
<1>1. CASE UNCHANGED vars
  <2>1. /\ server' = server /\ serving' = serving /\ rio' = rio /\ toServer' = toServer
        /\ conn' = conn
    BY <1>1 DEF vars, serverVars, streamVars
  <2>2. Serving /\ \A d \in Clients : Flow(d)
    BY <2>1 DEF Flows
  <2>3. ASSUME NEW d \in Clients PROVE Flow(d)'
    <3>1. Bystander(d)
      BY <1>1 DEF Bystander, Coming, Held, vars, serverVars, clientVars, streamVars
    <3> QED
      BY <2>2, <3>1, BystandersFlow
  <2>4. Serving'
    BY <2>1, <2>2 DEF Serving
  <2> QED
    BY <2>3, <2>4 DEF Flows
<1>2. CASE ServerStep
  <2>1. server # "exited"
    BY <1>2 DEF ServerStep, Listen, Accept, ServerRead, ServerReadEnd, ServerReadFails, ServerWrite
  <2>2. CASE ServerRead \/ ServerWrite
    <3>1. serving \in Clients
      BY <2>2 DEF ServerRead, ServerWrite, Types
    <3> QED
      BY <2>2, <3>1, ServerReadFlows, ServerWriteFlows
  <2>3. ~ServerReadFails
    BY DEF ServerReadFails, ServerDies
  <2> QED
    BY <1>2, <2>2, <2>3, AcceptFlows, ServerReadEndFlows DEF ServerStep
<1>3. ASSUME NEW c \in Clients, ClientStep(c) \/ Killed(c) PROVE Flows'
  <2>1. server # "exited"
    BY <1>3
    DEF ClientStep, Connect, SendLine, Finish, Receive, ReceiveEnd, Killed, serverVars
  <2>2. ~ReceiveEnd(c)
    BY <2>1 DEF ReceiveEnd
  <2> QED
    BY <1>3, <2>1, <2>2, ConnectFlows, SendLineFlows, FinishFlows, ReceiveFlows, KilledFlows
    DEF ClientStep
<1>4. ~AcceptFails
  BY DEF AcceptFails, ServerDies
<1> QED
  BY <1>1, <1>2, <1>3, <1>4 DEF Next, ClientStep

(* At the start no client is connected.                                       *)
LEMMA FlowsInit == Init => Flows
<1> SUFFICES ASSUME Init PROVE Flows
  OBVIOUS
<1>1. ASSUME NEW c \in Clients PROVE Flow(c)
  <2>1. Coming(c) = << >>
    BY EmptyBuffer, EmptyConcat, EmptySeq DEF Init, Coming, Held
  <2>2. crio[c].line = << >> /\ crio[c].buf = << >>
    BY EmptyBuffer DEF Init
  <2> QED
    BY <2>1, <2>2 DEF Init, Flow, Untouched
<1>2. Serving
  BY EmptyBuffer DEF Init, Serving
<1> QED
  BY <1>1, <1>2 DEF Flows

(* As long as the server lives every client has one line under way at most.   *)
THEOREM LinesFlow == Spec => []Flows
<1>1. Types /\ Flows /\ [Next]_vars => Flows'
  BY StepsFlow
<1> QED
  BY <1>1, FlowsInit, TypesHold, PTL DEF Spec

-----------------------------------------------------------------------------
(* What outlasts the server                                                   *)

(* One line leaves room, and echoes a part of what travels.                   *)
LEMMA FlowLeavesRoom ==
    ASSUME Types, Serving, NEW c \in Clients, Flow(c)
    PROVE  Room(c) /\ IsPrefix(echoed[c], Travelling(stdin[c]))
<1> DEFINE held == Held(c)
           sent == toServer[c]
           line == crio[c].line
           back == toClient[c]
           whole == buf[c]
           coming == Coming(c)
           backs == Back(c)
           ech == echoed[c]
           all == Travelling(stdin[c])
<1>1. /\ held \in Seq(Byte) /\ sent \in Seq(Byte) /\ line \in Seq(Byte) /\ back \in Seq(Byte)
      /\ whole \in Seq(Byte) /\ coming \in Seq(Byte) /\ backs \in Seq(Byte)
      /\ ech \in Seq(Byte) /\ all \in Seq(Byte)
  BY ClientSequences
<1>2. coming = held \o sent /\ backs = line \o back
  BY DEF Coming, Back
<1>3. rio.buf = << >> /\ MAXLINE \in Nat /\ MAXLINE > 1 /\ Len(<< >>) = 0
  BY RioAssumption, EmptySeq DEF Serving
<1>4. Len(sent) + Len(back) + Len(held) < MAXLINE => Room(c)
  <2>1. CASE serving = c
    <3>1. Len(held) = Len(rio.line) /\ Len(rio.buf) = 0
      BY <1>3, <2>1 DEF Held
    <3>2. Len(sent) \in Nat /\ Len(back) \in Nat /\ Len(held) \in Nat
      BY <1>1, LenProperties
    <3> DEFINE n == Len(sent)
               m == Len(back)
               l == Len(held)
    <3>3. Room(c) <=> n + m + (0 + l) < MAXLINE
      BY <2>1, <3>1 DEF Room
    <3>4. n \in Nat /\ m \in Nat /\ l \in Nat
      BY <3>2
    <3> HIDE DEF n, m, l
    <3>5. n + m + l < MAXLINE => Room(c)
      BY <1>3, <3>3, <3>4
    <3> QED
      BY <3>5 DEF n, m, l
  <2>2. CASE serving # c
    <3>1. Len(held) = 0
      BY <1>3, <2>2 DEF Held
    <3> HIDE DEF held
    <3> QED
      BY <2>2, <3>1 DEF Room
  <2> QED
    BY <2>1, <2>2
<1>5. coming = << >> /\ back = << >> => Len(sent) + Len(back) + Len(held) < MAXLINE
  <2> HIDE DEF held, sent, line, back, coming, backs
  <2>1. coming = << >> => Len(held) = 0 /\ Len(sent) = 0
    BY <1>1, <1>2, <1>3, EmptyConcat
  <2> QED
    BY <1>3, <2>1
<1>6. CASE client[c] \in {"idle", "failed"}
  <2>1. Untouched(c)
    BY <1>6 DEF Flow
  <2> QED
    BY <1>1, <1>4, <1>5, <2>1, TrivialPrefixes DEF Untouched
<1>7. CASE client[c] \in {"sending", "reading"}
  <2>1. BetweenLines(c) \/ OneLine(c)
    BY <1>7 DEF Flow
  <2>2. IsPrefix(ech \o coming, all)
    BY <2>1, LineOfConnected
  <2>3. IsPrefix(ech, all)
    <3> HIDE DEF ech, coming, all
    <3>1. IsPrefix(ech, ech \o coming) /\ ech \o coming \in Seq(Byte)
      BY <1>1, PrefixOfConcat, ConcatProperties
    <3> QED
      BY <1>1, <2>2, <3>1, PrefixOfPrefix
  <2>4. CASE BetweenLines(c)
    BY <1>4, <1>5, <2>3, <2>4 DEF BetweenLines
  <2>5. CASE OneLine(c)
    <3>1. /\ LineShape(whole) /\ IsPrefix(coming, whole) /\ IsPrefix(backs, whole)
          /\ coming = << >> \/ backs = << >>
      BY <2>5 DEF OneLine
    <3> HIDE DEF held, sent, line, back, whole, coming, backs
    <3>2. Len(coming) <= Len(whole) /\ Len(backs) <= Len(whole) /\ Len(whole) < MAXLINE
      BY <1>1, <3>1, PrefixElements DEF LineShape
    <3>3. Len(coming) = Len(held) + Len(sent) /\ Len(backs) = Len(line) + Len(back)
      BY <1>1, <1>2, ConcatProperties
    <3>4. /\ Len(held) \in Nat /\ Len(sent) \in Nat /\ Len(line) \in Nat /\ Len(back) \in Nat
          /\ Len(whole) \in Nat
      BY <1>1, LenProperties
    <3>5. Len(coming) = 0 \/ Len(backs) = 0
      BY <1>3, <3>1
    <3>6. Len(sent) + Len(back) + Len(held) < MAXLINE
      BY <1>3, <3>2, <3>3, <3>4, <3>5
    <3> QED
      BY <1>4, <2>3, <3>6 DEF held, sent, back
  <2> QED
    BY <2>1, <2>4, <2>5
<1>8. CASE client[c] = "done"
  <2>1. AllEchoed(c)
    BY <1>8 DEF Flow
  <2> QED
    BY <1>1, <1>4, <1>5, <2>1, TrivialPrefixes DEF AllEchoed
<1>9. CASE client[c] = "killed"
  <2>1. BrokenOff(c)
    BY <1>9 DEF Flow
  <2>2. IsPrefix(ech \o coming, all) /\ LineShape(coming) /\ back = << >>
    BY <2>1 DEF BrokenOff
  <2>3. IsPrefix(ech, all)
    <3> HIDE DEF ech, coming, all
    <3>1. IsPrefix(ech, ech \o coming) /\ ech \o coming \in Seq(Byte)
      BY <1>1, PrefixOfConcat, ConcatProperties
    <3> QED
      BY <1>1, <2>2, <3>1, PrefixOfPrefix
  <2> HIDE DEF held, sent, back, coming
  <2>4. Len(coming) = Len(held) + Len(sent) /\ Len(coming) < MAXLINE
    BY <1>1, <1>2, <2>2, ConcatProperties DEF LineShape
  <2>5. Len(held) \in Nat /\ Len(sent) \in Nat
    BY <1>1, LenProperties
  <2>6. Len(sent) + Len(back) + Len(held) < MAXLINE
    BY <1>3, <2>2, <2>4, <2>5
  <2> QED
    BY <1>4, <2>3, <2>6 DEF held, sent, back
<1> QED
  BY <1>6, <1>7, <1>8, <1>9 DEF Types

(* So while it lives, the server has not gone beyond.                         *)
LEMMA FlowsOutcome == Types /\ Flows => (server # "exited" => Outcome)
<1> SUFFICES ASSUME Types, Flows, server # "exited" PROVE Outcome
  OBVIOUS
<1>1. Serving /\ \A c \in Clients : Flow(c)
  BY DEF Flows
<1> QED
  BY <1>1, FlowLeavesRoom DEF Outcome

(* Afterwards nothing is added to a connection, and nobody is served.         *)
LEMMA ExitedKeepsOutcome ==
    ASSUME Types, Outcome, server = "exited", [Next]_vars
    PROVE  Outcome'
<1>1. server' = server /\ serving' = serving /\ rio' = rio /\ echoed' = echoed /\ stdin' = stdin
  <2>1. ~ServerStep /\ ~AcceptFails
    BY DEF AcceptFails, ServerStep, Listen, Accept, ServerRead, ServerReadEnd, ServerReadFails, ServerWrite
  <2>2. ASSUME NEW c \in Clients, ClientStep(c) \/ Killed(c)
        PROVE  UNCHANGED << server, serving, rio, echoed, stdin >>
    BY <2>2
    DEF ClientStep, Connect, SendLine, Finish, Receive, ReceiveEnd, Killed, serverVars, streamVars
  <2>3. UNCHANGED vars => UNCHANGED << server, serving, rio, echoed, stdin >>
    BY DEF vars, serverVars
  <2> QED
    BY <2>1, <2>2, <2>3 DEF Next, ClientStep
<1>2. toServer' = toServer
  <2>1. ASSUME NEW c \in Clients, ClientStep(c) \/ Killed(c) PROVE toServer' = toServer
    BY <2>1
    DEF ClientStep, Connect, SendLine, Finish, Receive, ReceiveEnd, Killed, serverVars, streamVars
  <2>2. ~ServerStep /\ ~AcceptFails
    BY DEF AcceptFails, ServerStep, Listen, Accept, ServerRead, ServerReadEnd, ServerReadFails, ServerWrite
  <2> QED
    BY <2>1, <2>2 DEF Next, ClientStep, vars, streamVars
<1>3. ASSUME NEW d \in Clients PROVE Len(toClient'[d]) <= Len(toClient[d])
  <2>0. toClient[d] \in Seq(Byte) /\ Len(toClient[d]) \in Nat /\ toClient \in Streams
    BY LenProperties DEF Types, Streams
  <2>1. ASSUME toClient' = toClient PROVE Len(toClient'[d]) <= Len(toClient[d])
    BY <2>0, <2>1
  <2>2. ASSUME NEW c \in Clients, Finish(c) \/ Killed(c) PROVE Len(toClient'[d]) <= Len(toClient[d])
    <3>1. toClient' = [toClient EXCEPT ![c] = << >>]
      BY <2>2 DEF Finish, Killed, Hangup
    <3>2. toClient'[d] = << >> \/ toClient'[d] = toClient[d]
      BY <2>0, <3>1 DEF Streams
    <3> QED
      BY <2>0, <3>2, EmptySeq
  <2>3. ASSUME NEW c \in Clients, Receive(c) PROVE Len(toClient'[d]) <= Len(toClient[d])
    <3>1. PICK k \in ReadCounts(toClient[c]) : toClient' = [toClient EXCEPT ![c] = Suffix(@, k)]
      BY <2>3 DEF Receive
    <3>2. CASE d = c
      <4>1. toClient'[d] = Suffix(toClient[d], k)
        BY <2>0, <3>1, <3>2 DEF Streams
      <4>2. Len(Suffix(toClient[d], k)) = Len(toClient[d]) - k /\ k \in 1 .. Len(toClient[d])
        BY <2>0, <3>2, ReadCountsProperties
      <4> HIDE DEF Suffix
      <4> QED
        BY <2>0, <4>1, <4>2
    <3>3. CASE d # c
      <4>1. toClient'[d] = toClient[d]
        BY <2>0, <3>1, <3>3 DEF Streams
      <4> QED
        BY <2>0, <4>1
    <3> QED
      BY <3>2, <3>3
  <2>4. ASSUME NEW c \in Clients, Connect(c) \/ SendLine(c) \/ ReceiveEnd(c)
        PROVE  toClient' = toClient
    BY <2>4 DEF Connect, SendLine, ReceiveEnd, streamVars
  <2>5. ~ServerStep /\ ~AcceptFails
    BY DEF AcceptFails, ServerStep, Listen, Accept, ServerRead, ServerReadEnd, ServerReadFails, ServerWrite
  <2> QED
    BY <2>1, <2>2, <2>3, <2>4, <2>5 DEF Next, vars, streamVars
<1>4. ASSUME NEW d \in Clients PROVE Room(d)'
  <2> DEFINE sent == Len(toServer[d])
             back == Len(toClient[d])
             back2 == Len(toClient'[d])
             held == IF serving = d THEN Len(rio.buf) + Len(rio.line) ELSE 0
  <2>1. sent \in Nat /\ back \in Nat /\ held \in Nat /\ MAXLINE \in Nat
    BY LenProperties, RioAssumption DEF Types, Streams, Buffer
  <2>2. sent + back + held < MAXLINE
    BY DEF Outcome, Room
  <2>3. back2 <= back /\ back2 \in Nat
    <3>1. toClient'[d] \in Seq(Byte)
      <4>1. Types'
        BY ClientsKeepTypes, ServerKeepsTypes, <1>3
        DEF Next, ClientStep, Types, vars, serverVars, clientVars, streamVars
      <4> QED
        BY <4>1 DEF Types, Streams
    <3> QED
      BY <1>3, <3>1, LenProperties
  <2>4. Room(d)' <=> sent + back2 + held < MAXLINE
    BY <1>1, <1>2 DEF Room
  <2> HIDE DEF sent, back, back2, held
  <2> QED
    BY <2>1, <2>2, <2>3, <2>4
<1>5. serving # None => client'[serving] = client[serving]
  <2>1. serving # None => serving \in Clients /\ client[serving] = "killed"
    BY DEF Types, Outcome
  <2>2. ASSUME NEW c \in Clients, ClientStep(c) \/ Killed(c), serving # None
        PROVE  client'[serving] = client[serving]
    <3>1. client[c] # "killed"
      BY <2>2 DEF ClientStep, Connect, SendLine, Finish, Receive, ReceiveEnd, Killed
    <3>2. ASSUME NEW d \in Clients, d # c PROVE client'[d] = client[d]
      BY <2>2, <3>2 DEF ClientStep, Connect, SendLine, Await, Finish, Receive, ReceiveEnd, Killed,
                        Fputs, Become, Types
    <3> QED
      BY <2>1, <2>2, <3>1, <3>2
  <2>3. ~ServerStep /\ ~AcceptFails
    BY DEF AcceptFails, ServerStep, Listen, Accept, ServerRead, ServerReadEnd, ServerReadFails, ServerWrite
  <2> QED
    BY <2>2, <2>3 DEF Next, ClientStep, vars, clientVars
<1> QED
  BY <1>1, <1>4, <1>5 DEF Outcome

(* It ends when nobody is connected yet, or over a client that was killed.    *)
LEMMA ExitKeepsOutcome ==
    ASSUME Types, Flows, server # "exited", [Next]_vars, server' = "exited"
    PROVE  Outcome'
<1>0. Serving /\ (\A c \in Clients : Flow(c)) /\ Outcome
  BY FlowsOutcome DEF Flows
<1>1. Listen \/ AcceptFails \/ ServerReadFails
  BY DEF Next, ServerStep, Accept, ServerRead, ServerReadEnd, AtEnd, ServerWrite, Reading, Connect,
         SendLine, Finish, Receive, ReceiveEnd, Killed, vars, serverVars
<1>2. /\ serving' = serving /\ rio' = rio /\ echoed' = echoed /\ stdin' = stdin
      /\ toServer' = toServer /\ toClient' = toClient /\ client' = client
  BY <1>1 DEF Listen, AcceptFails, ServerReadFails, ServerDies, clientVars, streamVars
<1>3. \A c \in Clients : Room(c)' /\ IsPrefix(echoed'[c], Travelling(stdin'[c]))
  BY <1>0, <1>2 DEF Outcome, Room
<1>4. serving # None => client[serving] = "killed"
  <2>1. CASE Listen
    BY <1>0, <2>1 DEF Listen, Serving
  <2>3. CASE AcceptFails
    BY <1>0, <2>3 DEF AcceptFails, Serving
  <2>2. CASE ServerReadFails
    <3>1. serving \in Clients /\ conn[serving] = "reset"
      BY <2>2 DEF ServerReadFails, Types
    <3> QED
      BY <1>0, <3>1 DEF Flow, Untouched, BetweenLines, OneLine, AllEchoed, Types
  <2> QED
    BY <1>1, <2>1, <2>2, <2>3
<1> QED
  BY <1>2, <1>3, <1>4 DEF Outcome

(* What holds of the connections holds after the server's end as well.        *)
THEOREM OutcomeHolds == Spec => []Outcome
<1>1. Init => Outcome
  <2>1. Init => Types /\ Flows /\ server # "exited"
    BY TypesInit, FlowsInit DEF Init
  <2> QED
    BY <2>1, FlowsOutcome
<1>2. (Types /\ Flows => (server # "exited" => Outcome))'
  BY FlowsOutcome, PTL
<1>3. Types /\ Types' /\ Flows /\ Flows' /\ Outcome /\ [Next]_vars => Outcome'
  BY <1>2, ExitedKeepsOutcome, ExitKeepsOutcome
<1> QED
  BY <1>1, <1>3, TypesHold, LinesFlow, PTL DEF Spec

-----------------------------------------------------------------------------
(* The properties                                                             *)

(* What a client prints is what the server wrote to it, and that is its input *)
(* byte for byte and in order, all of it when the client ends on its own;     *)
(* however rio_read and rio_writen are served by the kernel.                  *)
THEOREM EchoIsFaithful == Spec => []EchoFaithful
<1>1. Types /\ Flows /\ Outcome => EchoFaithful
  <2> SUFFICES ASSUME Types, Flows, Outcome, NEW c \in Clients
               PROVE  /\ server # "exited" => IsPrefix(output[c], echoed[c])
                      /\ IsPrefix(echoed[c], Travelling(stdin[c]))
                      /\ client[c] = "done" /\ server # "exited" => output[c] = Travelling(stdin[c])
    BY DEF EchoFaithful
  <2>1. ASSUME server # "exited" PROVE IsPrefix(output[c], echoed[c])
    <3>1. Flow(c)
      BY <2>1 DEF Flows
    <3>2. output[c] \in Seq(Byte)
      BY ClientSequences
    <3>3. CASE client[c] \in {"idle", "failed", "done"}
      BY <3>1, <3>2, <3>3, TrivialPrefixes DEF Flow, Untouched, AllEchoed
    <3>4. CASE client[c] \in {"sending", "reading"}
      BY <3>1, <3>4, LineOfConnected DEF Flow
    <3>5. CASE client[c] = "killed"
      BY <3>1, <3>5 DEF Flow, BrokenOff
    <3> QED
      BY <3>3, <3>4, <3>5 DEF Types
  <2>2. client[c] = "done" /\ server # "exited" => output[c] = Travelling(stdin[c])
    BY DEF Flows, Flow, AllEchoed
  <2> QED
    BY <2>1, <2>2 DEF Outcome
<1> QED
  BY <1>1, TypesHold, LinesFlow, OutcomeHolds, PTL

(* Client and server wait for each other only when the line they are at is    *)
(* not whole: echo reads on until a line ends (echoserveri.c), the client     *)
(* until its echo does.                                                       *)
THEOREM StuckOnlyWhenCutAlways == Spec => []StuckOnlyWhenCut
<1>1. Types /\ Flows => StuckOnlyWhenCut
  <2> SUFFICES ASSUME Types, Flows, NEW c \in Clients,
                      client[c] = "reading", toClient[c] = << >>,
                      serving = c, server = "reading", toServer[c] = << >>,
                      ~cut[c]
               PROVE  ~Whole(buf[c])
    BY DEF StuckOnlyWhenCut
  <2>1. OneLine(c) /\ ~Whole(rio.line)
    BY DEF Flows, Flow, Serving
  <2>2. Coming(c) = rio.line /\ Back(c) = crio[c].line
    BY ClientSequences, EmptyConcat DEF Coming, Back, Held
  <2> QED
    BY <2>1, <2>2 DEF OneLine
<1> QED
  BY <1>1, TypesHold, LinesFlow, PTL

(* No buffer of rio, of echo or of a client overflows, and of a client there  *)
(* is never more under way than one line.                                     *)
THEOREM OneLineUnderWayAlways == Spec => []OneLineUnderWay
<1>1. Types => TypeOK
  <2> SUFFICES ASSUME Types PROVE TypeOK
    OBVIOUS
  <2>1. ASSUME NEW c \in Clients PROVE at[c] \in 0 .. Len(stdin[c])
    <3>1. Len(stdin[c]) \in Nat /\ at[c] \in Nat /\ at[c] <= Len(stdin[c])
      BY LenProperties DEF Types, Streams
    <3> QED
      BY <3>1
  <2> QED
    BY <2>1 DEF Types, TypeOK
<1>2. Types /\ Outcome => OneLineUnderWay
  BY <1>1 DEF Outcome, Room, OneLineUnderWay
<1> QED
  BY <1>2, TypesHold, OutcomeHolds, PTL

(* The server ends only over a client that was killed, and a write of its     *)
(* never meets a connection that is reset.                                    *)
THEOREM ServerOutlivesAlways == Spec => []ServerOutlives
<1>1. Flows /\ Outcome => ServerOutlives
  BY DEF Flows, Serving, Outcome, ServerOutlives
<1> QED
  BY <1>1, LinesFlow, OutcomeHolds, PTL

=============================================================================
