------------------------------ MODULE FdUtils ------------------------------
(* src/util/fdutils.c (and its copy in admssh/new) and src/util/socket.c:    *)
(* lines out of streams that arrive in chunks.  chunks[fd] is the sequence   *)
(* of what the reads of fd will return, each a sequence of characters; after *)
(* them read fails.  An empty one is a pause longer than a caller waits; who *)
(* does not wait sits in read until it is over.  There is one buffer for all *)
(* of them.                                                                  *)
EXTENDS Naturals, Sequences, SequencesExt

CONSTANT BufLen     \* the size of the caller's buffer

ASSUME BufAssumption == BufLen \in Nat \ {0}

EndOfLine == "nl"

Source(chunks) == [buf |-> <<>>, chunks |-> chunks]

(* _refresh: sptr to eptr are the next chunk of fd.                          *)
More(src, fd) == src.chunks[fd] # <<>>
Refresh(src, fd) == [buf |-> Head(src.chunks[fd]), chunks |-> [src.chunks EXCEPT ![fd] = Tail(@)]]
Next1(src) == [src EXCEPT !.buf = Tail(@)]

(* More passes than a loop needs that takes a character or a chunk in each.  *)
Passes(src, fd) == Len(src.buf) + Len(FlattenSeq(src.chunks[fd])) + Len(src.chunks[fd]) + 2

-----------------------------------------------------------------------------
(* fd_gets: a line with its newline, or BufLen characters; a last line       *)
(* without newline is lost.                                                  *)

(* The cells of the caller's array that are written: the line, and a zero    *)
(* behind it.                                                                *)
Cells(line) == 0..Len(line)

Full(line) == line # <<>> /\ (line[Len(line)] = EndOfLine \/ Len(line) = BufLen)

(* Seeded fault: each chunk begins a line.                                   *)
GetsPassAfresh(g, fd) ==
  IF Full(g.line) THEN g
  ELSE IF g.src.buf # <<>> THEN [line |-> Append(g.line, Head(g.src.buf)), src |-> Next1(g.src)]
  ELSE IF More(g.src, fd) THEN [line |-> <<>>, src |-> Refresh(g.src, fd)]
  ELSE [g EXCEPT !.line = <<>>]

GetsPass(g, fd) ==
  IF Full(g.line) THEN g
  ELSE IF g.src.buf # <<>> THEN [line |-> Append(g.line, Head(g.src.buf)), src |-> Next1(g.src)]
  ELSE IF More(g.src, fd) THEN [g EXCEPT !.src = Refresh(@, fd)]
  ELSE [g EXCEPT !.line = <<>>]

Gets(src, fd) ==
  LET pass[n \in 0..Passes(src, fd)] ==
        IF n = 0 THEN [line |-> <<>>, src |-> src] ELSE GetsPass(pass[n - 1], fd)
  IN  pass[Passes(src, fd)]

FdGets(src, fd) == Gets(src, fd)
AdmsshFdGets(src, fd) == Gets(src, fd)

(* socket_gets then trims the line; it returns the length before that.       *)
SocketGets(src, fd) == Gets(src, fd)

-----------------------------------------------------------------------------
(* Writing: takes is what the calls of send will return, a number of bytes,  *)
(* 0 with errno EAGAIN ("again") or without, or "error".                     *)

Lesser(a, b) == IF a < b THEN a ELSE b

(* socket_write: until all is sent, an error, or a send that takes nothing.  *)
Send(w, take, len) ==
  IF w.total = len \/ w.result # "more" THEN w
  ELSE CASE take.kind = "error" -> [w EXCEPT !.result = "error"]
         [] take.kind = "again" -> w
         [] take.kind = "took" /\ take.n = 0 -> [w EXCEPT !.result = "short"]
         [] OTHER -> [w EXCEPT !.total = Lesser(len, @ + take.n)]
SocketWrite(takes, len) ==
  FoldLeft(LAMBDA w, take : Send(w, take, len), [total |-> 0, result |-> "more"], takes)

(* socket_printf asks for every byte; fd_printf writes once.                 *)
SocketPrintf(takes, len) == IF SocketWrite(takes, len).total = len THEN 0 ELSE 1
FdPrintf(takes, len) == IF takes[1].kind = "took" /\ takes[1].n >= len THEN 0 ELSE 1
AdmsshFdPrintf(takes, len) == FdPrintf(takes, len)

(* socket_recv calls recv again after 0 bytes while errno, which recv does   *)
(* not set then, still says EAGAIN.                                          *)
SocketRecv(gets) ==
  LET stays == {k \in DOMAIN gets : gets[k].kind # "again"}
  IN  IF stays = {} THEN [kind |-> "waits", n |-> 0]
      ELSE gets[CHOOSE k \in stays : \A m \in stays : k <= m]

(* getdnshostent asks up to four times while the name server says            *)
(* TRY_AGAIN; name2addr takes the first address.                             *)
GetDnsHostEnt(answers) ==
  LET heard == SelectSeq(SubSeq(answers, 1, Lesser(4, Len(answers))),
                         LAMBDA answer : answer # "try_again")
  IN  IF heard # <<>> /\ Head(heard) = "found" THEN "found" ELSE "none"
Name2Addr(answers) == IF GetDnsHostEnt(answers) = "found" THEN 0 ELSE 1

-----------------------------------------------------------------------------
(* fd_telgets: the same behind telnet commands, which are answered.          *)

Supported == {"echo"}
Answer(cmd, opt) ==
  CASE cmd = "will" -> <<IF opt \in Supported THEN "do" ELSE "dont", opt>>
    [] cmd = "do" -> <<IF opt \in Supported THEN "will" ELSE "wont", opt>>
    [] cmd = "wont" -> <<"dont", opt>>
    [] cmd = "dont" -> <<"wont", opt>>
    [] OTHER -> <<>>

NewLine == [line |-> <<>>, state |-> "iac", cmd |-> "none", replies |-> <<>>,
            done |-> FALSE, late |-> FALSE]

(* One character.                                                            *)
Telnet(c, ch) ==
  IF c.state = "cmd" THEN [c EXCEPT !.cmd = ch, !.state = "opt"]
  ELSE IF c.state = "opt"
       THEN [c EXCEPT !.state = "iac",
                      !.replies = IF Answer(c.cmd, ch) = <<>> THEN @ ELSE Append(@, Answer(c.cmd, ch))]
  ELSE CASE ch = "iac" -> [c EXCEPT !.state = "cmd"]
         [] ch = "nul" -> [c EXCEPT !.done = TRUE]
         [] ch = "cr" -> c
         [] OTHER -> [c EXCEPT !.line = Append(@, ch), !.done = Full(Append(c.line, ch))]

(* With wait = 0 what there is of a line is returned at the end of a chunk,  *)
(* in whatever state; so it is otherwise in a pause.  r is what the function *)
(* returns.                                                                  *)
TelGetsPass(g, fd, wait) ==
  IF g.c.done THEN g
  ELSE IF g.src.buf # <<>> THEN [c |-> Telnet(g.c, Head(g.src.buf)), src |-> Next1(g.src)]
  ELSE IF wait = 0 /\ g.c.line # <<>> THEN [g EXCEPT !.c = [@ EXCEPT !.done = TRUE]]
  ELSE IF ~More(g.src, fd) THEN g
  ELSE IF wait # 0 /\ Head(g.src.chunks[fd]) = <<>>
       THEN [c |-> [g.c EXCEPT !.done = TRUE, !.late = TRUE], src |-> Refresh(g.src, fd)]
  ELSE [g EXCEPT !.src = Refresh(@, fd)]

TelGets(src, fd, wait) ==
  LET pass[n \in 0..Passes(src, fd)] ==
        IF n = 0 THEN [c |-> NewLine, src |-> src] ELSE TelGetsPass(pass[n - 1], fd, wait)
      g == pass[Passes(src, fd)]
  IN  [line |-> g.c.line, replies |-> g.c.replies, src |-> g.src,
       r |-> IF (g.c.done /\ ~g.c.late) \/ g.c.line # <<>> THEN 1 ELSE 0]

FdTelgets(src, fd, wait) == TelGets(src, fd, wait)
AdmsshFdTelgets(src, fd, wait) == TelGets(src, fd, wait)

-----------------------------------------------------------------------------
(* All the lines of a stream, and all the replies: what a caller has that    *)
(* calls until there is nothing.                                             *)

Call(a, fd) ==
  LET got == FdGets(a.src, fd)
  IN  IF a.ended THEN a
      ELSE IF got.line = <<>> THEN [a EXCEPT !.ended = TRUE]
      ELSE [a EXCEPT !.lines = Append(@, got.line), !.src = got.src]
AllLines(src, fd) ==
  LET pass[n \in 0..Passes(src, fd)] ==
        IF n = 0 THEN [lines |-> <<>>, src |-> src, ended |-> FALSE] ELSE Call(pass[n - 1], fd)
  IN  pass[Passes(src, fd)].lines

TelCall(a, fd, wait) ==
  LET got == FdTelgets(a.src, fd, wait)
  IN  IF a.ended THEN a
      ELSE [lines |-> IF got.r = 0 THEN a.lines ELSE Append(a.lines, got.line),
            replies |-> a.replies \o got.replies, src |-> got.src, ended |-> got.r = 0]
AllTelnet(src, fd, wait) ==
  LET pass[n \in 0..Passes(src, fd)] ==
        IF n = 0 THEN [lines |-> <<>>, replies |-> <<>>, src |-> src, ended |-> FALSE]
        ELSE TelCall(pass[n - 1], fd, wait)
      a == pass[Passes(src, fd)]
  IN  [lines |-> a.lines, replies |-> a.replies]

(* Commands that the end of a chunk tears while a line is under way; their   *)
(* rest is taken for text (wait = 0).                                        *)
TearsCommand(chunks) ==
  \E k \in 1..Len(chunks) - 1 :
    LET c == FoldLeft(Telnet, NewLine, FlattenSeq(SubSeq(chunks, 1, k)))
    IN  c.state # "iac"

(* However the stream is cut into chunks, fd_gets returns the same lines,    *)
(* which are the stream up to its last newline or full buffer, and writes    *)
(* one cell more than the caller says it has, never two.                     *)
LinesSurviveChunks(chunks) ==
  LET flat == FlattenSeq(chunks)
      src == Source([fd \in 1..2 |-> chunks])
      lines == AllLines(src, 1)
      text == FlattenSeq(lines)
  IN  /\ lines = AllLines(Source(<<<<flat>>, <<>>>>), 1)
      /\ text = SubSeq(flat, 1, Len(text))
      /\ \A i \in Len(text) + 1..Len(flat) : flat[i] # EndOfLine
      /\ \A k \in DOMAIN lines : Full(lines[k]) /\ Cells(lines[k]) \subseteq 0..BufLen

(* What the calls take.                                                      *)
Sent(takes) == FoldLeft(LAMBDA n, take : n + take.n, 0, takes)

(* socket_printf returns 0 exactly if the bytes that were sent, in however   *)
(* many pieces, are all of the line; fd_printf never says so of a part.      *)
WritesAreReported(takes, len) ==
  LET stops == {k \in DOMAIN takes : takes[k].kind # "again" /\ takes[k].n = 0}
  IN  /\ SocketPrintf(takes, len) = 0 <=>
           Sent(takes) >= len /\ \A k \in stops : Sent(SubSeq(takes, 1, k - 1)) >= len
      /\ takes # <<>> /\ FdPrintf(takes, len) = 0 => SocketPrintf(takes, len) = 0

(* fd_telgets waits, or returns pieces (wait = 0, as syscmd calls it).  The  *)
(* lines do not depend on the chunks if no pause outlasts the wait; in       *)
(* pieces the text and the replies do not, unless a command is torn.  It     *)
(* writes one cell more than the caller says it has, never two.              *)
TelnetSurvivesChunks(chunks) ==
  LET one == AllTelnet([buf |-> FlattenSeq(chunks), chunks |-> <<<<>>>>], 1, 1)
      waiting == AllTelnet(Source(<<chunks>>), 1, 1)
      pieces == AllTelnet(Source(<<chunks>>), 1, 0)
  IN  /\ (\A k \in DOMAIN chunks : chunks[k] # <<>>) => waiting = one
      /\ ~TearsCommand(chunks) =>
           /\ FlattenSeq(pieces.lines) = FlattenSeq(one.lines)
           /\ pieces.replies = one.replies
      /\ \A a \in {waiting, pieces} : \A k \in DOMAIN a.lines : Cells(a.lines[k]) \subseteq 0..BufLen
=============================================================================
