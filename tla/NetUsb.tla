------------------------------- MODULE NetUsb -------------------------------
(***************************************************************************)
(* sw/netusb.cpp: one thread that forwards a TCP client's commands to the  *)
(* board over USB and the board's characters to the client.  pc is where   *)
(* the thread is; a transfer, a system call and each decision of           *)
(* check_incoming(), USBI::poll(), read() and write() is a step.  The      *)
(* clients are programs over sw/llcomms.cpp's NETCOMMS; the board answers  *)
(* commands and now and then sends a message of its own.                   *)
(***************************************************************************)
EXTENDS Integers, Sequences, SequencesExt
-----------------------------------------------------------------------------
(***************************************************************************)
(* The host's end of the USB serial link, class USBI (sw/usbi.h,           *)
(* sw/usbi.cpp).  A packet written to the board shifts as many characters  *)
(* out of it as it shifts in; what came out waits in the device, packet    *)
(* by packet, until a read transfer collects it, and goes into the receive *)
(* ring from which the program is served.  The ring is the sequence of the *)
(* characters between m_rend and m_rbeg.  The character the board sends    *)
(* when it has none, 0xff, is dropped by push_fifo and is left out of the  *)
(* packets here.                                                           *)
(***************************************************************************)
CONSTANTS PktLen,     \* USB_PKTLEN, 32 in the code
          RxLen,      \* characters a read request shifts out: 26
          BufLen      \* RCV_BUFLEN: 512

ASSUME LinkAssumption == /\ PktLen \in Nat /\ PktLen >= 4
                         /\ RxLen \in 1 .. PktLen
                         /\ BufLen \in Nat /\ BufLen > PktLen + 1

VARIABLES fifo,      \* m_rbuf from m_rend to m_rbeg
          newest,    \* the character before m_rbeg, popped or not
          inq,       \* packets in the device, not collected yet
          out        \* characters the board has to send

link == <<fifo, newest, inq, out>>

(* Characters: an answer is its number; NL is the only one below 0x10. *)
NL == 0
Note == -1
Low(ch) == ch = NL

(* The device is open, the ring empty and its last place never written. *)
LinkInit ==
  /\ fifo = << >> /\ inq = << >> /\ out = << >>
  /\ newest \in {Note, NL}

(* poll() asks for more while fewer characters than this are waiting. *)
Room == BufLen - 1 - PktLen

(* poll()'s answer: two characters, or one that is no line end. *)
Ready == Len(fifo) >= 2 \/ (Len(fifo) = 1 /\ ~Low(Head(fifo)))

(* push_fifo() drops a line end that follows another; before the first     *)
(* character of a packet it looks at the OLDEST one in the ring.           *)
Repeats(packet, i) ==
  Low(packet[i]) /\ IF i = 1 THEN fifo # << >> /\ Head(fifo) = packet[1]
                    ELSE packet[i - 1] = packet[i]

(* The ring does not look at m_rend: past BufLen - 1 characters m_rbeg     *)
(* overtakes it and a whole round is gone.                                 *)
Ring(s) == SubSeq(s, Len(s) - (Len(s) % BufLen) + 1, Len(s))

Push(packet) ==
  LET new == [i \in 1 .. Len(packet) |-> <<packet[i], Repeats(packet, i)>>]
      kept == SelectSeq(new, LAMBDA e : ~e[2])
      chars == [i \in 1 .. Len(kept) |-> kept[i][1]]
  IN  /\ fifo' = Ring(fifo \o chars)
      /\ newest' = IF chars = << >> THEN newest ELSE Last(chars)

(* An IN transfer takes the oldest packet, whichever request it answers. *)
Collect ==
  /\ inq # << >>
  /\ Push(Head(inq))
  /\ inq' = Tail(inq)

(* An OUT transfer of n characters shifts n characters out of the board. *)
Exchange(n) ==
  LET m == IF n < Len(out) THEN n ELSE Len(out)
  IN  /\ inq' = Append(inq, SubSeq(out, 1, m))
      /\ out' = SubSeq(out, m + 1, Len(out))

(* write(): a long line goes out in pieces. *)
PieceLen(line) == IF Len(line) >= PktLen THEN PktLen \div 2 - 1 ELSE Len(line)
-----------------------------------------------------------------------------
CONSTANTS Conns,      \* number of clients, one after the other or at once
          Lines,      \* lengths of the lines a client sends
          Answers,    \* numbers of characters the board answers with
          MaxSent,    \* a client sends no line beyond that many characters
          MaxLate,    \* transfers that time out
          ReadMax,    \* characters one read() of the socket takes: 256
          OutMax      \* characters one write() to the socket takes: 255

Client == 1 .. Conns
None == 0             \* no connection: confd = -1

VARIABLES st,         \* per client: none, knock, open, shut, dead or gone
          up, down,   \* the two directions of its connection
          waits,      \* answer characters it still expects
          sent,       \* command characters it has sent
          pc, mode,   \* the thread; mode: start, flush or serve
          for,        \* the call a request was made for
          con, connected, buf, todo, step,
          got,        \* per client: command characters the board has
          owes,       \* answer characters the board has to make
          emitted,    \* answer characters it has made
          late

clients == <<st, up, down, waits, sent>>
thread  == <<pc, mode, for, con, connected, buf, todo, step>>
board   == <<got, owes, emitted>>
vars    == <<clients, thread, board, link, late>>

Least(a, b) == IF a < b THEN a ELSE b

Numbered(s) == SelectSeq(s, LAMBDA ch : ch > 0)

(* The socket listens, no one is connected, and USBI's constructor is at   *)
(* its flush_read().                                                       *)
ThreadInit ==
  /\ pc = "poll" /\ mode = "start" /\ for = "polled"
  /\ con = None /\ connected = FALSE
  /\ buf = << >> /\ todo = << >> /\ step = 0

Init ==
  /\ st = [c \in Client |-> "none"]
  /\ up = [c \in Client |-> << >>] /\ down = [c \in Client |-> << >>]
  /\ waits = [c \in Client |-> 0] /\ sent = [c \in Client |-> 0]
  /\ ThreadInit /\ LinkInit
  /\ got = [c \in Client |-> 0] /\ owes = 0 /\ emitted = 0 /\ late = 0

-----------------------------------------------------------------------------
(* The clients: sw/llcomms.cpp *)

Connect(c) ==
  /\ st[c] = "none" /\ \A d \in Client : d < c => st[d] \in {"shut", "dead", "gone"}
  /\ st' = [st EXCEPT ![c] = "knock"]
  /\ UNCHANGED <<up, down, waits, sent>>

(* The last character of a line tells the board how much to answer. *)
Send(c) == \E n \in Lines, a \in Answers :
  /\ st[c] \in {"knock", "open"} /\ waits[c] = 0 /\ sent[c] + n <= MaxSent
  /\ up' = [up EXCEPT ![c] = @ \o [i \in 1 .. n |->
                [of |-> c, nth |-> sent[c] + i, asks |-> IF i = n THEN a ELSE 0]]]
  /\ sent' = [sent EXCEPT ![c] = @ + n]
  /\ waits' = [waits EXCEPT ![c] = a]
  /\ UNCHANGED <<st, down>>

(* LLCOMMSI::read() takes what is there. *)
Receive(c) ==
  LET n == Len(Numbered(down[c]))
  IN  /\ down[c] # << >>
      /\ down' = [down EXCEPT ![c] = << >>]
      /\ waits' = [waits EXCEPT ![c] = IF n < @ THEN @ - n ELSE 0]
      /\ UNCHANGED <<st, up, sent>>

(* NETCOMMS::close(): shutdown(), then read until the other side closes. *)
Shut(c) ==
  /\ st[c] = "open"
  /\ st' = [st EXCEPT ![c] = "shut"]
  /\ UNCHANGED <<up, down, waits, sent>>

(* The client's process is killed. *)
Die(c) ==
  /\ st[c] = "open"
  /\ st' = [st EXCEPT ![c] = "dead"]
  /\ down' = [down EXCEPT ![c] = << >>]
  /\ UNCHANGED <<up, waits, sent>>

Clients == /\ \E c \in Client : Connect(c) \/ Send(c) \/ Receive(c) \/ Shut(c) \/ Die(c)
           /\ UNCHANGED <<thread, board, link, late>>

-----------------------------------------------------------------------------
(* The board *)

(* What it has been asked for, some time later. *)
Answer ==
  /\ owes > 0
  /\ emitted' = emitted + owes /\ owes' = 0
  /\ out' = out \o [i \in 1 .. owes |-> emitted + i] \o <<NL>>
  /\ UNCHANGED <<clients, thread, got, fifo, newest, inq, late>>

Message ==
  /\ owes = 0 /\ out = << >>
  /\ out' = <<Note, NL>>
  /\ UNCHANGED <<clients, thread, board, fifo, newest, inq, late>>

Hears(chars) ==
  LET of == chars[1].of
      a == Last(chars).asks
  IN  /\ got' = [got EXCEPT ![of] = IF chars[1].nth = @ + 1 THEN Last(chars).nth ELSE -1]
      /\ owes' = owes + a
      /\ UNCHANGED emitted

-----------------------------------------------------------------------------
(* check_incoming(): USBI::write() *)

(* A mutant of the step below: one character between two pieces is lost. *)
AdvanceOne(n) == n + 1
(* write(): pos += nv. *)
Advance(n) == n

WritePiece ==
  LET n == Least(step, Len(todo))
  IN  /\ pc = "write"
      /\ Exchange(n)
      /\ Hears(SubSeq(todo, 1, n))
      /\ todo' = SubSeq(todo, Advance(n) + 1, Len(todo))
      /\ pc' = "written"
      /\ UNCHANGED <<clients, mode, for, con, connected, buf, step, fifo, newest, late>>

(* The answer is read back at once; if it takes more than 20 ms it stays. *)
Written ==
  /\ pc = "written"
  /\ \/ Collect /\ UNCHANGED late
     \/ late < MaxLate /\ late' = late + 1 /\ UNCHANGED <<fifo, newest, inq>>
  /\ IF todo = << >> THEN pc' = "poll" /\ step' = 0 ELSE pc' = "write" /\ UNCHANGED step
  /\ UNCHANGED <<clients, board, mode, for, con, connected, buf, todo, out>>

-----------------------------------------------------------------------------
(* USBI::poll(), read() and raw_read() *)

(* raw_read(): the request may time out, done by the board or not.  for is *)
(* where the thread goes on.                                               *)
Request ==
  /\ pc = "request"
  /\ \/ Exchange(RxLen) /\ pc' = "collect" /\ UNCHANGED late
     \/ /\ late < MaxLate /\ late' = late + 1
        /\ Exchange(RxLen) \/ UNCHANGED <<inq, out>>
        /\ pc' = for
  /\ UNCHANGED <<clients, board, fifo, newest, mode, for, con, connected, buf, todo, step>>

Requested ==
  /\ pc = "collect"
  /\ Collect
  /\ pc' = for
  /\ UNCHANGED <<clients, board, out, late, mode, for, con, connected, buf, todo, step>>

Ask(call) == pc' = "request" /\ for' = call /\ UNCHANGED <<mode, con, link>>

(* main()'s loop.  A flush goes on while pv > 0, and check_incoming() has  *)
(* not set pv when it has no connection: it may go on or not.              *)
Return ==
  \/ mode = "flush" /\ pc' = "poll" /\ UNCHANGED <<mode, con>>
  \/ connected /\ pc' = "wait" /\ mode' = "serve" /\ UNCHANGED con
  \/ ~connected /\ pc' = "accept" /\ mode' = "flush" /\ con' = None

(* What poll() and then its caller, flush_read() or check_incoming(), do.  *)
PollEnds ==
  /\ for' = "polled"
  /\ \/ mode # "start" /\ Ready /\ pc' = "read" /\ UNCHANGED <<mode, con, link>>
     \/ mode # "start" /\ ~Ready /\ Return /\ UNCHANGED link
     \/ /\ mode = "start" /\ Ready /\ pc' = "poll"
        /\ fifo' = << >> /\ newest' \in {Note, NL} /\ UNCHANGED <<mode, con, inq, out>>
     \/ mode = "start" /\ ~Ready /\ Return /\ UNCHANGED link

(* The newest character decides once whether poll() goes on asking, not    *)
(* each time round.                                                        *)
Poll ==
  /\ \/ pc = "poll" /\ IF Ready THEN PollEnds ELSE Ask("polled")
     \/ pc = "polled" /\ IF ~Low(newest) /\ Len(fifo) < Room THEN Ask("spinning") ELSE PollEnds
     \/ pc = "spinning" /\ IF Len(fifo) < Room THEN Ask("spinning") ELSE PollEnds
  /\ UNCHANGED <<clients, board, late, connected, buf, todo, step>>

(* read() one character at a time: the line end alone if it comes first,   *)
(* else as long as there are any and the buffer has room.                  *)
Read ==
  LET first == Head(buf \o fifo)
      n == IF Low(first) THEN 1 ELSE Least(Len(fifo), OutMax - Len(buf))
      full == Low(first) \/ Len(buf) + n = OutMax
  IN  /\ pc = "read" \/ (pc = "reading" /\ fifo # << >>)
      /\ buf' = buf \o SubSeq(fifo, 1, n)
      /\ fifo' = SubSeq(fifo, n + 1, Len(fifo))
      /\ pc' = IF full THEN "forward" ELSE "request"
      /\ for' = IF full THEN "polled" ELSE "reading"
      /\ UNCHANGED <<clients, board, newest, inq, out, late, mode, con, connected, todo, step>>

-----------------------------------------------------------------------------
(* check_incoming() and main() *)

(* write(confd): lost when the client is gone or the socket is closed. *)
Forward ==
  /\ pc = "forward" \/ (pc = "reading" /\ fifo = << >>)
  /\ down' = IF mode = "serve" /\ st[con] \in {"open", "shut"}
             THEN [down EXCEPT ![con] = @ \o buf] ELSE down
  /\ buf' = << >> /\ for' = "polled" /\ Return
  /\ UNCHANGED <<st, up, waits, sent, board, link, late, connected, todo, step>>

Accept ==
  /\ pc = "accept"
  /\ \/ \E c \in Client : /\ st[c] = "knock"
                          /\ st' = [st EXCEPT ![c] = "open"]
                          /\ con' = c /\ connected' = TRUE
     \/ (\A c \in Client : st[c] # "knock") /\ UNCHANGED <<st, con, connected>>
  /\ pc' = "poll" /\ mode' = "flush"
  /\ UNCHANGED <<up, down, waits, sent, board, link, late, for, buf, todo, step>>

(* A mutant of the flag below: the end of the connection is not noted. *)
ConnectedKept == TRUE
(* read() gave 0: lb.m_connected = false. *)
ConnectedAfter == FALSE

(* poll(confd, -1) waits for the client, whatever the board has to say. *)
Wait ==
  LET line == SubSeq(up[con], 1, Least(ReadMax, Len(up[con])))
  IN  /\ pc = "wait"
      /\ IF line # << >>
         THEN /\ up' = [up EXCEPT ![con] = SubSeq(@, Len(line) + 1, Len(@))]
              /\ todo' = line /\ step' = PieceLen(line) /\ pc' = "write"
              /\ UNCHANGED <<st, connected>>
         ELSE /\ st[con] \in {"shut", "dead"}
              /\ st' = [st EXCEPT ![con] = "gone"] /\ connected' = ConnectedAfter
              /\ pc' = "poll" /\ UNCHANGED <<up, todo, step>>
      /\ UNCHANGED <<down, waits, sent, board, link, late, mode, for, con, buf>>

Thread == \/ WritePiece \/ Written \/ Request \/ Requested \/ Poll \/ Read
          \/ Forward \/ Accept \/ Wait

Next == Clients \/ Answer \/ Message \/ Thread

Spec == Init /\ [][Next]_vars /\ WF_vars(Thread) /\ WF_vars(Answer) /\ WF_vars(Message)

-----------------------------------------------------------------------------
(* Properties *)

(* The board's answer characters between the board and the client being    *)
(* served: none is lost, doubled or overtaken by another once the client   *)
(* has the first, whatever times out, whichever packet answers which       *)
(* request and however full the ring.                                      *)
StreamIntact ==
  LET kept == IF connected THEN down[con] ELSE << >>
      s == Numbered(kept \o buf \o fifo \o FlattenSeq(inq) \o out)
  IN  s = [i \in 1 .. Len(s) |-> emitted - Len(s) + i]

(* Every character a client sent reaches the board, once and in order,     *)
(* however long its line: what is not there yet is in netusb's hands or in *)
(* the socket.                                                             *)
CommandsReachBoard == \A c \in Client :
  LET s == SelectSeq(todo, LAMBDA ch : ch.of = c) \o up[c]
  IN  /\ got[c] + Len(s) = sent[c]
      /\ \A i \in 1 .. Len(s) : s[i].nth = got[c] + i

(* So both directions keep what they are given. *)
StreamsIntact == StreamIntact /\ CommandsReachBoard

(* A client that closes its side, or dies, while it is being served does   *)
(* not keep netusb: NETCOMMS::close() waits for that, and so does the next *)
(* client.                                                                 *)
CloseNoticed == \A c \in Client :
  (mode = "serve" /\ con = c /\ st[c] \in {"shut", "dead"}) ~> ~(connected /\ con = c)

(* netusb.cpp:7: "Forwards a XuLA2 board USB connection over a TCP socket, *)
(* so a non-local computer can control the board."  What the board says to *)
(* a client that is connected and waits for it gets there.                 *)
AnswersForwarded == \A c \in Client :
  (mode = "serve" /\ con = c /\ st[c] = "open" /\ waits[c] > Len(down[c]))
    ~> (waits[c] <= Len(down[c]) \/ st[c] # "open")
=============================================================================
