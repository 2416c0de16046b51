------------------------------ MODULE DebugLink ------------------------------
(***************************************************************************)
(* A host program's calls (sw/ttybus.cpp) over the debug link: what host   *)
(* and board each remember of it -- the address the next access is at, and *)
(* the words read before, by whose place a word may be sent -- has to stay *)
(* the same on both sides, though each only learns of the other by the     *)
(* codewords between them.                                                 *)
(*                                                                         *)
(* Here a command and a codeword are one step each: WbuInput, WbuOutput    *)
(* and WbuCompress show how they get across, WbuExec how the bus is used.  *)
(***************************************************************************)
EXTENDS AddrCode, Sequences

CONSTANT Value  \* data words

VARIABLES m_rdaddr, m_readtbl,        \* the host
          call,                       \* the call it is in
          wrote,                      \* its last access was a write
          down, up,                   \* commands and codewords on their way
          erred,                      \* an error was told since power up
          wb_state, r_new_addr, r_inc, r_len,          \* wbuexec
          tbl_addr, tbl_filled, compression_tbl        \* wbucompress

host == <<m_addr_set, m_lastaddr, m_rdaddr, m_readtbl, call, wrote>>
exec == <<wb_state, o_wb_addr, r_new_addr, r_inc, r_len>>
table == <<tbl_addr, tbl_filled, compression_tbl>>
vars == <<host, exec, table, down, up, erred, stray>>

Slot == 0 .. T - 1
\* A call: the address it is at, the words left, and whether all it was
\* given so far were read where they should have been.
Call(op, at, inc, left) == [op |-> op, at |-> at, inc |-> inc, left |-> left, ok |-> TRUE]
Idle == Call("idle", 0, 0, 0)
Ended == Call("ended", 0, 0, 0)
Blank == CHOOSE v \in Value : TRUE

\* Room for what a command may answer at once.
Room == Len(up) + 2 <= LinkMax

\* Bound: an address, a block and its end fit behind the commands there are.
BlockFits == Len(down) + MaxWr + 2 <= LinkMax

\* Codewords of a single digit.
Short == {"ack", "err", "reset"}
Told(k) == [kind |-> k, at |-> 0, val |-> 0, inc |-> 0, sent |-> 0]
-----------------------------------------------------------------------------
Init ==
  /\ CodeInit
  /\ m_rdaddr = 0 /\ m_readtbl = [s \in Slot |-> Blank] /\ call = Idle /\ wrote = FALSE
  /\ down = << >> /\ up = << >> /\ erred = FALSE
  /\ wb_state = "idle" /\ r_new_addr = TRUE /\ r_inc = 0 /\ r_len = 0
  /\ tbl_addr = 0 /\ tbl_filled = FALSE /\ compression_tbl = [s \in Slot |-> Blank]

(***************************************************************************)
(* The host.                                                               *)
(***************************************************************************)

\* encode_address: nothing is sent if the board is thought to be there.
AddressSent(a) ==
  IF m_addr_set /\ a = m_lastaddr THEN << >>
  ELSE <<[op |-> "addr", code |-> EncodeAddress(m_addr_set, m_lastaddr, a)]>>

RdAddr(a) == IF AddressSent(a) = << >> THEN m_rdaddr ELSE 0

\* readcmd: the digit for EowLen words of one address is the one that ends a
\* burst (WbuInput), and the board answers nothing.
Asked(inc, len) ==
  [op |-> IF inc = 0 /\ len = EowLen THEN "eow" ELSE "read", inc |-> inc, len |-> len]

ReadV(a, inc, len) ==
  /\ ReadsBack \/ ~(wrote /\ AddressSent(a) = << >>)
  /\ Len(down) + 2 <= LinkMax
  /\ down' = down \o AddressSent(a) \o <<Asked(inc, len)>>
  /\ m_rdaddr' = RdAddr(a)
  /\ call' = Call("read", a, inc, len)
  /\ wrote' = FALSE
  /\ UNCHANGED <<m_addr_set, m_lastaddr, m_readtbl, exec, table, up, stray>>

WriteV(a, inc, len) ==
  /\ BlockFits
  /\ down' = down \o AddressSent(a)
  /\ m_rdaddr' = RdAddr(a)
  /\ m_addr_set' = TRUE /\ m_lastaddr' = a
  /\ call' = Call("write", a, inc, len)
  /\ wrote' = TRUE
  /\ UNCHANGED <<m_readtbl, exec, table, up, stray>>

\* Mutant: the address is not kept up with the words written.
AdvancedNot(n) == m_lastaddr

Advanced(n) == m_lastaddr + n * call.inc

\* A block of words, and after the last the newline that ends the burst; word
\* carries the address it is meant for.
WriteBlock ==
  LET n == IF call.left > MaxWr THEN MaxWr ELSE call.left
      word(i) == [op |-> "write", inc |-> call.inc, meant |-> call.at + call.inc * (i - 1)]
  IN /\ call.op = "write" /\ call.left > 0
     /\ down' = down \o [i \in 1 .. n |-> word(i)]
                \o (IF n = call.left THEN <<[op |-> "eow"]>> ELSE << >>)
     /\ m_lastaddr' = Advanced(n)
     /\ call' = [call EXCEPT !.op = "readidle", !.left = @ - n, !.at = @ + n * call.inc]
     /\ UNCHANGED <<m_addr_set, m_rdaddr, m_readtbl, wrote, exec, table, up, stray>>

HostValue(c) == IF c.kind = "tbl" THEN m_readtbl[(m_rdaddr - c.sent) % T] ELSE c.sent

NextPlace == (m_rdaddr + 1) % T

AddrTold(c) == c.at

\* An unsigned int: past the end it begins again.
AddrAfter(c) == (m_lastaddr + c.inc) % BusSpace

\* A bus error or reset reaches the program: it ends, or goes on.
Thrown == IF Catches THEN Idle ELSE Ended

\* readword takes a codeword.
ReadWord ==
  LET c == Head(up) IN
  /\ call.op = "read" /\ call.left > 0 /\ up # << >>
  /\ up' = Tail(up)
  /\ CASE c.kind = "ack" -> UNCHANGED <<m_addr_set, m_lastaddr, m_rdaddr, m_readtbl, call>>
       [] c.kind \in {"err", "reset"} ->
            call' = Thrown /\ UNCHANGED <<m_addr_set, m_lastaddr, m_rdaddr, m_readtbl>>
       [] c.kind = "addr" ->
            /\ m_addr_set' = TRUE /\ m_lastaddr' = AddrTold(c)
            /\ UNCHANGED <<m_rdaddr, m_readtbl, call>>
       [] c.kind \in {"raw", "tbl"} ->
            /\ IF c.kind = "raw"
               THEN /\ m_readtbl' = [m_readtbl EXCEPT ![m_rdaddr] = c.sent]
                    /\ m_rdaddr' = NextPlace
               ELSE UNCHANGED <<m_rdaddr, m_readtbl>>
            /\ m_lastaddr' = AddrAfter(c)
            /\ call' = [call EXCEPT !.left = @ - 1, !.at = @ + call.inc,
                                    !.ok = @ /\ c.at = call.at]
            /\ UNCHANGED m_addr_set
  /\ UNCHANGED <<wrote, exec, table, down, stray>>

AllRead == call.left = 0

\* Every word is read: the address has to be as expected, or the program ends.
ReadDone ==
  /\ call.op = "read" /\ AllRead
  /\ call' = IF m_lastaddr = call.at THEN Idle ELSE Ended
  /\ UNCHANGED <<m_addr_set, m_lastaddr, m_rdaddr, m_readtbl, wrote, exec, table, down, up, stray>>

\* readidle takes what is there, two characters at a time, and looks at the
\* second of them.  It returns when there is none.
ReadIdle ==
  /\ call.op = "readidle"
  /\ \/ /\ Len(up) >= 2 /\ up[1].kind \in Short /\ up[2].kind \in Short
        /\ up' = Tail(Tail(up))
        /\ call' = IF up[2].kind = "ack" THEN call ELSE Thrown
     \/ /\ Len(up) >= 1 /\ up[1].kind \in Short      \* a newline after it
        /\ up' = Tail(up) /\ UNCHANGED call
     \/ /\ Room /\ BlockFits
        /\ call' = IF call.left = 0 THEN Idle ELSE [call EXCEPT !.op = "write"]
        /\ UNCHANGED up                              \* nothing has come in yet
  /\ UNCHANGED <<m_addr_set, m_lastaddr, m_rdaddr, m_readtbl, wrote, exec, table, down, stray>>

\* With the port closed, what comes in is dropped.
Discard ==
  /\ call = Ended /\ up # << >> /\ up' = << >>
  /\ UNCHANGED <<host, exec, table, down, stray>>

\* Another program is started, once the board has nothing more to say to the
\* last one, which may wait in vain; what had not been read is dropped with
\* the port.
Restart ==
  /\ call \in {Idle, Ended} \/ (call.op = "read" /\ up = << >>)
  /\ down = << >> /\ wb_state # "reading"
  /\ call' = Idle /\ up' = << >>
  /\ m_addr_set' = FALSE /\ m_lastaddr' \in 0 .. Top /\ m_rdaddr' = 0 /\ wrote' = FALSE
  /\ m_readtbl' \in [Slot -> Value]
  /\ UNCHANGED <<exec, table, down, stray>>

Host ==
  \/ /\ call = Idle
     /\ \E a \in Addr, inc \in {0, 1}, len \in 1 .. MaxLen :
          /\ a + inc * len <= Top
          /\ ReadV(a, inc, len) \/ WriteV(a, inc, len)
  \/ WriteBlock \/ ReadWord \/ ReadDone \/ ReadIdle \/ Discard \/ Restart

(***************************************************************************)
(* The board.  wbuexec takes the commands in their order; each word it     *)
(* sends passes wbucompress, which may find it in its table.               *)
(***************************************************************************)
Command(op) == down # << >> /\ Head(down).op = op /\ down' = Tail(down)

ExecAddr ==
  /\ wb_state = "idle" /\ Command("addr")
  /\ o_wb_addr' = Decode(o_wb_addr, Head(down).code)
  /\ r_new_addr' = TRUE
  /\ UNCHANGED <<host, wb_state, r_inc, r_len, table, up, stray>>

\* The open cycle of a write takes the address for told.
ExecWrite ==
  /\ wb_state \in {"idle", "writing"} /\ Room /\ Command("write")
  /\ o_wb_addr' = (o_wb_addr + Head(down).inc) % BusSpace
  /\ r_new_addr' = FALSE
  /\ IF o_wb_addr \in Mapped
     THEN wb_state' = "writing" /\ up' = Append(up, Told("ack"))
     ELSE wb_state' = "flush" /\ up' = up \o <<Told("ack"), Told("err")>>
  /\ r_inc' = Head(down).inc
  /\ UNCHANGED <<host, r_len, table, stray>>

\* After an error the rest of the burst is dropped.
Flush ==
  /\ wb_state = "flush" /\ Command("write")
  /\ r_new_addr' = TRUE
  /\ UNCHANGED <<host, wb_state, o_wb_addr, r_inc, r_len, table, up, stray>>

ExecEow ==
  /\ wb_state # "reading" /\ Command("eow")
  /\ wb_state' = "idle"
  /\ UNCHANGED <<host, o_wb_addr, r_new_addr, r_inc, r_len, table, up, stray>>

ExecRead ==
  /\ wb_state = "idle" /\ Room /\ Command("read")
  /\ wb_state' = "reading" /\ r_inc' = Head(down).inc /\ r_len' = Head(down).len
  /\ IF r_new_addr
     THEN /\ up' = Append(up, [Told("addr") EXCEPT !.at = o_wb_addr])
          /\ tbl_addr' = 0 /\ tbl_filled' = FALSE
     ELSE UNCHANGED <<up, tbl_addr, tbl_filled>>
  /\ r_new_addr' = FALSE
  /\ UNCHANGED <<host, o_wb_addr, compression_tbl, stray>>

\* Mutant: an entry of before the last address is found, too.
ValidUpTo(d) == tbl_filled \/ d <= tbl_addr + 1

\* Distances at which wbucompress may find a word.
Valid(d) == tbl_filled \/ d <= tbl_addr

\* Whether the search gets so far depends on the time it has.
WordRead(v) ==
  LET word(k, s) == [kind |-> k, at |-> o_wb_addr, val |-> v, inc |-> r_inc, sent |-> s] IN
  \/ /\ up' = Append(up, word("raw", v))
     /\ compression_tbl' = [compression_tbl EXCEPT ![tbl_addr] = v]
     /\ tbl_addr' = (tbl_addr + 1) % T /\ tbl_filled' = (tbl_filled \/ tbl_addr = T - 1)
  \/ /\ \E d \in 1 .. T - 1 : /\ Valid(d) /\ compression_tbl[(tbl_addr - d) % T] = v
                              /\ up' = Append(up, word("tbl", d))
     /\ UNCHANGED table

ReadStep ==
  /\ wb_state = "reading" /\ Room /\ o_wb_addr \in Mapped
  /\ \E v \in Value : WordRead(v)
  /\ o_wb_addr' = (o_wb_addr + r_inc) % BusSpace
  /\ r_len' = r_len - 1
  /\ wb_state' = IF r_len = 1 THEN "idle" ELSE "reading"
  /\ UNCHANGED <<host, r_new_addr, r_inc, down, stray>>

\* The requests that were made before the error came have moved the address.
ReadError ==
  /\ wb_state = "reading" /\ Room /\ o_wb_addr \notin Mapped
  /\ \E k \in 1 .. r_len : o_wb_addr' = (o_wb_addr + k * r_inc) % BusSpace
  /\ wb_state' = "idle"
  /\ \/ up' = Append(up, Told("err")) /\ UNCHANGED <<r_new_addr, down>>
     \/ /\ up' = up \o <<Told("err"), Told("reset")>>      \* by the watchdog
        /\ r_new_addr' = TRUE
        /\ \E k \in 0 .. Len(down) : down' = SubSeq(down, k + 1, Len(down))
  /\ UNCHANGED <<host, r_inc, r_len, table, stray>>

\* A command in the middle of a burst is lost.
OutOfStep ==
  /\ wb_state \in {"writing", "flush"} /\ Room /\ (Command("addr") \/ Command("read"))
  /\ wb_state' = "idle" /\ up' = Append(up, Told("err"))
  /\ r_new_addr' = (r_new_addr \/ (wb_state = "flush" /\ Head(down).op = "addr"))
  /\ UNCHANGED <<host, o_wb_addr, r_inc, r_len, table, stray>>

Board ==
  \/ ExecAddr \/ ExecWrite \/ Flush \/ ExecEow \/ ExecRead
  \/ ReadStep \/ ReadError \/ OutOfStep

\* Kinds of codeword that tell of an error.
Errors == {"err", "reset"}

Next == /\ Host \/ Board
        /\ erred' = (erred \/ \E i \in DOMAIN up' : up'[i].kind \in Errors)

Spec == Init /\ [][Next]_vars
-----------------------------------------------------------------------------

(***************************************************************************)
(* The word a program is given is the word the board read at the address   *)
(* it asked for (devbus.h: "This function returns the value read from the  *)
(* device wishbone at address a"), whether it was sent whole or by its     *)
(* place among words read before.                                          *)
(***************************************************************************)
AnswersRight ==
  ~erred /\ call.op = "read" /\ call.left > 0 /\ up # << >> /\ Head(up).kind \in {"raw", "tbl"} =>
    Head(up).at = call.at /\ HostValue(Head(up)) = Head(up).val

(***************************************************************************)
(* A word that is written lands where the program meant it (devbus.h:      *)
(* "Write a single value to a single address"), although the address may   *)
(* have been given as a step from one that was only computed.              *)
(***************************************************************************)
WritesLand ==
  ~erred /\ wb_state \in {"idle", "writing"} /\ down # << >> /\ Head(down).op = "write" =>
    o_wb_addr = Head(down).meant

(***************************************************************************)
(* A read ends where readv expects it to (ttybus.cpp:484): the exit that   *)
(* ends the program is never taken.                                        *)
(***************************************************************************)
ReadEndsWhereExpected == ~erred /\ call.op = "read" /\ call.left = 0 => m_lastaddr = call.at

(***************************************************************************)
(* Whatever errors and resets came before, a read that returns to the      *)
(* program (ttybus.cpp:484 lets it) returns no word of another address.    *)
(***************************************************************************)
WrongAddressNoticed ==
  call.op = "read" /\ call.left = 0 /\ m_lastaddr = call.at => call.ok
=============================================================================
