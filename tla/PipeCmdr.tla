------------------------------ MODULE PipeCmdr ------------------------------
(***************************************************************************)
(* bench/cpp/pipecmdr.h: the simulated board's serial port.  tick() is one *)
(* clock: it accepts a client, hands the core one received character every *)
(* UARTLEN clocks, clocks the core, and collects what the core sends into  *)
(* lines for the client.  The core raises o_tx_stb with a character and    *)
(* holds both until a clock edge finds i_tx_busy low.                      *)
(***************************************************************************)
EXTENDS Integers, Sequences

CONSTANTS UARTLEN,      \* clocks a character takes: 4096 in the code
          BufLen,       \* PIPEBUFLEN: 256
          MaxChar,      \* characters in each direction
          Conns         \* clients, one after the other

NL == 0

VARIABLES st, up,                        \* the client: none, knock, open, shut; what it sent
          sent, heard,                   \* its last characters, either way
          conns, since,                  \* clients so far; taken when this one came
          m_con, m_rx, m_txbuf, m_uart_wait, m_tx_busy,
          i_tx_busy, o_tx_stb, o_tx_data,
          made, taken, got               \* the core's: raised, taken from it, received

client == <<st, up, sent, heard, conns>>
vars == <<client, since, m_con, m_rx, m_txbuf, m_uart_wait, m_tx_busy, i_tx_busy,
          o_tx_stb, o_tx_data, made, taken, got>>

Init ==
  /\ st = "none" /\ up = << >> /\ sent = 0 /\ heard = 0 /\ conns = 0 /\ since = 0
  /\ m_con = FALSE /\ m_rx = << >> /\ m_txbuf = << >>
  /\ m_uart_wait = 0 /\ m_tx_busy = 0 /\ i_tx_busy = FALSE
  /\ o_tx_stb = FALSE /\ o_tx_data = NL /\ made = 0 /\ taken = 0 /\ got = 0

(* Between two clocks the client connects, sends or goes away. *)
Client ==
  /\ \/ /\ st \in {"none", "shut"} /\ ~m_con /\ conns < Conns
        /\ st' = "knock" /\ conns' = conns + 1 /\ UNCHANGED <<up, sent>>
     \/ /\ st \in {"knock", "open"} /\ sent < MaxChar
        /\ sent' = sent + 1 /\ up' = Append(up, sent + 1) /\ UNCHANGED <<st, conns>>
     \/ st = "open" /\ st' = "shut" /\ UNCHANGED <<up, sent, conns>>
  /\ UNCHANGED <<heard, since, m_con, m_rx, m_txbuf, m_uart_wait, m_tx_busy, i_tx_busy,
                 o_tx_stb, o_tx_data, made, taken, got>>

Accepts == ~m_con /\ st = "knock"

(* m_uart_wait = 0 and nothing kept: recv(), which also finds the end. *)
Receives == m_uart_wait = 0 /\ m_rx = << >> /\ (m_con \/ Accepts)
Arrived == IF Receives THEN up ELSE m_rx
Hands == m_uart_wait = 0 /\ Arrived # << >>
Closes == Receives /\ up = << >> /\ st = "shut"
Connected == (m_con \/ Accepts) /\ ~Closes

(* The core's transmitter at the clock edge: next is what it has to say.   *)
CoreSends(stb, ch) ==
  /\ IF o_tx_stb /\ i_tx_busy
     THEN stb /\ ch = o_tx_data
     ELSE /\ stb => made < MaxChar /\ ch \in {made + 1, NL}
          /\ ~stb => ch = NL
  /\ made' = IF ch # NL /\ stb /\ ~(o_tx_stb /\ i_tx_busy) THEN made + 1 ELSE made

CoreReceives ==
  /\ got' = IF Hands THEN (IF Head(Arrived) = got + 1 THEN got + 1 ELSE -1) ELSE got
  /\ m_rx' = IF Hands THEN Tail(Arrived) ELSE m_rx
  /\ up' = IF Receives THEN << >> ELSE up
  /\ m_uart_wait' = IF Hands THEN UARTLEN ELSE IF m_uart_wait > 0 THEN m_uart_wait - 1 ELSE 0

(* A mutant of the test below: a character is taken whenever it is up. *)
TakesAlways(stb) == stb
(* A character is taken just after the edge that raised it; the core sees  *)
(* that only when the line is free again.                                  *)
Takes(stb) == stb /\ m_tx_busy = 0

(* A line goes out at its end, or when the buffer is full; without a       *)
(* client the character is gone.                                           *)
Collects(stb, ch) ==
  LET line == Append(m_txbuf, ch)
      ends == ch = NL \/ Len(line) >= BufLen
      last == IF ch # NL THEN ch ELSE IF m_txbuf # << >> THEN m_txbuf[Len(m_txbuf)] ELSE heard
  IN  /\ IF Takes(stb) /\ Connected
         THEN /\ m_txbuf' = IF ends THEN << >> ELSE line
              /\ heard' = IF ends THEN last ELSE heard
         ELSE UNCHANGED <<m_txbuf, heard>>
      /\ taken' = IF Takes(stb) /\ ch # NL THEN ch ELSE taken
      /\ m_tx_busy' = IF stb /\ ~i_tx_busy THEN UARTLEN
                      ELSE IF m_tx_busy > 0 THEN m_tx_busy - 1 ELSE 0
      /\ i_tx_busy' = (m_tx_busy' # 0)

Tick(stb, ch) ==
  /\ m_con' = Connected
  /\ st' = IF Accepts THEN "open" ELSE st
  /\ since' = IF Accepts THEN taken ELSE since
  /\ CoreReceives
  /\ CoreSends(stb, ch) /\ o_tx_stb' = stb /\ o_tx_data' = ch
  /\ Collects(stb, ch)
  /\ UNCHANGED <<sent, conns>>

Next == Client \/ \E stb \in BOOLEAN, ch \in 0 .. MaxChar : Tick(stb, ch)

Spec == Init /\ [][Next]_vars

-----------------------------------------------------------------------------
(* What the core sent since the client came is collected or delivered, each *)
(* character once and in order, behind what an earlier client left in the   *)
(* buffer, although the core takes a character for sent only when the next  *)
(* could go.                                                                *)
Told == IF heard > since THEN heard ELSE since
LinesIntact ==
  /\ m_con => \E left \in 0 .. Len(m_txbuf) :
       /\ \A i \in 1 .. left : m_txbuf[i] <= since
       /\ \A i \in left + 1 .. Len(m_txbuf) : m_txbuf[i] = Told + (i - left)
       /\ Told + (Len(m_txbuf) - left) = taken
  /\ taken = made

(* What the client sent is in the socket, in the buffer or in the core.     *)
CommandsReachCore ==
  LET s == m_rx \o up
  IN  got + Len(s) = sent /\ \A i \in 1 .. Len(s) : s[i] = got + i

(* Nothing is lost, doubled or overtaken between the client and the core. *)
PipeIntact == LinesIntact /\ CommandsReachCore
=============================================================================
