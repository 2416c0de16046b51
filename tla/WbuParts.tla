------------------------------ MODULE WbuParts ------------------------------
(***************************************************************************)
(* The parts that are small enough to be explored to the end on their own, *)
(* one after the other in a single run: part says which of them runs, all  *)
(* the others stay as they begin.  Every part keeps its own module, its    *)
(* own wires and its own users; none of them talks to another here.        *)
(***************************************************************************)
EXTENDS WbuFifo

CONSTANTS Request, MaxPend,                 \* BusDelay
          Value, T, FMax, Gap,              \* WbuCompress and WbuInput
          UARTLEN, BufLen, MaxChar, Conns,  \* PipeCmdr
          W, B,                             \* Uart
          LEN, Holdoffs                     \* Scope

ASSUME MaxPendAssumption == MaxPend \in Nat \ {0}

\* The tables have 1024 and 256 entries.
ASSUME TAssumption == T \in Nat \ {0, 1}

\* A character is at least eight bits of a clock each (wbudecompress.v:130-132).
ASSUME GapAssumption == Gap \in Nat /\ Gap >= 4

ASSUME PipeAssumption == UARTLEN \in Nat /\ BufLen \in Nat /\ MaxChar \in Nat

\* From five clocks on, half a bit and the three clocks in which rxuart sees an
\* edge fit into one; the fastest line that the sources set up has 25 (uartsim.cpp:99).
ASSUME SerialAssumption == W \in Nat \ {0} /\ B \in Nat /\ B >= 5

\* Scopes have a power of two of words, and rawread() takes none of four or less.
ASSUME ScopeAssumption == LEN \in Nat /\ LEN >= 8 /\ Holdoffs \subseteq Nat

VARIABLES
  part,
  i_wb_cyc, i_wb_stb, i_wb_req, o_dly_cyc, o_dly_stb, o_dly_req, r_stb, r_req,
  o_wb_ack, o_wb_err, up, down,
  i_stb, i_codword, a_stb, a_addrword, idle_stb, tbl_addr, tbl_filled, compression_tbl,
  rd_addr, nxt_rd_addr, tbl_match, nxt_match, cword, caddr, dmatch, maddr, vaddr, pmatch,
  match, matchaddr, fmatch, r_cword, m_rdaddr, m_readtbl,
  m_wraddr, m_wrloaded, m_writetbl, line, bursting, wait, hx_stb, hx_digit, r_len, cw_len,
  lastcw, shiftreg, cw_stb, cw_word, wr_addr, in_tbl, r_word, cmd_addr, in_cword, in_stb,
  o_stb, o_word, due,
  st, knocked, sent, heard, conns, since, m_con, m_rx, m_txbuf, m_uart_wait, m_tx_busy,
  i_tx_busy, o_tx_stb, o_tx_data, made, taken, got,
  setup, dir, uart_line, tx_state, tx_baud, tx_busy, tx_bits, tx_calc, rx_state, rx_baud,
  rx_bits, rx_change, ck, rx_half, rx_zero, rx_sync, rx_calc, rx_pre, o_parity_err, o_wr,
  rx_data, chars,
  d, b, h

Delay    == INSTANCE BusDelay
Compress == INSTANCE WbuCompress WITH r_stb <- idle_stb
Input    == INSTANCE WbuInput WITH compression_tbl <- in_tbl, cword <- in_cword, r_stb <- in_stb
Pipe     == INSTANCE PipeCmdr WITH up <- knocked
Serial   == INSTANCE Uart WITH line <- uart_line, o_data <- rx_data, due <- chars
Analyser == INSTANCE Scope

fifovars  == vars
delayvars == <<i_wb_cyc, i_wb_stb, i_wb_req, o_dly_cyc, o_dly_stb, o_dly_req, r_stb, r_req,
               o_wb_ack, o_wb_err, up, down>>
compvars  == <<i_stb, i_codword, a_stb, a_addrword, idle_stb, tbl_addr, tbl_filled,
               compression_tbl, rd_addr, nxt_rd_addr, tbl_match, nxt_match, cword, caddr,
               dmatch, maddr, vaddr, pmatch, match, matchaddr, fmatch, r_cword, m_rdaddr,
               m_readtbl>>
inputvars == <<m_wraddr, m_wrloaded, m_writetbl, line, bursting, wait, hx_stb, hx_digit, r_len,
               cw_len, lastcw, shiftreg, cw_stb, cw_word, wr_addr, in_tbl, r_word, cmd_addr,
               in_cword, in_stb, o_stb, o_word, due>>
pipevars  == <<st, knocked, sent, heard, conns, since, m_con, m_rx, m_txbuf, m_uart_wait,
               m_tx_busy, i_tx_busy, o_tx_stb, o_tx_data, made, taken, got>>
uartvars  == <<setup, dir, uart_line, tx_state, tx_baud, tx_busy, tx_bits, tx_calc, rx_state,
               rx_baud, rx_bits, rx_change, ck, rx_half, rx_zero, rx_sync, rx_calc, rx_pre,
               o_parity_err, o_wr, rx_data, chars>>
scopevars == <<d, b, h>>

-----------------------------------------------------------------------------
\* The parts with more than one initial state wait in one of them.
FifoWaits ==
  /\ ~i_rst /\ ~i_wr
  /\ i_data = o_data /\ \A s \in Slot : fifo[s] = o_data
  /\ o_data = CHOOSE w \in Data : TRUE

SerialWaits ==
  /\ setup = [parity |-> FALSE, fixed |-> FALSE, even |-> 0, stops |-> 1]
  /\ dir = "out"

DelayWaits ==
  /\ i_wb_req = CHOOSE q \in Request : TRUE
  /\ o_dly_req = i_wb_req /\ r_req = i_wb_req

PartsInit ==
  /\ part \in {"fifo", "delay", "compress", "input", "pipe", "uart", "scope"}
  /\ Init /\ (part # "fifo" => FifoWaits)
  /\ Delay!Init /\ (part # "delay" => DelayWaits)
  /\ Compress!Init /\ Input!Init /\ Pipe!Init /\ Analyser!Init
  /\ Serial!Init /\ (part # "uart" => SerialWaits)

FifoRuns ==
  /\ part = "fifo" /\ Next
  /\ UNCHANGED <<delayvars, compvars, inputvars, pipevars, uartvars, scopevars>>

DelayRuns ==
  /\ part = "delay" /\ Delay!Next
  /\ UNCHANGED <<fifovars, compvars, inputvars, pipevars, uartvars, scopevars>>

CompressRuns ==
  /\ part = "compress" /\ Compress!Next
  /\ UNCHANGED <<fifovars, delayvars, inputvars, pipevars, uartvars, scopevars>>

InputRuns ==
  /\ part = "input" /\ Input!Next
  /\ UNCHANGED <<fifovars, delayvars, compvars, pipevars, uartvars, scopevars>>

PipeRuns ==
  /\ part = "pipe" /\ Pipe!Next
  /\ UNCHANGED <<fifovars, delayvars, compvars, inputvars, uartvars, scopevars>>

SerialRuns ==
  /\ part = "uart" /\ Serial!Next
  /\ UNCHANGED <<fifovars, delayvars, compvars, inputvars, pipevars, scopevars>>

AnalyserRuns ==
  /\ part = "scope" /\ Analyser!Next
  /\ UNCHANGED <<fifovars, delayvars, compvars, inputvars, pipevars, uartvars>>

PartsNext ==
  /\ \/ FifoRuns \/ DelayRuns \/ CompressRuns \/ InputRuns \/ PipeRuns \/ SerialRuns
     \/ AnalyserRuns
  /\ UNCHANGED part

partsvars == <<part, fifovars, delayvars, compvars, inputvars, pipevars, uartvars, scopevars>>

PartsSpec == PartsInit /\ [][PartsNext]_partsvars
-----------------------------------------------------------------------------
(* What each part is there for, as its own module states it.               *)
(* ImplementsQueue is that of WbuFifo.                                     *)

(* busdelay.v: the master is owed exactly what the delay and the devices   *)
(* hold.                                                                   *)
NothingLost == Delay!NothingLost

(* busdelay.v: a queue of two requests that an abort or an error empties.  *)
DelayImplementsQueue == Delay!DelayImplementsQueue

(* wbucompress.v: the host reads the words that were sent. *)
HostReadsWord == Compress!HostReadsWord

(* wbutohex.v, wbureadcw.v, wbudecompress.v: the commands that were sent   *)
(* come out, in order.                                                     *)
CommandsArrive == Input!CommandsArrive

(* pipecmdr.h: nothing is lost between the client and the core. *)
PipeIntact == Pipe!PipeIntact

(* txuart.v, rxuart.v, uartsim.cpp: every character comes out at the other *)
(* end.                                                                    *)
CharsArrive == Serial!CharsArrive

(* wbscope.v, scopecls.cpp: the recording, with the trigger in its place.  *)
ScopeShows == Analyser!ScopeShows
=============================================================================
