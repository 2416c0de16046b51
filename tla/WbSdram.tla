------------------------------- MODULE WbSdram -------------------------------
(***************************************************************************)
(* rtl/wbsdram.v, the controller of the SDRAM, with the memory chip behind *)
(* it as bench/cpp/sdramsim.cpp has it.                                    *)
(*                                                                         *)
(* Each action is one clock of both.  The controller's commands are        *)
(* registered: what is decided in one clock is on the chip's wires in the  *)
(* next.  Reading and writing are bursts of two half words; an address is  *)
(* its row, its bank and the part of the row it is in (Col).               *)
(***************************************************************************)
EXTENDS Naturals, FiniteSets

CONSTANTS Banks,      \* 4
          Rows,       \* 8192
          Col,        \* parts of a row: 0, 1 (from 8'he0), 2 (from 8'hf0)
          Every,      \* clocks from refresh to refresh (625)
          Soon,       \* with less than these left, an idle bus is used (256)
          Startup,    \* clocks before anything is done (20500)
          RDLY,       \* clocks from a read to its answer (6)
          Value       \* data words, with their byte selects

ASSUME SizeAssumption == Banks \in Nat \ {0, 1} /\ Rows \in Nat \ {0} /\ Col \subseteq 0 .. 2
\* Between two refreshes there is time for one and for a request behind it; a
\* read is answered before a write could be that follows it.
ASSUME TimeAssumption ==
  /\ Every \in Nat /\ Every >= 12 /\ Soon \in 1 .. Every /\ Startup \in Nat \ {0}
  /\ RDLY \in 5 .. 6

VARIABLES refresh_clk, need_refresh, in_refresh_clk, in_refresh,
          r_pending, r_req, r_bank_valid, fwd_bank_valid, o_wb_stall,
          bank_active, bank_row, clocks_til_idle,
          r_barrell_ack,         \* the bits that are set
          nxt_dmod, o_ram_dmod,  \* TRUE: the controller drives the data wires
          o_ram,                 \* the command wires
          o_ram_data, o_ram_dqm,
          maintenance_mode, m_state, startup_idle, startup_hold,
          maintenance_clocks, m_ram

VARIABLES m_pwrup, m_clocks_till_idle,           \* the chip
          m_bank_status, m_bank_row,
          m_next_wr                              \* the write half done, or Nothing

VARIABLES owed,      \* requests of this cycle not answered
          late,      \* clocks since a refresh fell due
          rested,    \* clocks since the last refresh, up to RefreshTime
          stalled    \* clocks a request has been waiting, while the cycle is open

refresh == <<refresh_clk, need_refresh, in_refresh_clk, in_refresh>>
request == <<r_pending, r_req, r_bank_valid, fwd_bank_valid, o_wb_stall>>
bank == <<bank_active, bank_row, clocks_til_idle>>
data == <<nxt_dmod, o_ram_dmod, o_ram_data, o_ram_dqm>>
maintenance == <<maintenance_mode, m_state, startup_idle, startup_hold, maintenance_clocks, m_ram>>
chip == <<m_pwrup, m_clocks_till_idle, m_bank_status, m_bank_row, m_next_wr>>
vars == <<refresh, request, bank, r_barrell_ack, data, o_ram, maintenance, chip, owed, late, rested, stalled>>

Bank == 0 .. Banks - 1
Row == 0 .. Rows - 1
Addr == [row : Row, bank : Bank, col : Col]
Request == [we : {TRUE}, addr : Addr, data : Value]
           \cup {[we |-> FALSE, addr |-> a, data |-> "none"] : a \in Addr}
Nothing == [we |-> FALSE, addr |-> [row |-> 0, bank |-> 0, col |-> 0], data |-> "nothing"]

\* A command; req is what a read or write is done for.
Command(op, b, row, req) == [op |-> op, bank |-> b, row |-> row, req |-> req]
Simple(op) == Command(op, 0, 0, Nothing)
Nop == Simple("nop")        \* or the chip is not selected

\* A half of the word of req on the data wires.
Half(req, n) == <<req.data, n>>
NoHalf == <<"none", 0>>

\* fwd_addr: 32 words on.
Fwd(a) ==
  LET wraps == a.col > 0 /\ a.bank = Banks - 1
  IN [bank |-> IF a.col > 0 THEN (a.bank + 1) % Banks ELSE a.bank,
      row |-> IF wraps THEN (a.row + 1) % Rows ELSE a.row]

(***************************************************************************)
(* bank_active: a shift register of three bits for each bank, 7 when it is *)
(* open and 0 when it is closed, and two clocks on the way.                *)
(***************************************************************************)
IsOpen(b) == bank_active[b] >= 4
Opened(x) == 4 + x \div 2
Closed(x) == x \div 2
Stays(x) == IF x >= 4 THEN Opened(x) ELSE Closed(x)
JustOpened(b) == bank_active[b] \in {4, 5}

\* Mutant: the row is not compared.
HasRowAny(a) == IsOpen(a.bank)

HasRow(a) == IsOpen(a.bank) /\ bank_row[a.bank] = a.row
-----------------------------------------------------------------------------
Init ==
  /\ refresh_clk = 0 /\ need_refresh = FALSE /\ in_refresh_clk = 0 /\ in_refresh = FALSE
  /\ r_pending = FALSE /\ r_req = Nothing /\ o_wb_stall = TRUE
  /\ r_bank_valid = FALSE /\ fwd_bank_valid = FALSE
  /\ bank_active = [b \in Bank |-> 0] /\ bank_row = [b \in Bank |-> 0] /\ clocks_til_idle = 0
  /\ r_barrell_ack = {}
  /\ nxt_dmod = FALSE /\ o_ram_dmod = FALSE /\ o_ram_data = NoHalf /\ o_ram_dqm = <<"closed", 0>>
  /\ o_ram = Nop
  /\ maintenance_mode = TRUE /\ m_state = "POWER_UP" /\ m_ram = Simple("deselect")
  /\ startup_idle = Startup /\ startup_hold = TRUE /\ maintenance_clocks = 15
  /\ m_pwrup = 0 /\ m_clocks_till_idle = Startup - 1
  /\ m_bank_status = [b \in Bank |-> 0] /\ m_bank_row = [b \in Bank |-> 0]
  /\ m_next_wr = Nothing
  /\ owed = 0 /\ late = 0 /\ rested = 0 /\ stalled = 0

(***************************************************************************)
(* What is decided in a clock: at most one of these.                       *)
(***************************************************************************)

\* The bus is let go of, or a refresh cannot wait.
Closing(cyc) == ~nxt_dmod /\ (~cyc \/ need_refresh)

\* Too early to close what was opened, or a burst is under way.
Unsettled == (\E b \in Bank : JustOpened(b)) \/ clocks_til_idle > 0

PrechargesAll(cyc) == Closing(cyc) /\ ~Unsettled /\ \E b \in Bank : IsOpen(b)

Refreshes(cyc) ==
  /\ Closing(cyc) /\ ~Unsettled /\ \A b \in Bank : bank_active[b] = 0
  /\ ~in_refresh /\ (refresh_clk < Soon \/ need_refresh)

\* A refresh takes its time.
Works(cyc) == ~nxt_dmod /\ cyc /\ ~need_refresh /\ ~in_refresh

pending == r_pending /\ o_wb_stall

\* Mutant: a bank is opened while it is still closing.
ActivatesSoon(cyc) ==
  Works(cyc) /\ pending /\ ~r_bank_valid /\ ~IsOpen(r_req.addr.bank)

Activates(cyc) ==
  Works(cyc) /\ pending /\ ~r_bank_valid /\ bank_active[r_req.addr.bank] = 0

Precharges(cyc) ==
  Works(cyc) /\ pending /\ ~r_bank_valid /\ bank_active[r_req.addr.bank] = 7

Reads(cyc) ==
  /\ Works(cyc) /\ pending /\ ~r_req.we
  /\ IsOpen(r_req.addr.bank) /\ r_bank_valid /\ clocks_til_idle < 4

Writes(cyc) ==
  /\ Works(cyc) /\ pending /\ r_req.we
  /\ IsOpen(r_req.addr.bank) /\ r_bank_valid /\ clocks_til_idle = 0

\* Nothing can be done for the request; its row ends soon.
LooksAhead(cyc) ==
  /\ Works(cyc) /\ ~(Activates(cyc) \/ Precharges(cyc) \/ Reads(cyc) \/ Writes(cyc))
  /\ r_pending /\ r_req.addr.col = 2 /\ ~fwd_bank_valid

ClosesAhead(cyc) == LooksAhead(cyc) /\ bank_active[Fwd(r_req.addr).bank] \in {6, 7}
OpensAhead(cyc) == LooksAhead(cyc) /\ bank_active[Fwd(r_req.addr).bank] = 0

Decision(cyc) ==
  LET a == r_req.addr
      f == Fwd(a)
  IN CASE PrechargesAll(cyc) -> Simple("prechargeall")
       [] Refreshes(cyc)     -> Simple("refresh")
       [] Activates(cyc)     -> Command("activate", a.bank, a.row, Nothing)
       [] Precharges(cyc)    -> Command("precharge", a.bank, 0, Nothing)
       [] Reads(cyc)         -> Command("read", a.bank, 0, r_req)
       [] Writes(cyc)        -> Command("write", a.bank, 0, r_req)
       [] ClosesAhead(cyc)   -> Command("precharge", f.bank, 0, Nothing)
       [] OpensAhead(cyc)    -> Command("activate", f.bank, f.row, Nothing)
       [] OTHER              -> Nop

BurstOp == {"read", "write"}
-----------------------------------------------------------------------------
(***************************************************************************)
(* One clock.  cyc is i_wb_cyc; new is the request on the bus, if the      *)
(* controller takes it in this clock (bus_cyc), and otherwise Nothing.     *)
(***************************************************************************)
Takes(new) == new # Nothing

refresh_cmd == o_ram.op = "refresh"

RefreshTimers ==
  /\ refresh_clk' = IF refresh_cmd THEN Every ELSE IF refresh_clk > 0 THEN refresh_clk - 1 ELSE 0
  /\ need_refresh' = (refresh_clk = 0 /\ ~refresh_cmd)
  /\ in_refresh_clk' = IF refresh_cmd THEN 6
                       ELSE IF in_refresh_clk > 0 THEN in_refresh_clk - 1 ELSE 0
  /\ in_refresh' = (in_refresh_clk # 0 \/ refresh_cmd)

\* A command in its clock on the wires ends the request it was for.
Requested(cyc, new) ==
  LET a == IF Takes(new) THEN new.addr ELSE r_req.addr
  IN /\ r_pending' = (Takes(new) \/ (r_pending /\ o_ram.op \notin BurstOp /\ cyc))
     /\ r_req' = IF Takes(new) THEN new ELSE r_req
     /\ r_bank_valid' = HasRow(a)
     /\ fwd_bank_valid' = HasRow(Fwd(r_req.addr))

\* The banks a command opens or closes.
BanksAfter(c) ==
  [b \in Bank |->
     CASE c.op = "activate" /\ c.bank = b -> Opened(bank_active[b])
       [] c.op = "prechargeall" \/ (c.op = "precharge" /\ c.bank = b) -> Closed(bank_active[b])
       [] OTHER -> Stays(bank_active[b])]

\* Clocks until what a command began is done.
BusyAfter(c) ==
  CASE c.op = "read"  -> 4
    [] c.op = "write" -> 1
    [] OTHER -> IF clocks_til_idle > 0 THEN clocks_til_idle - 1 ELSE 0

\* The answer a command will have.
AnswerOf(c) == CASE c.op = "read"  -> {RDLY - 1}
                 [] c.op = "write" -> {1}
                 [] OTHER -> {}

\* Mutant: the answers of an abandoned cycle are given.
AnswersAfterCycle(c, cyc) == {n - 1 : n \in r_barrell_ack \ {0}} \cup AnswerOf(c)

\* The clocks from now in which answers are due.
AnswersAfter(c, cyc) ==
  IF cyc THEN {n - 1 : n \in r_barrell_ack \ {0}} \cup AnswerOf(c) ELSE {}

Issue(c, cyc, new) ==
  /\ o_ram' = c
  /\ bank_active' = BanksAfter(c)
  /\ bank_row' = IF c.op = "activate" THEN [bank_row EXCEPT ![c.bank] = c.row] ELSE bank_row
  /\ clocks_til_idle' = BusyAfter(c)
  /\ r_barrell_ack' = AnswersAfter(c, cyc)
  /\ o_wb_stall' = (c.op \notin BurstOp /\ (r_pending \/ Takes(new)))
  /\ nxt_dmod' = (c.op = "write")
  /\ o_ram_dmod' = (c.op = "write" \/ nxt_dmod)

\* The data wires; what they carry only matters while they are driven.
Data ==
  LET half == Half(r_req, IF nxt_dmod THEN 2 ELSE 1)
  IN /\ o_ram_data' = IF o_ram_dmod' THEN half ELSE NoHalf
     /\ o_ram_dqm' = IF maintenance_mode THEN <<"closed", 0>>
                     ELSE IF r_req.we THEN half ELSE <<"open", 0>>

\* Once the chip is set up.
Operate(cyc, new) ==
  /\ ~maintenance_mode
  /\ new \in Request \cup {Nothing} /\ (Takes(new) => cyc /\ ~o_wb_stall)
  /\ Issue(Decision(cyc), cyc, new)
  /\ UNCHANGED maintenance

\* m_ram: wait, close all banks, refresh, set the mode, begin.
StartUp ==
  /\ startup_idle' = IF startup_idle > 0 THEN startup_idle - 1 ELSE 0
  /\ startup_hold' = (startup_idle > 0)
  /\ LET left == IF maintenance_clocks > 0 THEN maintenance_clocks - 1 ELSE 0
         to(state, clocks, op) ==
           m_state' = state /\ maintenance_clocks' = clocks /\ m_ram' = Simple(op)
     IN /\ CASE m_state = "POWER_UP" /\ startup_hold  -> to("POWER_UP", left, "nop")
             [] m_state = "POWER_UP" /\ ~startup_hold -> to("INITIAL_REFRESH", 10, "prechargeall")
             [] m_state = "INITIAL_REFRESH" /\ maintenance_clocks > 0 ->
                  to("INITIAL_REFRESH", left, "refresh")
             [] m_state = "INITIAL_REFRESH" /\ maintenance_clocks = 0 -> to("SET_MODE", 2, "mode")
             [] m_state = "SET_MODE" -> to("SET_MODE", left, "deselect")
        /\ maintenance_mode' = ~(m_state = "SET_MODE" /\ maintenance_clocks = 0)

\* The wires follow m_ram.
Maintain(cyc, new) ==
  /\ maintenance_mode /\ new = Nothing
  /\ o_ram' = m_ram
  /\ bank_active' = [b \in Bank |-> 0] /\ r_barrell_ack' = {} /\ o_wb_stall' = TRUE
  /\ nxt_dmod' = FALSE /\ o_ram_dmod' = FALSE
  /\ UNCHANGED <<bank_row, clocks_til_idle>>
  /\ StartUp

(***************************************************************************)
(* The chip takes what is on its wires.                                    *)
(***************************************************************************)
ChipStartsUp ==
  /\ m_pwrup < 6
  /\ LET left == IF m_clocks_till_idle > 0 THEN m_clocks_till_idle - 1 ELSE 0
         to(p, clocks) == m_pwrup' = p /\ m_clocks_till_idle' = clocks
     IN CASE m_pwrup = 0 -> to(IF left = 0 THEN 1 ELSE 0, left)
          [] m_pwrup = 1 -> IF o_ram.op = "prechargeall" THEN to(2, 8) ELSE to(1, left)
          [] m_pwrup = 2 -> to(IF left = 0 THEN 3 ELSE 2, left)
          [] m_pwrup = 3 -> IF o_ram.op = "mode" THEN to(4, 2) ELSE to(3, left)
          [] m_pwrup = 4 -> to(IF left = 0 THEN 6 ELSE 4, left)
  /\ UNCHANGED <<m_bank_status, m_bank_row, m_next_wr>>

ChipOperates ==
  /\ m_pwrup = 6
  /\ m_bank_status' =
       [b \in Bank |->
          LET now == Stays(m_bank_status[b]) IN
          CASE o_ram.op = "activate" /\ o_ram.bank = b -> 4 + (now % 4)
            [] o_ram.op = "prechargeall" \/ (o_ram.op = "precharge" /\ o_ram.bank = b) -> now % 4
            [] OTHER -> now]
  /\ m_bank_row' = IF o_ram.op = "activate" THEN [m_bank_row EXCEPT ![o_ram.bank] = o_ram.row]
                   ELSE m_bank_row
  /\ m_next_wr' = IF o_ram.op = "write" THEN o_ram.req ELSE Nothing
  /\ UNCHANGED <<m_pwrup, m_clocks_till_idle>>

RefreshTime == 6     \* REFRESH_CLOCKS
MaxStall == 30        \* F_MAX_STALL
LateLimit == 12      \* bound: more clocks than a refresh is ever late

History(cyc, new) ==
  /\ owed' = IF ~cyc THEN 0
             ELSE owed + (IF Takes(new) THEN 1 ELSE 0) - (IF 0 \in r_barrell_ack THEN 1 ELSE 0)
  /\ late' = IF refresh_clk > 0 \/ refresh_cmd \/ maintenance_mode THEN 0
             ELSE IF late < LateLimit THEN late + 1 ELSE late
  /\ rested' = IF refresh_cmd THEN 0 ELSE IF rested < RefreshTime THEN rested + 1 ELSE rested
  /\ stalled' = IF ~cyc \/ ~o_wb_stall \/ maintenance_mode THEN 0
                ELSE IF stalled <= MaxStall THEN stalled + 1 ELSE stalled

Clock(cyc, new) ==
  /\ Operate(cyc, new) \/ Maintain(cyc, new)
  /\ RefreshTimers /\ Requested(cyc, new) /\ Data
  /\ ChipStartsUp \/ ChipOperates
  /\ History(cyc, new)

Next == \E cyc \in BOOLEAN, new \in Request \cup {Nothing} : Clock(cyc, new)

Spec == Init /\ [][Next]_vars
-----------------------------------------------------------------------------
TypeOK ==
  /\ refresh_clk \in 0 .. Every /\ in_refresh_clk \in 0 .. 6
  /\ need_refresh \in BOOLEAN /\ in_refresh \in BOOLEAN
  /\ r_pending \in BOOLEAN /\ r_req \in Request \cup {Nothing}
  /\ r_bank_valid \in BOOLEAN /\ fwd_bank_valid \in BOOLEAN /\ o_wb_stall \in BOOLEAN
  /\ bank_active \in [Bank -> 0 .. 7] /\ bank_row \in [Bank -> Row] /\ clocks_til_idle \in 0 .. 4
  /\ r_barrell_ack \subseteq 0 .. RDLY - 1
  /\ nxt_dmod \in BOOLEAN /\ o_ram_dmod \in BOOLEAN
  /\ m_state \in {"POWER_UP", "INITIAL_REFRESH", "SET_MODE"}
  /\ maintenance_mode \in BOOLEAN /\ maintenance_clocks \in 0 .. 15
  /\ m_pwrup \in {0, 1, 2, 3, 4, 6}
  /\ m_bank_status \in [Bank -> 0 .. 7] /\ m_bank_row \in [Bank -> Row]
  /\ owed \in Nat /\ late \in 0 .. LateLimit /\ rested \in 0 .. RefreshTime
  /\ stalled \in 0 .. MaxStall + 1

\* What sdramsim.cpp's assertions allow the chip to be told, in each state.
Accepted ==
  LET now(b) == Stays(m_bank_status[b]) IN
  CASE m_pwrup = 0 -> o_ram.op \in {"nop", "deselect"}
    [] m_pwrup = 2 -> m_clocks_till_idle <= 1 \/ o_ram.op = "refresh"
    [] m_pwrup = 4 -> o_ram.op = "deselect"
    [] m_pwrup = 6 ->
         CASE o_ram.op = "activate" -> now(o_ram.bank) = 0
           [] o_ram.op \in BurstOp  -> now(o_ram.bank) % 2 = 1 /\ now(o_ram.bank) >= 4
           [] o_ram.op = "refresh"  -> \A b \in Bank : now(b) < 2
           [] OTHER -> o_ram.op # "mode"
    [] OTHER -> TRUE

(***************************************************************************)
(* The chip accepts every command, from power up on, although the          *)
(* controller decides on registers that are a clock or two behind it, and  *)
(* no bank is opened before the chip has refreshed.                        *)
(***************************************************************************)
CommandsAccepted ==
  /\ Accepted
  /\ o_ram.op = "activate" => rested >= RefreshTime

(***************************************************************************)
(* What is read or written is the word asked for: the chip has its row     *)
(* open, and both halves of a write are on the data wires as the chip      *)
(* takes them, although the next request may have replaced it by then.     *)
(***************************************************************************)
RightWord ==
  /\ o_ram.op \in BurstOp => m_bank_row[o_ram.bank] = o_ram.req.addr.row
  /\ o_ram.op = "read" => ~o_ram_dmod /\ o_ram_dqm[1] = "open"
  /\ o_ram.op = "write" => o_ram_dmod /\ {o_ram_data, o_ram_dqm} = {Half(o_ram.req, 1)}
  /\ m_next_wr # Nothing => o_ram_dmod /\ {o_ram_data, o_ram_dqm} = {Half(m_next_wr, 2)}

(***************************************************************************)
(* Every request is answered once, and none of an abandoned cycle          *)
(* (wbsdram.v's f_outstanding).                                            *)
(***************************************************************************)
OneAnswerEach ==
  owed = Cardinality(r_barrell_ack)
         + (IF r_pending /\ o_ram.op \notin BurstOp THEN 1 ELSE 0)

(***************************************************************************)
(* A refresh that is due is on the wires soon, however busy the bus is:    *)
(* 8192 of them take less than the 64 ms the chip allows.                  *)
(***************************************************************************)
RefreshInTime == late <= 9

(***************************************************************************)
(* Whatever the banks are in the middle of, no request waits longer than   *)
(* F_MAX_STALL clocks to be taken (wbsdram.v gives fwb_slave that bound).  *)
(***************************************************************************)
StallBounded == stalled <= MaxStall
=============================================================================
