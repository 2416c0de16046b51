---------------------------- MODULE WbSdram_proof ----------------------------
(***************************************************************************)
(* Proofs about the SDRAM controller and its chip, for any number of banks *)
(* and rows, every time between refreshes and every startup.               *)
(***************************************************************************)
EXTENDS WbSdram, FiniteSetTheorems, TLAPS

-----------------------------------------------------------------------------
(* What a command does to a bank, in the controller's copy of its state    *)
(* and in the chip.                                                        *)

After(x, c, b) ==
  CASE c.op = "activate" /\ c.bank = b -> Opened(x)
    [] c.op = "prechargeall" \/ (c.op = "precharge" /\ c.bank = b) -> Closed(x)
    [] OTHER -> Stays(x)

\* Closed, closing, opening and open.
BankStates == {0, 1, 3, 4, 6, 7}

Ops == {"nop", "deselect", "refresh", "activate", "precharge", "prechargeall", "read", "write"}

Own == r_req.addr.bank

Types ==
  /\ refresh_clk \in Nat /\ in_refresh_clk \in 0 .. 6
  /\ need_refresh \in BOOLEAN /\ in_refresh \in BOOLEAN
  /\ r_pending \in BOOLEAN /\ r_req \in Request \cup {Nothing}
  /\ r_bank_valid \in BOOLEAN /\ fwd_bank_valid \in BOOLEAN /\ o_wb_stall \in BOOLEAN
  /\ bank_active \in [Bank -> BankStates] /\ bank_row \in [Bank -> Row] /\ clocks_til_idle \in 0 .. 4
  /\ nxt_dmod \in BOOLEAN /\ o_ram_dmod \in BOOLEAN /\ maintenance_mode \in BOOLEAN
  /\ m_bank_status \in [Bank -> BankStates] /\ m_bank_row \in [Bank -> Row]
  /\ rested \in 0 .. RefreshTime

(***************************************************************************)
(* While the chip is set up: the steps of the controller and of the chip   *)
(* keep pace, and nothing else has begun.                                  *)
(***************************************************************************)
Quiet(op) == op \in {"nop", "deselect"}

Waking ==
  /\ m_pwrup = 0 /\ startup_idle = m_clocks_till_idle + 1 /\ startup_hold
  /\ m_clocks_till_idle \in Nat
  /\ m_state = "POWER_UP" /\ Quiet(o_ram.op) /\ Quiet(m_ram.op)

Waiting ==
  /\ m_pwrup = 1 /\ startup_idle \in Nat /\ m_clocks_till_idle \in Nat
  /\ \/ m_state = "POWER_UP" /\ Quiet(o_ram.op) /\ Quiet(m_ram.op)
     \/ /\ m_state = "INITIAL_REFRESH" /\ maintenance_clocks = 10
        /\ m_ram.op = "prechargeall" /\ Quiet(o_ram.op)
     \/ /\ m_state = "INITIAL_REFRESH" /\ maintenance_clocks = 9
        /\ m_ram.op = "refresh" /\ o_ram.op = "prechargeall"

Refreshing ==
  /\ m_state = "INITIAL_REFRESH" /\ o_ram.op = "refresh" /\ m_ram.op = "refresh"
  /\ maintenance_clocks \in 0 .. 8 /\ m_clocks_till_idle = maintenance_clocks
  /\ m_pwrup = IF maintenance_clocks > 0 THEN 2 ELSE 3

Setting ==
  /\ m_pwrup = 3 /\ m_state = "SET_MODE" /\ m_clocks_till_idle = 0
  /\ \/ maintenance_clocks = 2 /\ o_ram.op = "refresh" /\ m_ram.op = "mode"
     \/ maintenance_clocks = 1 /\ o_ram.op = "mode" /\ m_ram.op = "deselect"

Settling ==
  /\ m_pwrup = 4 /\ m_state = "SET_MODE" /\ maintenance_clocks = 0
  /\ o_ram.op = "deselect" /\ m_ram.op = "deselect"

Asleep ==
  /\ \/ Waking \/ Waiting \/ Refreshing \/ Setting \/ (Settling /\ m_clocks_till_idle = 2)
  /\ \A b \in Bank : bank_active[b] = 0 /\ m_bank_status[b] = 0
  /\ bank_row = [b \in Bank |-> 0] /\ m_bank_row = [b \in Bank |-> 0]
  /\ clocks_til_idle = 0 /\ ~nxt_dmod /\ m_next_wr = Nothing
  /\ o_wb_stall /\ ~r_pending /\ ~r_bank_valid /\ r_barrell_ack = {}
  /\ owed = 0 /\ late = 0 /\ stalled = 0

(***************************************************************************)
(* The timers of a refresh: the chip has rested when in_refresh is down.   *)
(***************************************************************************)
Timed ==
  /\ need_refresh => refresh_clk = 0
  /\ in_refresh_clk > 0 => in_refresh
  /\ in_refresh => refresh_clk >= in_refresh_clk + 6
  /\ \/ ~maintenance_mode \/ m_state = "SET_MODE"
     \/ m_state = "INITIAL_REFRESH" /\ maintenance_clocks < 8
     => in_refresh_clk = RefreshTime - rested

(***************************************************************************)
(* Once it is set up: the chip is where the controller was a clock ago.    *)
(***************************************************************************)
Shadowed ==
  /\ \/ m_pwrup = 6
     \/ /\ Settling /\ m_clocks_till_idle = 1 /\ m_next_wr = Nothing
        /\ \A b \in Bank : bank_active[b] = 0 /\ m_bank_status[b] = 0
  /\ \A b \in Bank : bank_active[b] = After(m_bank_status[b], o_ram, b)
  /\ bank_row = IF o_ram.op = "activate" THEN [m_bank_row EXCEPT ![o_ram.bank] = o_ram.row]
                ELSE m_bank_row

\* What is on the command wires is sound.
Sound ==
  /\ o_ram.op \in Ops
  /\ o_ram.op \in {"activate", "precharge"} => o_ram.bank \in Bank /\ o_ram.row \in Row
  /\ o_ram.op = "activate" => m_bank_status[o_ram.bank] = 0 /\ rested = RefreshTime
  /\ o_ram.op = "refresh" =>
       /\ \A b \in Bank : m_bank_status[b] = 0
       /\ in_refresh \/ need_refresh \/ ~r_pending
  /\ o_ram.op \in BurstOp =>
       /\ o_ram.req = r_req /\ o_ram.bank = Own /\ (r_req.we <=> o_ram.op = "write")
       /\ m_bank_status[Own] \in {6, 7} /\ m_bank_row[Own] = r_req.addr.row
       /\ r_pending /\ ~o_wb_stall
  /\ in_refresh \/ o_ram.op = "refresh" =>
       clocks_til_idle = 0 /\ \A b \in Bank : bank_active[b] = 0

\* The halves of a word are on the data wires when they are wanted.
Driven ==
  /\ nxt_dmod <=> o_ram.op = "write"
  /\ o_ram.op = "write" =>
       /\ clocks_til_idle = 1 /\ o_ram_dmod
       /\ o_ram_data = Half(r_req, 1) /\ o_ram_dqm = Half(r_req, 1)
  /\ o_ram.op = "read" => clocks_til_idle = 4 /\ ~o_ram_dmod /\ o_ram_dqm[1] = "open"
  /\ m_next_wr # Nothing =>
       o_ram_dmod /\ o_ram_data = Half(m_next_wr, 2) /\ o_ram_dqm = Half(m_next_wr, 2)

\* r_bank_valid, a clock old, is still right of a bank that is open.
Remembered ==
  /\ r_bank_valid /\ IsOpen(Own) => bank_active[Own] \in {6, 7} /\ HasRow(r_req.addr)
  /\ HasRow(r_req.addr) /\ bank_active[Own] \in {6, 7} => r_bank_valid
  /\ bank_active[Own] \in {0, 1} => ~r_bank_valid
  /\ r_pending /\ ~o_wb_stall => o_ram.op \in BurstOp

\* The answers on their way.
Answering ==
  /\ r_barrell_ack \subseteq 0 .. RDLY - 1
  /\ \A n \in r_barrell_ack : n >= 2 => n <= RDLY - 5 + clocks_til_idle
  /\ OneAnswerEach

Awake == Shadowed /\ Sound /\ Driven /\ Remembered /\ Answering

\* The inductive invariant.
SdramInv == Types /\ Timed /\ IF maintenance_mode THEN Asleep ELSE Awake

-----------------------------------------------------------------------------
(* Facts about the sizes and the operators.                                *)

LEMMA Sizes ==
  /\ Banks \in Nat /\ Banks >= 2 /\ Rows \in Nat /\ Rows >= 1 /\ 0 \in Bank /\ 0 \in Row
  /\ Every \in Nat /\ Every >= 12 /\ Startup \in Nat /\ Startup >= 1 /\ RDLY \in 5 .. 6
  BY SizeAssumption, TimeAssumption DEF Bank, Row

\* The next bank is another one, and the next row is a row.
LEMMA Forward ==
  ASSUME NEW a, a.bank \in Bank, a.row \in Row, a.col \in 0 .. 2
  PROVE  Fwd(a).bank \in Bank /\ Fwd(a).row \in Row /\ (a.col > 0 => Fwd(a).bank # a.bank)
<1> DEFINE m == (a.bank + 1) % Banks
           r == (a.row + 1) % Rows
<1>1. m \in Bank /\ m # a.bank
  <2>1. PICK n \in Nat, k \in Nat : n = Banks /\ n >= 2 /\ k = a.bank /\ k < n
    BY Sizes DEF Bank
  <2>2. CASE k + 1 = n
    <3>1. n % n = 0
      BY <2>1, SMTT(30)
    <3> QED
      BY <2>1, <2>2, <3>1, Sizes DEF Bank
  <2>3. CASE k + 1 < n
    <3>1. (k + 1) % n = k + 1
      BY <2>1, <2>3, SMTT(30)
    <3> QED
      BY <2>1, <2>3, <3>1 DEF Bank
  <2> QED
    BY <2>1, <2>2, <2>3
<1>2. r \in Row
  <2>1. PICK n \in Nat \ {0}, k \in Nat : n = Rows /\ k = a.row /\ k < n
    BY Sizes DEF Row
  <2>2. (k + 1) % n \in 0 .. n - 1
    BY SMTT(30)
  <2> QED
    BY <2>1, <2>2 DEF Row
<1> HIDE DEF m, r
<1>3. Fwd(a) = [bank |-> IF a.col > 0 THEN m ELSE a.bank,
                row |-> IF a.col > 0 /\ a.bank = Banks - 1 THEN r ELSE a.row]
  BY DEF Fwd, m, r
<1> QED
  BY <1>1, <1>2, <1>3

LEMMA RequestType ==
  ASSUME NEW q \in Request \cup {Nothing}
  PROVE  q.addr.bank \in Bank /\ q.addr.row \in Row /\ q.addr.col \in 0 .. 2 /\ q.we \in BOOLEAN
<1>1. CASE q = Nothing
  BY <1>1, Sizes DEF Nothing
<1>2. CASE q \in [we : {TRUE}, addr : Addr, data : Value]
  BY <1>2, SizeAssumption DEF Addr
<1>3. CASE \E a \in Addr : q = [we |-> FALSE, addr |-> a, data |-> "none"]
  <2>1. PICK a \in Addr : q = [we |-> FALSE, addr |-> a, data |-> "none"]
    BY <1>3
  <2>2. a.bank \in Bank /\ a.row \in Row /\ a.col \in 0 .. 2
    BY SizeAssumption DEF Addr
  <2> QED
    BY <2>1, <2>2
<1> QED
  BY <1>1, <1>2, <1>3 DEF Request

\* What a command does to the state of a bank.
LEMMA AfterIs ==
  ASSUME NEW x \in BankStates, NEW c, NEW k
  PROVE  /\ c.op = "activate" /\ c.bank = k /\ x = 0 => After(x, c, k) = 4
         /\ c.op = "prechargeall" \/ (c.op = "precharge" /\ c.bank = k) =>
              After(x, c, k) = IF x < 2 THEN 0 ELSE IF x < 4 THEN 1 ELSE IF x < 6 THEN 2 ELSE 3
         /\ ~(c.op = "activate" /\ c.bank = k) /\ c.op # "prechargeall"
            /\ ~(c.op = "precharge" /\ c.bank = k) =>
              After(x, c, k) = IF x < 2 THEN 0 ELSE IF x < 4 THEN 1 ELSE IF x < 6 THEN 6 ELSE 7
<1>1. x \div 2 = IF x < 2 THEN 0 ELSE IF x < 4 THEN 1 ELSE IF x < 6 THEN 2 ELSE 3
  BY DEF BankStates
<1> QED
  BY <1>1 DEF After, Opened, Closed, Stays, BankStates

\* The chip does the same, from its own state.
LEMMA ChipDoes ==
  ASSUME NEW y \in BankStates, NEW c, NEW k
  PROVE  After(y, c, k) =
           (CASE c.op = "activate" /\ c.bank = k -> 4 + (Stays(y) % 4)
              [] c.op = "prechargeall" \/ (c.op = "precharge" /\ c.bank = k) -> Stays(y) % 4
              [] OTHER -> Stays(y))
<1>1. /\ y \div 2 = IF y < 2 THEN 0 ELSE IF y < 4 THEN 1 ELSE IF y < 6 THEN 2 ELSE 3
      /\ Stays(y) = IF y < 2 THEN 0 ELSE IF y < 4 THEN 1 ELSE IF y < 6 THEN 6 ELSE 7
  BY DEF BankStates, Stays, Opened, Closed
<1>2. Stays(y) % 4 = y \div 2
  BY <1>1 DEF BankStates
<1> QED
  BY <1>2 DEF After, Opened, Closed

-----------------------------------------------------------------------------
(* What the controller decides, and when.                                  *)

Stuck(cyc) ==
  ~(Activates(cyc) \/ Precharges(cyc) \/ Reads(cyc) \/ Writes(cyc))

\* One of the cases of Decision; the fields of the command with it.
Decided(c, cyc) ==
  \/ c = Simple("prechargeall") /\ PrechargesAll(cyc)
  \/ c = Simple("refresh") /\ Refreshes(cyc)
  \/ c = Command("activate", Own, r_req.addr.row, Nothing) /\ Activates(cyc)
  \/ c = Command("precharge", Own, 0, Nothing) /\ Precharges(cyc)
  \/ c = Command("read", Own, 0, r_req) /\ Reads(cyc)
  \/ c = Command("write", Own, 0, r_req) /\ Writes(cyc)
  \/ c = Command("precharge", Fwd(r_req.addr).bank, 0, Nothing) /\ ClosesAhead(cyc)
  \/ c = Command("activate", Fwd(r_req.addr).bank, Fwd(r_req.addr).row, Nothing) /\ OpensAhead(cyc)
  \/ c = Nop /\ ~PrechargesAll(cyc) /\ ~Refreshes(cyc) /\ Stuck(cyc)

LEMMA Decides == ASSUME NEW cyc \in BOOLEAN PROVE Decided(Decision(cyc), cyc)
<1> DEFINE works == Activates(cyc) \/ Precharges(cyc) \/ Reads(cyc) \/ Writes(cyc)
                    \/ ClosesAhead(cyc) \/ OpensAhead(cyc)
<1>0. PrechargesAll(cyc) \/ Refreshes(cyc) => ~works
  BY DEF PrechargesAll, Refreshes, Closing, Activates, Precharges, Reads, Writes, ClosesAhead,
         OpensAhead, LooksAhead, Works
<1>1. CASE PrechargesAll(cyc)
  <2>1. ~Refreshes(cyc)
    BY <1>1 DEF PrechargesAll, Refreshes, IsOpen
  <2> QED
    BY <1>0, <1>1, <2>1 DEF Decision, Decided
<1>2. CASE Refreshes(cyc) /\ ~PrechargesAll(cyc)
  BY <1>0, <1>2 DEF Decision, Decided
<1>3. CASE ~PrechargesAll(cyc) /\ ~Refreshes(cyc)
  BY <1>3 DEF Decision, Decided, Own, Stuck, LooksAhead, ClosesAhead, OpensAhead
<1> QED
  BY <1>1, <1>2, <1>3

(***************************************************************************)
(* Each command, and what the controller's registers say when it is given. *)
(***************************************************************************)
LEMMA Given ==
  ASSUME Types, NEW cyc \in BOOLEAN, NEW c, Decided(c, cyc)
  PROVE  /\ c.op \in Ops /\ c.op # "deselect" /\ c.bank \in Bank /\ c.row \in Row
         /\ c.op \in {"activate", "precharge", "read", "write"} => Works(cyc) /\ r_pending
         /\ c.op = "activate" => bank_active[c.bank] = 0
         /\ c.op = "precharge" => bank_active[c.bank] \in {6, 7}
         /\ c.op = "prechargeall" => PrechargesAll(cyc)
         /\ c.op = "refresh" => Refreshes(cyc)
         /\ c.op \in BurstOp => /\ pending /\ IsOpen(Own) /\ r_bank_valid
                                /\ c.bank = Own /\ c.req = r_req /\ (r_req.we <=> c.op = "write")
                                /\ c.op = "write" => clocks_til_idle = 0
         /\ c.bank = Own /\ c.op = "precharge" => ~r_bank_valid \/ Fwd(r_req.addr).bank = Own
<1> DEFINE f == Fwd(r_req.addr)
<1>1. /\ Own \in Bank /\ r_req.addr.row \in Row /\ f.bank \in Bank /\ f.row \in Row
      /\ 0 \in Bank /\ 0 \in Row /\ r_req.we \in BOOLEAN
  BY RequestType, Forward, Sizes DEF Types, Own
<1> HIDE DEF f
<1>2. CASE c = Simple("prechargeall") /\ PrechargesAll(cyc)
  BY <1>1, <1>2 DEF Simple, Command, Ops, BurstOp
<1>3. CASE c = Simple("refresh") /\ Refreshes(cyc)
  BY <1>1, <1>3 DEF Simple, Command, Ops, BurstOp
<1>4. CASE c = Command("activate", Own, r_req.addr.row, Nothing) /\ Activates(cyc)
  BY <1>1, <1>4 DEF Command, Ops, BurstOp, Activates, pending, Own
<1>5. CASE c = Command("precharge", Own, 0, Nothing) /\ Precharges(cyc)
  BY <1>1, <1>5 DEF Command, Ops, BurstOp, Precharges, pending, Own
<1>6. CASE c = Command("read", Own, 0, r_req) /\ Reads(cyc)
  BY <1>1, <1>6 DEF Command, Ops, BurstOp, Reads, pending, Own
<1>7. CASE c = Command("write", Own, 0, r_req) /\ Writes(cyc)
  BY <1>1, <1>7 DEF Command, Ops, BurstOp, Writes, pending, Own
<1>8. CASE c = Command("precharge", f.bank, 0, Nothing) /\ ClosesAhead(cyc)
  BY <1>1, <1>8 DEF Command, Ops, BurstOp, ClosesAhead, LooksAhead, f
<1>9. CASE c = Command("activate", f.bank, f.row, Nothing) /\ OpensAhead(cyc)
  BY <1>1, <1>9 DEF Command, Ops, BurstOp, OpensAhead, LooksAhead, f
<1>10. CASE c = Nop
  BY <1>1, <1>10 DEF Nop, Simple, Command, Ops, BurstOp
<1> QED
  BY <1>2, <1>3, <1>4, <1>5, <1>6, <1>7, <1>8, <1>9, <1>10 DEF Decided, f

-----------------------------------------------------------------------------
(* One clock, while the chip is set up and after.                          *)

LEMMA TimersStep ==
  ASSUME Types, Timed, NEW cyc, NEW new, RefreshTimers, History(cyc, new)
  PROVE  /\ refresh_clk' \in Nat /\ in_refresh_clk' \in 0 .. 6 /\ rested' \in 0 .. RefreshTime
         /\ need_refresh' \in BOOLEAN /\ in_refresh' \in BOOLEAN
         /\ need_refresh' <=> refresh_clk = 0 /\ ~refresh_cmd
         /\ in_refresh' <=> in_refresh_clk # 0 \/ refresh_cmd
         /\ refresh_cmd => refresh_clk' = Every /\ in_refresh_clk' = 6 /\ rested' = 0
         /\ ~refresh_cmd /\ refresh_clk = 0 => refresh_clk' = 0
         /\ ~refresh_cmd /\ refresh_clk > 0 => refresh_clk' = refresh_clk - 1
         /\ ~refresh_cmd /\ in_refresh_clk = 0 => in_refresh_clk' = 0
         /\ ~refresh_cmd /\ in_refresh_clk > 0 => in_refresh_clk' = in_refresh_clk - 1
         /\ ~refresh_cmd /\ rested = 6 => rested' = 6
         /\ ~refresh_cmd /\ rested < 6 => rested' = rested + 1
         /\ need_refresh' => refresh_clk' = 0
         /\ in_refresh_clk' > 0 => in_refresh'
         /\ in_refresh' => refresh_clk' >= in_refresh_clk' + 6
<1>1. need_refresh' \in BOOLEAN /\ (need_refresh' <=> refresh_clk = 0 /\ ~refresh_cmd)
  BY ZenonT(30) DEF RefreshTimers
<1>2. in_refresh' \in BOOLEAN /\ (in_refresh' <=> in_refresh_clk # 0 \/ refresh_cmd)
  BY ZenonT(30) DEF RefreshTimers
<1>3. /\ refresh_cmd => refresh_clk' = Every /\ in_refresh_clk' = 6 /\ rested' = 0
      /\ ~refresh_cmd /\ refresh_clk = 0 => refresh_clk' = 0
      /\ ~refresh_cmd /\ refresh_clk > 0 => refresh_clk' = refresh_clk - 1
      /\ ~refresh_cmd /\ in_refresh_clk = 0 => in_refresh_clk' = 0
      /\ ~refresh_cmd /\ in_refresh_clk > 0 => in_refresh_clk' = in_refresh_clk - 1
      /\ ~refresh_cmd /\ rested = 6 => rested' = 6
      /\ ~refresh_cmd /\ rested < 6 => rested' = rested + 1
  BY DEF RefreshTimers, History, Types, RefreshTime
<1>4. refresh_clk' \in Nat /\ in_refresh_clk' \in 0 .. 6 /\ rested' \in 0 .. RefreshTime
  BY <1>3, Sizes DEF Types, RefreshTime
<1>5. in_refresh' => refresh_clk' >= in_refresh_clk' + 6
  BY <1>2, <1>3, Sizes DEF Types, Timed
<1>6. (need_refresh' => refresh_clk' = 0) /\ (in_refresh_clk' > 0 => in_refresh')
  BY <1>1, <1>2, <1>3 DEF Types
<1> QED
  BY <1>1, <1>2, <1>3, <1>4, <1>5, <1>6

\* The registers of the request, as propositions.
LEMMA RequestStep ==
  ASSUME Types, NEW cyc \in BOOLEAN, NEW new \in Request \cup {Nothing}, Requested(cyc, new)
  PROVE  /\ r_pending' \in BOOLEAN /\ r_bank_valid' \in BOOLEAN /\ fwd_bank_valid' \in BOOLEAN
         /\ r_pending' <=> Takes(new) \/ (r_pending /\ o_ram.op \notin BurstOp /\ cyc)
         /\ r_req' = IF Takes(new) THEN new ELSE r_req
         /\ r_req' \in Request \cup {Nothing}
         /\ r_bank_valid' <=> HasRow(r_req'.addr)
<1>1. /\ r_pending' \in BOOLEAN
      /\ r_pending' <=> Takes(new) \/ (r_pending /\ o_ram.op \notin BurstOp /\ cyc)
  BY ZenonT(30) DEF Requested
<1>2. r_bank_valid' \in BOOLEAN /\ fwd_bank_valid' \in BOOLEAN
  BY ZenonT(30) DEF Requested, HasRow
<1>3. r_req' = IF Takes(new) THEN new ELSE r_req
  BY DEF Requested
<1>4. r_bank_valid' <=> HasRow(IF Takes(new) THEN new.addr ELSE r_req.addr)
  BY ZenonT(30) DEF Requested
<1>5. (IF Takes(new) THEN new.addr ELSE r_req.addr) = r_req'.addr
  BY <1>3
<1> QED
  BY <1>1, <1>2, <1>3, <1>4, <1>5 DEF Types

LEMMA SleepStep ==
  ASSUME Types, Timed, maintenance_mode, Asleep,
         NEW cyc \in BOOLEAN, NEW new \in Request \cup {Nothing}, Clock(cyc, new)
  PROVE  SdramInv'
<1>1. Maintain(cyc, new) /\ RefreshTimers /\ Requested(cyc, new) /\ Data
      /\ (ChipStartsUp \/ ChipOperates) /\ History(cyc, new)
  BY DEF Clock, Operate
<1>2. /\ new = Nothing /\ o_ram' = m_ram /\ bank_active' = [b \in Bank |-> 0]
      /\ r_barrell_ack' = {} /\ o_wb_stall' /\ ~nxt_dmod' /\ ~o_ram_dmod'
      /\ bank_row' = bank_row /\ clocks_til_idle' = clocks_til_idle
  BY <1>1 DEF Maintain
<1>3. /\ o_wb_stall' \in BOOLEAN /\ nxt_dmod' \in BOOLEAN /\ o_ram_dmod' \in BOOLEAN
  BY <1>1 DEF Maintain
<1>4. maintenance_mode' \in BOOLEAN /\ (maintenance_mode' <=> ~(m_state = "SET_MODE" /\ maintenance_clocks = 0))
  BY <1>1, ZenonT(30) DEF Maintain, StartUp
<1>5. /\ startup_idle' = IF startup_idle > 0 THEN startup_idle - 1 ELSE 0
      /\ startup_hold' <=> startup_idle > 0
  BY <1>1, ZenonT(30) DEF Maintain, StartUp
<1>6. /\ m_state = "POWER_UP" /\ startup_hold => m_state' = "POWER_UP" /\ m_ram'.op = "nop"
      /\ m_state = "POWER_UP" /\ ~startup_hold =>
           m_state' = "INITIAL_REFRESH" /\ maintenance_clocks' = 10 /\ m_ram'.op = "prechargeall"
      /\ m_state = "INITIAL_REFRESH" /\ maintenance_clocks > 0 =>
           m_state' = "INITIAL_REFRESH" /\ maintenance_clocks' = maintenance_clocks - 1 /\ m_ram'.op = "refresh"
      /\ m_state = "INITIAL_REFRESH" /\ maintenance_clocks = 0 =>
           m_state' = "SET_MODE" /\ maintenance_clocks' = 2 /\ m_ram'.op = "mode"
      /\ m_state = "SET_MODE" => m_state' = "SET_MODE" /\ m_ram'.op = "deselect"
           /\ maintenance_clocks' = IF maintenance_clocks > 0 THEN maintenance_clocks - 1 ELSE 0
  <2>1. \A s : Simple(s).op = s
    BY DEF Simple, Command
  <2>2. StartUp
    BY <1>1 DEF Maintain
  <2>3. CASE m_state = "POWER_UP" /\ startup_hold
    BY <2>1, <2>2, <2>3 DEF StartUp
  <2>4. CASE m_state = "POWER_UP" /\ ~startup_hold
    BY <2>1, <2>2, <2>4 DEF StartUp
  <2>5. CASE m_state = "INITIAL_REFRESH" /\ maintenance_clocks > 0
    <3>1. maintenance_clocks \in 0 .. 10
      BY <2>5 DEF Asleep, Waking, Waiting, Refreshing, Setting, Settling
    <3>2. ~(maintenance_clocks = 0) /\ maintenance_clocks > 0
      BY <2>5, <3>1
    <3>3. /\ m_state' = "INITIAL_REFRESH" /\ m_ram' = Simple("refresh")
          /\ maintenance_clocks' = IF maintenance_clocks > 0 THEN maintenance_clocks - 1 ELSE 0
      BY <2>2, <2>5, <3>2 DEF StartUp
    <3> QED
      BY <2>1, <2>5, <3>2, <3>3
  <2>6. CASE m_state = "INITIAL_REFRESH" /\ maintenance_clocks = 0
    BY <2>1, <2>2, <2>6 DEF StartUp
  <2>7. CASE m_state = "SET_MODE"
    BY <2>1, <2>2, <2>7 DEF StartUp
  <2> QED
    BY <2>3, <2>4, <2>5, <2>6, <2>7
<1>7. m_pwrup < 6 /\ ChipStartsUp
  <2>1. m_pwrup < 6 /\ m_pwrup # 6
    BY DEF Asleep, Waking, Waiting, Refreshing, Setting, Settling
  <2> QED
    BY <1>1, <2>1 DEF ChipOperates
<1> DEFINE left == IF m_clocks_till_idle > 0 THEN m_clocks_till_idle - 1 ELSE 0
<1>8. /\ m_pwrup = 0 => m_pwrup' = (IF left = 0 THEN 1 ELSE 0) /\ m_clocks_till_idle' = left
      /\ m_pwrup = 1 => IF o_ram.op = "prechargeall" THEN m_pwrup' = 2 /\ m_clocks_till_idle' = 8
                        ELSE m_pwrup' = 1 /\ m_clocks_till_idle' = left
      /\ m_pwrup = 2 => m_pwrup' = (IF left = 0 THEN 3 ELSE 2) /\ m_clocks_till_idle' = left
      /\ m_pwrup = 3 => IF o_ram.op = "mode" THEN m_pwrup' = 4 /\ m_clocks_till_idle' = 2
                        ELSE m_pwrup' = 3 /\ m_clocks_till_idle' = left
      /\ m_pwrup = 4 => m_pwrup' = (IF left = 0 THEN 6 ELSE 4) /\ m_clocks_till_idle' = left
  <2>1. CASE m_pwrup = 0
    BY <1>7, <2>1 DEF ChipStartsUp
  <2>2. CASE m_pwrup = 1
    BY <1>7, <2>2 DEF ChipStartsUp
  <2>3. CASE m_pwrup = 2
    BY <1>7, <2>3 DEF ChipStartsUp
  <2>4. CASE m_pwrup = 3
    BY <1>7, <2>4 DEF ChipStartsUp
  <2>5. CASE m_pwrup = 4
    BY <1>7, <2>5 DEF ChipStartsUp
  <2> QED
    BY <2>1, <2>2, <2>3, <2>4, <2>5
<1>9. /\ m_bank_status' = m_bank_status /\ m_bank_row' = m_bank_row /\ m_next_wr' = m_next_wr
  BY <1>7 DEF ChipStartsUp
<1>10. /\ ~Takes(new) /\ ~r_pending' /\ r_req' = r_req /\ r_req \in Request \cup {Nothing}
       /\ ~r_bank_valid' /\ r_bank_valid' \in BOOLEAN /\ fwd_bank_valid' \in BOOLEAN /\ r_pending' \in BOOLEAN
  <2>1. ~Takes(new) /\ ~r_pending
    BY <1>2 DEF Takes, Asleep
  <2>2. ~HasRow(r_req.addr)
    BY RequestType DEF Asleep, HasRow, IsOpen, Types
  <2> QED
    BY <1>1, <2>1, <2>2, RequestStep DEF Types
<1>11. owed' = 0 /\ late' = 0 /\ stalled' = 0
  BY <1>1, <1>10 DEF History, Asleep, Takes
<1> DEFINE Steps == Waking \/ Waiting \/ Refreshing \/ Setting
<1> HIDE DEF left
<1>12. left = IF m_clocks_till_idle > 0 THEN m_clocks_till_idle - 1 ELSE 0
  BY DEF left
<1>13. IF maintenance_mode' THEN Steps' \/ (Settling' /\ m_clocks_till_idle' = 2)
                            ELSE Settling' /\ m_clocks_till_idle' = 1
  <2>1. CASE Waking
    <3>1. CASE m_clocks_till_idle > 1
      <4>1. Waking'
        BY <1>2, <1>5, <1>6, <1>8, <1>12, <2>1, <3>1 DEF Waking, Quiet
      <4> QED
        BY <4>1, <1>4, <2>1 DEF Waking
    <3>2. CASE m_clocks_till_idle \in 0 .. 1
      <4>1. Waiting'
        BY <1>2, <1>5, <1>6, <1>8, <1>12, <2>1, <3>2 DEF Waking, Waiting, Quiet
      <4> QED
        BY <4>1, <1>4, <2>1 DEF Waking
    <3> QED
      BY <2>1, <3>1, <3>2 DEF Waking
  <2>2. CASE Waiting
    <3>1. CASE m_state = "INITIAL_REFRESH" /\ maintenance_clocks = 9
      BY <1>2, <1>4, <1>6, <1>8, <2>2, <3>1 DEF Waiting, Refreshing
    <3>2. CASE ~(m_state = "INITIAL_REFRESH" /\ maintenance_clocks = 9)
      BY <1>2, <1>4, <1>5, <1>6, <1>8, <1>12, <2>2, <3>2 DEF Waiting, Quiet
    <3> QED
      BY <3>1, <3>2
  <2>3. CASE Refreshing
    BY <1>2, <1>4, <1>6, <1>8, <1>12, <2>3 DEF Refreshing, Setting
  <2>4. CASE Setting
    BY <1>2, <1>4, <1>6, <1>8, <1>12, <2>4 DEF Setting, Settling
  <2>5. CASE Settling /\ m_clocks_till_idle = 2
    BY <1>2, <1>4, <1>6, <1>8, <1>12, <2>5 DEF Settling
  <2> QED
    BY <2>1, <2>2, <2>3, <2>4, <2>5 DEF Asleep
<1>14. Types'
  <2>1. bank_active' \in [Bank -> BankStates] /\ bank_row' \in [Bank -> Row] /\ clocks_til_idle' \in 0 .. 4
    BY <1>2 DEF Types, BankStates
  <2>2. m_bank_status' \in [Bank -> BankStates] /\ m_bank_row' \in [Bank -> Row]
    BY <1>9 DEF Types
  <2> QED
    BY <1>1, <1>3, <1>4, <1>10, <2>1, <2>2, TimersStep DEF Types
<1>15. Timed'
  <2>1. \/ ~maintenance_mode' \/ m_state' = "SET_MODE"
        \/ m_state' = "INITIAL_REFRESH" /\ maintenance_clocks' < 8
        => in_refresh_clk' = RefreshTime - rested'
    <3>1. CASE Refreshing
      BY <1>1, <3>1, TimersStep DEF Refreshing, RefreshTime, refresh_cmd
    <3>2. CASE m_state = "SET_MODE"
      <4>1. in_refresh_clk = RefreshTime - rested
        BY <3>2 DEF Timed
      <4> QED
        BY <1>1, <4>1, TimersStep DEF Types, RefreshTime
    <3>3. CASE Waking \/ Waiting
      <4>1. maintenance_mode' /\ m_state' # "SET_MODE"
        BY <1>4, <1>6, <3>3 DEF Waking, Waiting
      <4>2. m_state' = "INITIAL_REFRESH" => maintenance_clocks' \in 8 .. 10
        BY <1>6, <3>3 DEF Waking, Waiting
      <4> QED
        BY <4>1, <4>2
    <3> QED
      BY <3>1, <3>2, <3>3 DEF Asleep, Setting, Settling
  <2> QED
    BY <1>1, <2>1, TimersStep DEF Timed
<1>16. CASE maintenance_mode'
  <2>1. Asleep'
    BY <1>2, <1>9, <1>10, <1>11, <1>13, <1>16 DEF Asleep
  <2> QED
    BY <1>14, <1>15, <1>16, <2>1 DEF SdramInv
<1>17. CASE ~maintenance_mode'
  <2>1. /\ Settling' /\ m_clocks_till_idle' = 1 /\ o_ram'.op = "deselect"
        /\ \A b \in Bank : bank_active'[b] = 0 /\ m_bank_status'[b] = 0
        /\ m_next_wr' = Nothing
    BY <1>2, <1>9, <1>13, <1>17 DEF Settling, Asleep
  <2>2. Shadowed'
    <3>1. ASSUME NEW b \in Bank PROVE bank_active'[b] = After(m_bank_status'[b], o_ram', b)
      BY <2>1, AfterIs DEF BankStates
    <3>2. bank_row' = m_bank_row'
      BY <1>2, <1>9 DEF Asleep
    <3> QED
      BY <2>1, <3>1, <3>2 DEF Shadowed
  <2>3. Sound'
    BY <1>2, <1>10, <2>1 DEF Sound, Ops, BurstOp, Asleep
  <2>4. Driven'
    BY <1>2, <1>9, <2>1 DEF Driven, Asleep
  <2>5. Remembered'
    <3>1. ~IsOpen(Own)'
      BY <1>14, <2>1, RequestType DEF IsOpen, Own, Types
    <3> QED
      BY <1>2, <1>10, <3>1 DEF Remembered, HasRow, Own
  <2>6. Answering'
    BY <1>2, <1>10, <1>11, FS_EmptySet DEF Answering, OneAnswerEach
  <2> QED
    BY <1>14, <1>15, <1>17, <2>2, <2>3, <2>4, <2>5, <2>6 DEF SdramInv, Awake
<1> QED
  BY <1>16, <1>17

(***************************************************************************)
(* The chip takes the state the controller has of it.                      *)
(***************************************************************************)
LEMMA ChipFollows ==
  ASSUME Types, Shadowed, ChipStartsUp \/ ChipOperates, Sound
  PROVE  /\ m_pwrup' = 6 /\ m_bank_status' = bank_active /\ m_bank_row' = bank_row
         /\ m_next_wr' = IF o_ram.op = "write" THEN o_ram.req ELSE Nothing
<1>1. CASE m_pwrup = 6
  <2>1. ChipOperates
    BY <1>1 DEF ChipStartsUp
  <2>2. ASSUME NEW b \in Bank PROVE m_bank_status'[b] = bank_active[b]
    <3>1. m_bank_status[b] \in BankStates
      BY DEF Types
    <3>2. m_bank_status'[b] =
            LET now == Stays(m_bank_status[b]) IN
            CASE o_ram.op = "activate" /\ o_ram.bank = b -> 4 + (now % 4)
              [] o_ram.op = "prechargeall" \/ (o_ram.op = "precharge" /\ o_ram.bank = b) -> now % 4
              [] OTHER -> now
      BY <2>1 DEF ChipOperates
    <3>3. m_bank_status'[b] = After(m_bank_status[b], o_ram, b)
      BY <3>1, <3>2, ChipDoes
    <3> QED
      BY <3>3 DEF Shadowed
  <2>3. m_bank_status' = bank_active
    <3>1. m_bank_status' = [b \in Bank |-> m_bank_status'[b]]
      BY <2>1 DEF ChipOperates
    <3>2. bank_active = [b \in Bank |-> bank_active[b]]
      BY DEF Types
    <3> QED
      BY <2>2, <3>1, <3>2
  <2> QED
    BY <1>1, <2>1, <2>3 DEF ChipOperates, Shadowed
<1>2. CASE Settling /\ m_clocks_till_idle = 1 /\ m_next_wr = Nothing
           /\ \A b \in Bank : bank_active[b] = 0 /\ m_bank_status[b] = 0
  <2>1. ChipStartsUp /\ m_pwrup = 4 /\ o_ram.op = "deselect"
    BY <1>2 DEF Settling, ChipOperates
  <2>2. m_pwrup' = 6
    BY <1>2, <2>1 DEF ChipStartsUp
  <2>3. m_bank_status' = bank_active
    BY <1>2, <2>1 DEF ChipStartsUp, Types
  <2> QED
    BY <1>2, <2>1, <2>2, <2>3 DEF ChipStartsUp, Shadowed
<1> QED
  BY <1>1, <1>2 DEF Shadowed

(***************************************************************************)
(* One clock of both at work: c is what is decided in it.                  *)
(***************************************************************************)
Issued(c, cyc, new) ==
  /\ Decided(c, cyc) /\ (Takes(new) => cyc /\ ~o_wb_stall)
  /\ o_ram' = c
  /\ bank_active' \in [Bank -> BankStates]
  /\ \A b \in Bank : bank_active'[b] = After(bank_active[b], c, b)
  /\ bank_row' = IF c.op = "activate" THEN [bank_row EXCEPT ![c.bank] = c.row] ELSE bank_row
  /\ clocks_til_idle' = BusyAfter(c)
  /\ r_barrell_ack' = AnswersAfter(c, cyc)
  /\ o_wb_stall' \in BOOLEAN /\ (o_wb_stall' <=> c.op \notin BurstOp /\ (r_pending \/ Takes(new)))
  /\ nxt_dmod' \in BOOLEAN /\ (nxt_dmod' <=> c.op = "write")
  /\ o_ram_dmod' \in BOOLEAN /\ (o_ram_dmod' <=> c.op = "write" \/ nxt_dmod)
  /\ o_ram_dmod' => o_ram_data' = Half(r_req, IF nxt_dmod THEN 2 ELSE 1)
  /\ o_ram_dqm' = IF r_req.we THEN Half(r_req, IF nxt_dmod THEN 2 ELSE 1) ELSE <<"open", 0>>
  /\ ~maintenance_mode' /\ maintenance_mode' \in BOOLEAN
  /\ m_pwrup' = 6 /\ m_bank_status' = bank_active /\ m_bank_row' = bank_row
  /\ m_next_wr' = IF o_ram.op = "write" THEN o_ram.req ELSE Nothing

LEMMA Issues ==
  ASSUME Types, Shadowed, Sound, ~maintenance_mode, NEW cyc \in BOOLEAN,
         NEW new \in Request \cup {Nothing}, Clock(cyc, new)
  PROVE  Issued(Decision(cyc), cyc, new)
<1> DEFINE c == Decision(cyc)
<1>1. Operate(cyc, new) /\ Data /\ (ChipStartsUp \/ ChipOperates)
  BY DEF Clock, Maintain
<1>2. Decided(c, cyc)
  BY Decides
<1> HIDE DEF c
<1>3. Issue(c, cyc, new) /\ (Takes(new) => cyc /\ ~o_wb_stall)
  BY <1>1 DEF Operate, c
<1>4. /\ o_wb_stall' \in BOOLEAN /\ (o_wb_stall' <=> c.op \notin BurstOp /\ (r_pending \/ Takes(new)))
      /\ nxt_dmod' \in BOOLEAN /\ (nxt_dmod' <=> c.op = "write")
      /\ o_ram_dmod' \in BOOLEAN /\ (o_ram_dmod' <=> c.op = "write" \/ nxt_dmod)
  BY <1>3, ZenonT(30) DEF Issue
<1>5. ASSUME NEW b \in Bank
      PROVE  bank_active'[b] = After(bank_active[b], c, b) /\ bank_active'[b] \in BankStates
  <2>1. bank_active[b] \in BankStates
    BY DEF Types
  <2>2. bank_active'[b] = After(bank_active[b], c, b)
    BY <1>3 DEF Issue, BanksAfter, After
  <2>3. c.op = "prechargeall" => bank_active[b] # 4
    BY <1>2, Given DEF PrechargesAll, Unsettled, JustOpened
  <2>4. c.op = "precharge" /\ c.bank = b => bank_active[b] \in {6, 7}
    BY <1>2, Given
  <2>5. c.op = "activate" /\ c.bank = b => bank_active[b] = 0
    BY <1>2, Given
  <2> QED
    BY <2>1, <2>2, <2>3, <2>4, <2>5, AfterIs DEF BankStates
<1>6. bank_active' \in [Bank -> BankStates]
  <2>1. bank_active' = [b \in Bank |-> bank_active'[b]]
    BY <1>3 DEF Issue, BanksAfter
  <2> QED
    BY <1>5, <2>1
<1>7. /\ o_ram_dmod' => o_ram_data' = Half(r_req, IF nxt_dmod THEN 2 ELSE 1)
      /\ o_ram_dqm' = IF r_req.we THEN Half(r_req, IF nxt_dmod THEN 2 ELSE 1) ELSE <<"open", 0>>
  BY <1>1 DEF Data
<1>8. ~maintenance_mode' /\ maintenance_mode' \in BOOLEAN
  BY <1>1 DEF Operate, maintenance, Types
<1>9. Issued(c, cyc, new)
  BY <1>1, <1>2, <1>3, <1>4, <1>5, <1>6, <1>7, <1>8, ChipFollows DEF Issued, Issue
<1> QED
  BY <1>9 DEF c

\* What the next lemmas start from.
OneClock(c, cyc, new) ==
  /\ Types /\ Timed /\ Awake /\ ~maintenance_mode
  /\ cyc \in BOOLEAN /\ new \in Request \cup {Nothing}
  /\ Issued(c, cyc, new) /\ RefreshTimers /\ Requested(cyc, new) /\ History(cyc, new)

LEMMA StepTypes ==
  ASSUME NEW c, NEW cyc, NEW new, OneClock(c, cyc, new)
  PROVE  Types' /\ Timed' /\ Shadowed'
<1>1. clocks_til_idle' \in 0 .. 4 /\ bank_row' \in [Bank -> Row]
  <2>1. c.row \in Row /\ c.bank \in Bank
    BY Given DEF OneClock, Issued
  <2> QED
    BY <2>1 DEF OneClock, Issued, BusyAfter, Types
<1>2. Types'
  BY <1>1, TimersStep, RequestStep DEF OneClock, Issued, Types
<1>3. in_refresh_clk' = RefreshTime - rested'
  BY TimersStep DEF OneClock, Timed, Types, RefreshTime
<1>4. Timed'
  BY <1>3, TimersStep DEF OneClock, Timed
<1>5. Shadowed'
  BY DEF OneClock, Issued, Shadowed
<1> QED
  BY <1>2, <1>4, <1>5

\* What is decided while the controller works on a request.
LEMMA Working ==
  ASSUME NEW c, NEW cyc, NEW new, OneClock(c, cyc, new)
  PROVE  /\ c.op \in {"activate", "precharge", "read", "write"} =>
              /\ Works(cyc) /\ r_pending /\ ~refresh_cmd /\ ~in_refresh /\ ~need_refresh
              /\ in_refresh_clk = 0 /\ rested = RefreshTime
         /\ c.op \in BurstOp =>
              /\ ~Takes(new) /\ r_req' = r_req /\ o_ram.op \notin BurstOp /\ cyc /\ ~nxt_dmod
              /\ bank_active[Own] \in {6, 7} /\ HasRow(r_req.addr)
<1>1. Types /\ cyc \in BOOLEAN /\ Decided(c, cyc)
  BY DEF OneClock, Issued
<1>2. ASSUME c.op \in {"activate", "precharge", "read", "write"}
      PROVE  /\ Works(cyc) /\ r_pending /\ ~refresh_cmd /\ ~in_refresh /\ ~need_refresh
             /\ in_refresh_clk = 0 /\ rested = RefreshTime
  <2>1. Works(cyc) /\ r_pending
    BY <1>1, <1>2, Given
  <2>2. ~refresh_cmd /\ ~in_refresh /\ ~need_refresh
    BY <2>1 DEF Works, OneClock, Awake, Sound, refresh_cmd
  <2>3. in_refresh_clk = 0
    BY <2>2 DEF OneClock, Timed, Types
  <2> QED
    BY <2>1, <2>2, <2>3 DEF OneClock, Timed, Types, RefreshTime
<1>3. ASSUME c.op \in BurstOp
      PROVE  /\ ~Takes(new) /\ r_req' = r_req /\ o_ram.op \notin BurstOp /\ cyc /\ ~nxt_dmod
             /\ bank_active[Own] \in {6, 7} /\ HasRow(r_req.addr)
  <2>1. pending /\ IsOpen(Own) /\ r_bank_valid
    BY <1>1, <1>3, Given
  <2>2. ~Takes(new) /\ o_ram.op \notin BurstOp
    BY <2>1 DEF pending, OneClock, Issued, Awake, Sound
  <2>3. Works(cyc)
    BY <1>2, <1>3 DEF BurstOp
  <2>4. r_req' = r_req
    BY <2>2, RequestStep DEF OneClock
  <2> QED
    BY <2>1, <2>2, <2>3, <2>4 DEF Works, OneClock, Awake, Remembered
<1> QED
  BY <1>2, <1>3

LEMMA StepSound ==
  ASSUME NEW c, NEW cyc, NEW new, OneClock(c, cyc, new)
  PROVE  Sound'
<1>1. /\ Types /\ cyc \in BOOLEAN /\ Decided(c, cyc) /\ o_ram' = c /\ Types'
      /\ m_bank_status' = bank_active /\ m_bank_row' = bank_row
  BY StepTypes DEF OneClock, Issued
<1>2. /\ o_ram'.op \in Ops
      /\ o_ram'.op \in {"activate", "precharge"} => o_ram'.bank \in Bank /\ o_ram'.row \in Row
  BY <1>1, Given
<1>3. o_ram'.op = "activate" => m_bank_status'[o_ram'.bank] = 0 /\ rested' = RefreshTime
  BY <1>1, Given, Working, TimersStep DEF OneClock, RefreshTime
<1>4. ASSUME o_ram'.op = "refresh"
      PROVE  (\A b \in Bank : m_bank_status'[b] = 0) /\ (in_refresh' \/ need_refresh' \/ ~r_pending')
  <2>1. Refreshes(cyc)
    BY <1>1, <1>4, Given
  <2>2. CASE ~cyc
    BY <1>1, <2>1, <2>2, RequestStep DEF OneClock, Issued, Refreshes
  <2>3. CASE need_refresh
    BY <1>1, <2>1, <2>3, TimersStep DEF OneClock, Timed, Refreshes
  <2> QED
    BY <2>1, <2>2, <2>3 DEF Refreshes, Closing
<1>5. ASSUME o_ram'.op \in BurstOp
      PROVE  /\ o_ram'.req = r_req' /\ o_ram'.bank = Own' /\ (r_req'.we <=> o_ram'.op = "write")
             /\ m_bank_status'[Own'] \in {6, 7} /\ m_bank_row'[Own'] = r_req'.addr.row
             /\ r_pending' /\ ~o_wb_stall'
  <2>1. c.op \in BurstOp /\ r_req' = r_req /\ o_ram.op \notin BurstOp /\ cyc
        /\ bank_active[Own] \in {6, 7} /\ HasRow(r_req.addr)
    BY <1>1, <1>5, Working
  <2>2. Own' = Own
    BY <2>1 DEF Own
  <2>3. c.req = r_req /\ c.bank = Own /\ (r_req.we <=> c.op = "write") /\ r_pending
    BY <1>1, <2>1, Given DEF BurstOp
  <2>4. r_pending' /\ ~o_wb_stall'
    BY <2>1, <2>3, RequestStep DEF OneClock, Issued
  <2> QED
    BY <1>1, <2>1, <2>2, <2>3, <2>4 DEF HasRow, Own
<1>6. ASSUME in_refresh' \/ o_ram'.op = "refresh"
      PROVE  clocks_til_idle' = 0 /\ \A b \in Bank : bank_active'[b] = 0
  <2>1. clocks_til_idle = 0 /\ \A b \in Bank : bank_active[b] = 0
    <3>1. CASE in_refresh \/ refresh_cmd
      BY <3>1 DEF OneClock, Awake, Sound, refresh_cmd
    <3>2. CASE ~in_refresh /\ ~refresh_cmd
      <4>1. ~in_refresh'
        BY <3>2, TimersStep DEF OneClock, Timed, Types
      <4>2. Refreshes(cyc)
        BY <1>1, <1>6, <4>1, Given
      <4> QED
        BY <1>1, <4>2 DEF Refreshes, Unsettled, Types
    <3> QED
      BY <3>1, <3>2
  <2>2. c.op \notin BurstOp
    BY <2>1, Working, RequestType DEF OneClock, Types, Own
  <2>3. c.op # "activate"
    <3>1. in_refresh' => in_refresh \/ refresh_cmd
      BY TimersStep DEF OneClock, Timed, Types
    <3> QED
      BY <1>1, <1>6, <3>1, Working
  <2>4. \A b \in Bank : bank_active'[b] = 0
    BY <2>1, <2>3, AfterIs DEF OneClock, Issued, BankStates
  <2> QED
    BY <2>1, <2>2, <2>4 DEF OneClock, Issued, BusyAfter, BurstOp
<1> QED
  BY <1>2, <1>3, <1>4, <1>5, <1>6 DEF Sound

LEMMA StepDriven ==
  ASSUME NEW c, NEW cyc, NEW new, OneClock(c, cyc, new)
  PROVE  Driven'
<1>1. Types /\ cyc \in BOOLEAN /\ Decided(c, cyc) /\ o_ram' = c
  BY DEF OneClock, Issued
<1>2. nxt_dmod' <=> o_ram'.op = "write"
  BY DEF OneClock, Issued
<1>3. c.op \in BurstOp => ~nxt_dmod /\ r_req' = r_req /\ (r_req.we <=> c.op = "write")
  BY <1>1, Working, Given
<1>4. ASSUME c.op = "write"
      PROVE  /\ clocks_til_idle' = 1 /\ o_ram_dmod'
             /\ o_ram_data' = Half(r_req', 1) /\ o_ram_dqm' = Half(r_req', 1)
  BY <1>3, <1>4 DEF OneClock, Issued, BusyAfter, BurstOp
<1>5. ASSUME c.op = "read"
      PROVE  clocks_til_idle' = 4 /\ ~o_ram_dmod' /\ o_ram_dqm'[1] = "open"
  BY <1>3, <1>5 DEF OneClock, Issued, BusyAfter, BurstOp
<1>6. ASSUME m_next_wr' # Nothing
      PROVE  o_ram_dmod' /\ o_ram_data' = Half(m_next_wr', 2) /\ o_ram_dqm' = Half(m_next_wr', 2)
  <2>1. o_ram.op = "write" /\ m_next_wr' = o_ram.req
    BY <1>6 DEF OneClock, Issued
  <2>2. nxt_dmod /\ o_ram.req = r_req /\ r_req.we
    BY <2>1 DEF OneClock, Awake, Driven, Sound, BurstOp
  <2> QED
    BY <2>1, <2>2 DEF OneClock, Issued
<1> QED
  BY <1>1, <1>2, <1>4, <1>5, <1>6 DEF Driven

LEMMA StepRemembered ==
  ASSUME NEW c, NEW cyc, NEW new, OneClock(c, cyc, new)
  PROVE  Remembered'
<1>1. PICK k : k = Own'
  OBVIOUS
<1>2. /\ Types /\ Types' /\ cyc \in BOOLEAN /\ Decided(c, cyc) /\ o_ram' = c
      /\ k \in Bank /\ r_req'.addr.bank = k
  BY <1>1, StepTypes, RequestType DEF OneClock, Issued, Types, Own
<1>3. /\ bank_active[k] \in BankStates /\ bank_active'[k] = After(bank_active[k], c, k)
      /\ c.op = "activate" /\ c.bank = k => bank_active[k] = 0
      /\ c.op = "precharge" /\ c.bank = k => bank_active[k] \in {6, 7}
      /\ c.op = "prechargeall" => bank_active[k] # 4
  BY <1>2, Given DEF OneClock, Issued, Types, PrechargesAll, Unsettled, JustOpened
<1>4. r_bank_valid' <=> bank_active[k] >= 4 /\ bank_row[k] = r_req'.addr.row
  BY <1>2, RequestStep DEF OneClock, HasRow, IsOpen
<1>5. c.bank # k \/ c.op # "activate" => bank_row'[k] = bank_row[k]
  <2>1. c.bank \in Bank
    BY <1>2, Given
  <2> QED
    BY <1>2, <2>1 DEF OneClock, Issued, Types
<1>6. bank_active'[k] \in {6, 7} => bank_active[k] >= 4 /\ bank_row'[k] = bank_row[k]
  BY <1>3, <1>5, AfterIs DEF BankStates
<1>7. bank_active[k] >= 4 /\ bank_active'[k] >= 4 => bank_active'[k] \in {6, 7}
  BY <1>3, AfterIs DEF BankStates
<1>11. bank_active[k] >= 4 => bank_active'[k] \notin {0, 1}
  BY <1>3, AfterIs DEF BankStates
<1>8. HasRow(r_req.addr)' <=> bank_active'[k] >= 4 /\ bank_row'[k] = r_req'.addr.row
  BY <1>2 DEF HasRow, IsOpen
<1>9. IsOpen(Own)' <=> bank_active'[k] >= 4
  BY <1>1 DEF IsOpen
<1>10. r_pending' /\ ~o_wb_stall' => o_ram'.op \in BurstOp
  BY <1>2, RequestStep DEF OneClock, Issued
<1> QED
  BY <1>1, <1>4, <1>6, <1>7, <1>8, <1>9, <1>10, <1>11 DEF Remembered

-----------------------------------------------------------------------------
(* The answers.                                                            *)

Down(S) == {n - 1 : n \in S \ {0}}

LEMMA DownCounts ==
  ASSUME NEW S, S \subseteq 0 .. RDLY - 1
  PROVE  /\ IsFiniteSet(S) /\ IsFiniteSet(Down(S))
         /\ Cardinality(S) \in Nat
         /\ Cardinality(Down(S)) = Cardinality(S) - (IF 0 \in S THEN 1 ELSE 0)
         /\ \A n \in Down(S) : n \in 0 .. RDLY - 2 /\ n + 1 \in S
<1>1. RDLY \in Int /\ 0 .. RDLY - 1 \subseteq Nat
  BY Sizes
<1>2. IsFiniteSet(S) /\ Cardinality(S) \in Nat
  <2>1. IsFiniteSet(0 .. RDLY - 1)
    BY <1>1, FS_Interval
  <2> QED
    BY <2>1, FS_Subset, FS_CardinalityType
<1> DEFINE f == [n \in S \ {0} |-> n - 1]
<1>3. f \in Bijection(S \ {0}, Down(S))
  BY <1>1 DEF Bijection, Injection, Surjection, IsInjective, Down
<1>4. ExistsBijection(S \ {0}, Down(S))
  BY <1>3 DEF ExistsBijection
<1>5. IsFiniteSet(S \ {0}) /\ Cardinality(S \ {0}) = Cardinality(S) - (IF 0 \in S THEN 1 ELSE 0)
  BY <1>2, FS_RemoveElement
<1>6. IsFiniteSet(Down(S)) /\ Cardinality(Down(S)) = Cardinality(S \ {0})
  BY <1>4, <1>5, FS_Bijection
<1>7. \A n \in Down(S) : n \in 0 .. RDLY - 2 /\ n + 1 \in S
  BY <1>1 DEF Down
<1> QED
  BY <1>2, <1>5, <1>6, <1>7

LEMMA StepAnswering ==
  ASSUME NEW c, NEW cyc, NEW new, OneClock(c, cyc, new)
  PROVE  Answering'
<1> DEFINE S == r_barrell_ack
           T == r_barrell_ack'
<1>1. /\ Types /\ cyc \in BOOLEAN /\ Decided(c, cyc) /\ o_ram' = c
      /\ S \subseteq 0 .. RDLY - 1
      /\ \A n \in S : n >= 2 => n <= RDLY - 5 + clocks_til_idle
      /\ T = IF cyc THEN Down(S) \cup AnswerOf(c) ELSE {}
      /\ RDLY \in 5 .. 6 /\ clocks_til_idle \in 0 .. 4
  BY Sizes DEF OneClock, Awake, Answering, Issued, AnswersAfter, Down, Types
<1>2. /\ IsFiniteSet(S) /\ IsFiniteSet(Down(S)) /\ Cardinality(S) \in Nat
      /\ Cardinality(Down(S)) = Cardinality(S) - (IF 0 \in S THEN 1 ELSE 0)
      /\ \A n \in Down(S) : n \in 0 .. RDLY - 2 /\ n + 1 \in S
  BY <1>1, DownCounts
<1> HIDE DEF S, T
<1>3. owed = Cardinality(S) + (IF r_pending /\ o_ram.op \notin BurstOp THEN 1 ELSE 0)
  BY DEF OneClock, Awake, Answering, OneAnswerEach, S
<1>4. owed' = IF ~cyc THEN 0 ELSE owed + (IF Takes(new) THEN 1 ELSE 0) - (IF 0 \in S THEN 1 ELSE 0)
  BY DEF OneClock, History, S
<1>5. r_pending' <=> Takes(new) \/ (r_pending /\ o_ram.op \notin BurstOp /\ cyc)
  BY RequestStep DEF OneClock
<1>6. Takes(new) => cyc /\ ~(r_pending /\ o_ram.op \notin BurstOp)
  BY DEF OneClock, Issued, Awake, Remembered
<1>7. c.op \in BurstOp => ~Takes(new) /\ r_pending /\ o_ram.op \notin BurstOp /\ cyc
  <2>1. c.op \in BurstOp => r_pending
    BY <1>1, Given DEF pending
  <2> QED
    BY <2>1, Working
<1>8. CASE ~cyc
  <2>1. T = {} /\ ~r_pending' /\ owed' = 0
    BY <1>1, <1>4, <1>5, <1>6, <1>8
  <2> QED
    BY <2>1, FS_EmptySet DEF Answering, OneAnswerEach, T
<1>9. CASE cyc /\ c.op \notin BurstOp
  <2>1. T = Down(S) /\ clocks_til_idle' = IF clocks_til_idle > 0 THEN clocks_til_idle - 1 ELSE 0
    BY <1>1, <1>9 DEF AnswerOf, OneClock, Issued, BusyAfter, BurstOp
  <2>2. \A n \in T : n >= 2 => n <= RDLY - 5 + clocks_til_idle'
    BY <1>1, <1>2, <2>1
  <2>3. T \subseteq 0 .. RDLY - 1
    BY <1>1, <1>2, <2>1
  <2>4. owed' = Cardinality(T) + (IF r_pending' /\ o_ram'.op \notin BurstOp THEN 1 ELSE 0)
    <3>1. PICK s \in Nat : s = Cardinality(S)
      BY <1>2
    <3>2. Cardinality(T) = s - (IF 0 \in S THEN 1 ELSE 0)
      BY <1>2, <2>1, <3>1
    <3>3. owed = s + (IF r_pending /\ o_ram.op \notin BurstOp THEN 1 ELSE 0)
      BY <1>3, <3>1
    <3>4. owed' = owed + (IF Takes(new) THEN 1 ELSE 0) - (IF 0 \in S THEN 1 ELSE 0)
      BY <1>4, <1>9
    <3>5. o_ram'.op \notin BurstOp
      BY <1>1, <1>9
    <3>6. CASE Takes(new)
      <4>1. r_pending' /\ owed = s
        BY <1>5, <1>6, <3>3, <3>6
      <4> QED
        BY <3>2, <3>4, <3>5, <3>6, <4>1
    <3>7. CASE ~Takes(new) /\ r_pending /\ o_ram.op \notin BurstOp
      <4>1. r_pending' /\ owed = s + 1
        BY <1>5, <1>9, <3>3, <3>7
      <4> QED
        BY <3>2, <3>4, <3>5, <3>7, <4>1
    <3>8. CASE ~Takes(new) /\ ~(r_pending /\ o_ram.op \notin BurstOp)
      <4>1. ~r_pending' /\ owed = s
        BY <1>5, <3>3, <3>8
      <4> QED
        BY <3>2, <3>4, <3>5, <3>8, <4>1
    <3> QED
      BY <3>6, <3>7, <3>8
  <2> QED
    BY <2>2, <2>3, <2>4 DEF Answering, OneAnswerEach, T
<1>10. CASE c.op \in BurstOp
  <2>1. PICK k \in 1 .. RDLY - 1 :
          T = Down(S) \cup {k} /\ k \notin Down(S)
          /\ \A n \in Down(S) \cup {k} : n >= 2 => n <= RDLY - 5 + clocks_til_idle'
    <3>1. CASE c.op = "read"
      <4>1. T = Down(S) \cup {RDLY - 1} /\ clocks_til_idle' = 4
        BY <1>1, <1>7, <1>10, <3>1 DEF AnswerOf, OneClock, Issued, BusyAfter
      <4> QED
        BY <1>1, <1>2, <4>1
    <3>2. CASE c.op = "write"
      <4>1. T = Down(S) \cup {1} /\ clocks_til_idle' = 1
        BY <1>1, <1>7, <1>10, <3>2 DEF AnswerOf, OneClock, Issued, BusyAfter
      <4>2. clocks_til_idle = 0
        BY <1>1, <1>10, <3>2, Given
      <4> QED
        BY <1>1, <1>2, <4>1, <4>2
    <3> QED
      BY <1>10, <3>1, <3>2 DEF BurstOp
  <2>2. Cardinality(T) = Cardinality(Down(S)) + 1
    BY <1>2, <2>1, FS_AddElement
  <2>3. T \subseteq 0 .. RDLY - 1
    BY <1>1, <1>2, <2>1
  <2>4. owed' = Cardinality(T) + (IF r_pending' /\ o_ram'.op \notin BurstOp THEN 1 ELSE 0)
    BY <1>1, <1>2, <1>3, <1>4, <1>7, <1>10, <2>2
  <2> QED
    BY <2>1, <2>3, <2>4 DEF Answering, OneAnswerEach, T
<1> QED
  BY <1>1, <1>8, <1>9, <1>10


-----------------------------------------------------------------------------
(* SdramInv is inductive.                                                  *)

LEMMA StartsWell == Init => SdramInv
<1> SUFFICES ASSUME Init PROVE SdramInv
  OBVIOUS
<1>1. Types
  <2>1. bank_active \in [Bank -> BankStates] /\ m_bank_status \in [Bank -> BankStates]
    BY DEF Init, BankStates
  <2>2. bank_row \in [Bank -> Row] /\ m_bank_row \in [Bank -> Row]
    BY Sizes DEF Init
  <2>3. refresh_clk \in Nat /\ in_refresh_clk \in 0 .. 6 /\ rested \in 0 .. 6
        /\ clocks_til_idle \in 0 .. 4
    BY DEF Init
  <2>4. /\ need_refresh \in BOOLEAN /\ in_refresh \in BOOLEAN /\ r_pending \in BOOLEAN
        /\ r_bank_valid \in BOOLEAN /\ fwd_bank_valid \in BOOLEAN /\ o_wb_stall \in BOOLEAN
        /\ nxt_dmod \in BOOLEAN /\ o_ram_dmod \in BOOLEAN /\ maintenance_mode \in BOOLEAN
        /\ r_req \in Request \cup {Nothing}
    BY ZenonT(30) DEF Init
  <2> QED
    BY <2>1, <2>2, <2>3, <2>4 DEF Types, RefreshTime
<1>2. Timed
  BY DEF Init, Timed, RefreshTime
<1>3. Waking
  BY Sizes DEF Init, Waking, Quiet, Nop, Simple, Command
<1>4. Asleep
  BY <1>3 DEF Init, Asleep
<1> QED
  BY <1>1, <1>2, <1>4 DEF Init, SdramInv

LEMMA WorksOn ==
  ASSUME Types, Timed, ~maintenance_mode, Awake,
         NEW cyc \in BOOLEAN, NEW new \in Request \cup {Nothing}, Clock(cyc, new)
  PROVE  OneClock(Decision(cyc), cyc, new)
<1>1. Issued(Decision(cyc), cyc, new)
  BY Issues DEF Awake
<1> QED
  BY <1>1 DEF OneClock, Clock

LEMMA KeepsWell == SdramInv /\ [Next]_vars => SdramInv'
<1> SUFFICES ASSUME SdramInv, [Next]_vars PROVE SdramInv'
  OBVIOUS
<1>1. ASSUME NEW cyc \in BOOLEAN, NEW new \in Request \cup {Nothing}, Clock(cyc, new)
      PROVE  SdramInv'
  <2>1. CASE maintenance_mode
    BY <1>1, <2>1, SleepStep DEF SdramInv
  <2>2. CASE ~maintenance_mode
    <3>1. PICK c : c = Decision(cyc)
      OBVIOUS
    <3>2. OneClock(c, cyc, new)
      BY <1>1, <2>2, <3>1, WorksOn DEF SdramInv
    <3>3. Awake'
      BY <3>2, StepTypes, StepSound, StepDriven, StepRemembered, StepAnswering DEF Awake
    <3>4. Types' /\ Timed' /\ ~maintenance_mode'
      BY <3>2, StepTypes DEF OneClock, Issued
    <3> QED
      BY <3>3, <3>4 DEF SdramInv
  <2> QED
    BY <2>1, <2>2
<1>2. CASE UNCHANGED vars
  BY <1>2 DEF SdramInv, Types, Timed, Asleep, Waking, Waiting, Refreshing, Setting, Settling,
      Awake, Shadowed, Sound, Driven, Remembered, Answering, OneAnswerEach, Own, HasRow, IsOpen,
      vars, refresh, request, bank, data, maintenance, chip
<1> QED
  BY <1>1, <1>2 DEF Next

LEMMA SdramSafe == Spec => []SdramInv
  BY StartsWell, KeepsWell, PTL DEF Spec

(***************************************************************************)
(* CommandsAccepted: the chip accepts what it is told from power up on,    *)
(* although the controller decides on registers that are a clock or two    *)
(* behind it (wbsdram.v's bank_active and in_refresh).                     *)
(***************************************************************************)
THEOREM ChipAcceptsAll == Spec => []CommandsAccepted
<1>1. SdramInv => CommandsAccepted
  <2> SUFFICES ASSUME SdramInv PROVE CommandsAccepted
    OBVIOUS
  <2>1. CASE maintenance_mode
    <3>1. Asleep
      BY <2>1 DEF SdramInv
    <3>2. CASE Waking
      BY <3>2 DEF Waking, Quiet, CommandsAccepted, Accepted
    <3>3. CASE Waiting
      BY <3>3 DEF Waiting, Quiet, CommandsAccepted, Accepted
    <3>4. CASE Refreshing
      BY <3>4 DEF Refreshing, CommandsAccepted, Accepted
    <3>5. CASE Setting
      BY <3>5 DEF Setting, CommandsAccepted, Accepted
    <3>6. CASE Settling
      BY <3>6 DEF Settling, CommandsAccepted, Accepted
    <3> QED
      BY <3>1, <3>2, <3>3, <3>4, <3>5, <3>6 DEF Asleep
  <2>2. CASE ~maintenance_mode /\ Settling
    BY <2>2 DEF Settling, CommandsAccepted, Accepted
  <2>3. CASE ~maintenance_mode /\ m_pwrup = 6
    <3>1. Types /\ Sound
      BY <2>3 DEF SdramInv, Awake
    <3>2. o_ram.op = "activate" =>
            Stays(m_bank_status[o_ram.bank]) = 0 /\ rested >= RefreshTime
      BY <3>1 DEF Sound, Stays, Closed, RefreshTime
    <3>3. o_ram.op \in BurstOp => Stays(m_bank_status[o_ram.bank]) = 7
      BY <3>1 DEF Sound, Stays, Opened
    <3>4. o_ram.op = "refresh" => \A b \in Bank : Stays(m_bank_status[b]) = 0
      BY <3>1 DEF Sound, Stays, Closed
    <3>5. o_ram.op # "mode"
      BY <3>1 DEF Sound, Ops
    <3>6. Accepted
      BY <2>3, <3>2, <3>3, <3>4, <3>5 DEF Accepted
    <3> QED
      BY <3>2, <3>6 DEF CommandsAccepted
  <2> QED
    BY <2>1, <2>2, <2>3 DEF SdramInv, Awake, Shadowed
<1> QED
  BY <1>1, SdramSafe, PTL

(***************************************************************************)
(* RightWord: the row of every read and write is the one asked for, and    *)
(* the halves of a write are on the wires when the chip takes them.        *)
(***************************************************************************)
THEOREM WordsAreRight == Spec => []RightWord
<1>1. SdramInv => RightWord
  <2> SUFFICES ASSUME SdramInv PROVE RightWord
    OBVIOUS
  <2>1. CASE maintenance_mode
    BY <2>1 DEF SdramInv, Asleep, Waking, Waiting, Refreshing, Setting, Settling, Quiet,
                RightWord, BurstOp
  <2>2. CASE ~maintenance_mode
    <3>1. Sound /\ Driven
      BY <2>2 DEF SdramInv, Awake
    <3>2. o_ram.op = "write" => o_ram.req = r_req
      BY <3>1 DEF Sound, BurstOp
    <3>3. o_ram.op \in BurstOp => m_bank_row[o_ram.bank] = o_ram.req.addr.row
      BY <3>1 DEF Sound
    <3>4. o_ram.op = "write" => o_ram_dmod /\ {o_ram_data, o_ram_dqm} = {Half(o_ram.req, 1)}
      BY <3>1, <3>2 DEF Driven
    <3>5. m_next_wr # Nothing => o_ram_dmod /\ {o_ram_data, o_ram_dqm} = {Half(m_next_wr, 2)}
      BY <3>1 DEF Driven
    <3> QED
      BY <3>1, <3>3, <3>4, <3>5 DEF RightWord, Driven
  <2> QED
    BY <2>1, <2>2
<1> QED
  BY <1>1, SdramSafe, PTL

(***************************************************************************)
(* OneAnswerEach: every request of the cycle that was taken is answered    *)
(* once, and nothing else is.                                              *)
(***************************************************************************)
THEOREM EachAnsweredOnce == Spec => []OneAnswerEach
<1>1. SdramInv => OneAnswerEach
  <2> SUFFICES ASSUME SdramInv PROVE OneAnswerEach
    OBVIOUS
  <2>1. CASE maintenance_mode
    BY <2>1, FS_EmptySet DEF SdramInv, Asleep, OneAnswerEach
  <2>2. CASE ~maintenance_mode
    BY <2>2 DEF SdramInv, Awake, Answering
  <2> QED
    BY <2>1, <2>2
<1> QED
  BY <1>1, SdramSafe, PTL

-----------------------------------------------------------------------------
(* How late a refresh is, by what has to be done before it: a burst, the   *)
(* opening of a bank, the closing of all of them.                          *)

Due ==
  /\ late \in 0 .. 9
  /\ late > 0 => need_refresh
  /\ late > 0 /\ o_ram.op # "refresh" =>
       /\ late <= 8 /\ late + clocks_til_idle <= 8
       /\ nxt_dmod => late <= 4
       /\ \A b \in Bank :
            /\ bank_active[b] > 0 => late <= 7
            /\ bank_active[b] > 1 => late <= 6
            /\ IsOpen(b) => late + clocks_til_idle <= 5
            /\ JustOpened(b) => late <= 4

(***************************************************************************)
(* How long a request still waits when no refresh comes between: for the   *)
(* burst before it, or for its bank to be closed and opened again.         *)
(***************************************************************************)
Less(n, k) == IF n > k THEN n - k ELSE 0

ToGo ==
  LET x == bank_active[Own]
  IN IF IsOpen(Own) /\ r_bank_valid THEN clocks_til_idle + 1
     ELSE IF HasRow(r_req.addr) THEN Less(clocks_til_idle, 1) + 2
     ELSE IF x = 4 THEN 8
     ELSE IF x = 6 THEN 7
     ELSE IF x = 7 THEN 6
     ELSE IF x = 3 THEN 5
     ELSE IF x = 1 THEN 4 + Less(clocks_til_idle, 3)
     ELSE 3 + Less(clocks_til_idle, 2)

(***************************************************************************)
(* How long it has waited: with no refresh, or for one that is due, on the *)
(* wires or under way.  The next one is far enough off after that.         *)
(***************************************************************************)
Served ==
  /\ stalled \in 0 .. 29
  /\ ~r_pending /\ o_wb_stall => stalled = 0
  /\ pending /\ o_ram.op # "refresh" /\ ~in_refresh =>
       /\ need_refresh => late > 0 /\ stalled <= 7 + late
       /\ ~need_refresh => \/ stalled + ToGo <= 8
                           \/ stalled + ToGo <= 28 /\ refresh_clk > ToGo
  /\ pending /\ o_ram.op # "refresh" /\ in_refresh => stalled + in_refresh_clk <= 24
  /\ pending /\ o_ram.op = "refresh" => stalled <= 17 /\ (~in_refresh => stalled <= 16)

PromptInv == SdramInv /\ (~maintenance_mode => Due /\ Served)

LEMMA CountsStep ==
  ASSUME NEW c, NEW cyc, NEW new, OneClock(c, cyc, new), Due, Served
  PROVE  /\ refresh_clk > 0 \/ refresh_cmd => late' = 0
         /\ ~(refresh_clk > 0 \/ refresh_cmd) => late' = late + 1
         /\ ~cyc \/ ~o_wb_stall => stalled' = 0
         /\ cyc /\ o_wb_stall => stalled' = stalled + 1
         /\ cyc \in BOOLEAN /\ Types /\ Types' /\ Decided(c, cyc) /\ o_ram' = c
         /\ ~nxt_dmod' <=> c.op # "write"
<1>1. /\ refresh_clk > 0 \/ refresh_cmd => late' = 0
      /\ ~(refresh_clk > 0 \/ refresh_cmd) => late' = late + 1
  BY DEF OneClock, History, Due, LateLimit
<1>2. /\ ~cyc \/ ~o_wb_stall => stalled' = 0
      /\ cyc /\ o_wb_stall => stalled' = stalled + 1
  BY DEF OneClock, History, Served, MaxStall
<1> QED
  BY <1>1, <1>2, StepTypes DEF OneClock, Issued

\* While a refresh is due nothing is begun, and no refresh is under way.
LEMMA DueMeans ==
  ASSUME NEW c, NEW cyc, NEW new, OneClock(c, cyc, new), need_refresh
  PROVE  /\ refresh_clk = 0 /\ ~in_refresh /\ in_refresh_clk = 0
         /\ c.op \in {"nop", "prechargeall", "refresh"}
<1>1. refresh_clk = 0 /\ ~in_refresh /\ in_refresh_clk = 0
  BY DEF OneClock, Timed, Types
<1>2. c.op \in Ops /\ c.op # "deselect"
  BY Given DEF OneClock, Issued
<1> QED
  BY <1>1, <1>2, Working DEF Ops

LEMMA StepDue ==
  ASSUME NEW c, NEW cyc, NEW new, OneClock(c, cyc, new), Due, Served
  PROVE  Due' /\ (need_refresh' <=> late' > 0)
<1>1. /\ cyc \in BOOLEAN /\ Types /\ Types' /\ Decided(c, cyc) /\ o_ram' = c
      /\ need_refresh' <=> refresh_clk = 0 /\ ~refresh_cmd
  BY CountsStep, TimersStep DEF OneClock
<1>2. CASE refresh_clk > 0 \/ refresh_cmd
  <2>1. late' = 0 /\ ~need_refresh'
    BY <1>1, <1>2, CountsStep DEF Types
  <2> QED
    BY <2>1 DEF Due
<1>3. CASE ~(refresh_clk > 0 \/ refresh_cmd)
  <2>1. late' = late + 1 /\ need_refresh' /\ o_ram.op # "refresh" /\ late \in Nat
    BY <1>1, <1>3, CountsStep DEF Types, refresh_cmd, Due
  <2>2. CASE late = 0
    <3>1. PICK l, n : l = late' /\ n = clocks_til_idle'
      OBVIOUS
    <3>2. l = 1 /\ n \in 0 .. 4
      BY <1>1, <2>1, <2>2, <3>1 DEF Types
    <3>3. l <= 4 /\ l + n <= 5 /\ l \in 0 .. 9
      BY <3>2
    <3>4. l + n <= 8 /\ l <= 6 /\ l <= 7 /\ l <= 8
      BY <3>2
    <3>5. \A b \in Bank :
            /\ bank_active'[b] > 0 => l <= 7
            /\ bank_active'[b] > 1 => l <= 6
            /\ IsOpen(b)' => l + n <= 5
            /\ JustOpened(b)' => l <= 4
      BY <3>3, <3>4
    <3> QED
      BY <2>1, <3>1, <3>3, <3>4, <3>5 DEF Due
  <2>3. CASE late > 0
    <3>1. need_refresh
      BY <2>3 DEF Due
    <3>2. c.op \in {"nop", "prechargeall", "refresh"} /\ ~in_refresh
      BY <3>1, DueMeans
    <3>3. /\ late <= 8 /\ late + clocks_til_idle <= 8
          /\ nxt_dmod => late <= 4
          /\ \A b \in Bank :
               /\ bank_active[b] > 0 => late <= 7
               /\ bank_active[b] > 1 => late <= 6
               /\ IsOpen(b) => late + clocks_til_idle <= 5
               /\ JustOpened(b) => late <= 4
      BY <2>1, <2>3 DEF Due
    <3>4. ~nxt_dmod' /\ clocks_til_idle' = IF clocks_til_idle > 0 THEN clocks_til_idle - 1 ELSE 0
      BY <3>2, CountsStep DEF OneClock, Issued, BusyAfter
    <3>5. CASE c.op = "refresh"
      BY <1>1, <2>1, <3>3, <3>5 DEF Due
    <3>6. CASE c.op = "prechargeall"
      <4>1. PrechargesAll(cyc)
        BY <1>1, <3>6, Given
      <4>2. late <= 5 /\ clocks_til_idle = 0
        <5>1. ~(clocks_til_idle > 0) /\ clocks_til_idle \in 0 .. 4
          BY <1>1, <4>1 DEF PrechargesAll, Unsettled, Types
        <5>2. late + clocks_til_idle <= 5
          BY <3>3, <4>1 DEF PrechargesAll
        <5> QED
          BY <2>1, <5>1, <5>2
      <4>3. \A b \in Bank : bank_active'[b] \in 0 .. 3
        <5> TAKE b \in Bank
        <5>1. bank_active'[b] = After(bank_active[b], c, b) /\ bank_active[b] \in BankStates
          BY <1>1 DEF OneClock, Issued, Types
        <5> QED
          BY <3>6, <5>1, AfterIs DEF BankStates
      <4>4. \A b \in Bank : ~IsOpen(b)' /\ ~JustOpened(b)'
        BY <4>3 DEF IsOpen, JustOpened
      <4>5. late' \in 0 .. 6 /\ clocks_til_idle' = 0
        BY <2>1, <3>4, <4>2
      <4> QED
        BY <2>1, <3>4, <4>4, <4>5 DEF Due
    <3>7. CASE c.op = "nop"
      <4>1. ~PrechargesAll(cyc) /\ ~Refreshes(cyc)
        BY <1>1, <3>7 DEF Decided, Simple, Command, Nop
      <4>2. Closing(cyc) <=> ~nxt_dmod
        BY <3>1 DEF Closing
      <4>3. \/ late <= 4 \/ clocks_til_idle > 0
            \/ /\ \A b \in Bank : ~IsOpen(b)
               /\ \E b \in Bank : bank_active[b] > 0
        <5>1. CASE nxt_dmod \/ \E b \in Bank : JustOpened(b)
          BY <3>3, <5>1
        <5>2. CASE ~nxt_dmod /\ ~(\E b \in Bank : JustOpened(b)) /\ ~(clocks_til_idle > 0)
          <6>1. ~Unsettled
            BY <5>2 DEF Unsettled
          <6>2. \A b \in Bank : ~IsOpen(b)
            BY <4>1, <4>2, <5>2, <6>1 DEF PrechargesAll
          <6>3. \E b \in Bank : bank_active[b] # 0
            BY <3>1, <3>2, <4>1, <4>2, <5>2, <6>1 DEF Refreshes
          <6> QED
            BY <1>1, <6>2, <6>3 DEF Types, BankStates
        <5> QED
          BY <5>1, <5>2
      <4>4. clocks_til_idle \in 0 .. 4
        BY <1>1 DEF Types
      <4>5. late + 1 <= 8
        BY <2>1, <3>3, <4>3, <4>4
      <4>6. late' <= 8 /\ late' + clocks_til_idle' <= 8
        BY <2>1, <3>3, <3>4, <4>4, <4>5
      <4>7. ASSUME NEW b \in Bank
            PROVE  /\ bank_active'[b] > 0 => late' <= 7
                   /\ bank_active'[b] > 1 => late' <= 6
                   /\ bank_active'[b] >= 4 => late' + clocks_til_idle' <= 5
                   /\ bank_active'[b] \notin {4, 5}
        <5>1. PICK x : x = bank_active[b]
          OBVIOUS
        <5>2. x \in BankStates /\ bank_active'[b] = After(x, c, b)
          BY <1>1, <5>1 DEF OneClock, Issued, Types
        <5>3. bank_active'[b] = IF x < 2 THEN 0 ELSE IF x < 4 THEN 1 ELSE IF x < 6 THEN 6 ELSE 7
          BY <3>7, <5>2, AfterIs
        <5>4. /\ x > 1 => late <= 6
              /\ x >= 4 => late + clocks_til_idle <= 5
          BY <3>3, <5>1 DEF IsOpen
        <5>5. x >= 4 => late <= 4 \/ clocks_til_idle > 0
          BY <4>3, <5>1 DEF IsOpen
        <5> QED
          BY <2>1, <3>4, <4>4, <5>2, <5>3, <5>4, <5>5 DEF BankStates
      <4>8. \A b \in Bank : (IsOpen(b)' <=> bank_active'[b] >= 4)
                            /\ (JustOpened(b)' <=> bank_active'[b] \in {4, 5})
        BY DEF IsOpen, JustOpened
      <4>9. late' \in 0 .. 9
        BY <2>1, <4>6
      <4> QED
        BY <2>1, <3>4, <4>6, <4>7, <4>8, <4>9 DEF Due
    <3> QED
      BY <3>2, <3>5, <3>6, <3>7
  <2> QED
    BY <2>1, <2>2, <2>3
<1> QED
  BY <1>2, <1>3

\* When nothing keeps the controller from a request, each clock brings it nearer.
LEMMA Nearer ==
  ASSUME NEW c, NEW cyc, NEW new, OneClock(c, cyc, new), cyc, pending,
         ~refresh_cmd, ~in_refresh, ~need_refresh, c.op \notin BurstOp
  PROVE  /\ ToGo \in 1 .. 8 /\ ToGo' \in 0 .. 8 /\ ToGo' < ToGo
         /\ c.op # "refresh"
<1>1. PICK k, x, y, v, n :
        k = Own /\ x = bank_active[Own] /\ y = bank_active'[Own] /\ v = r_bank_valid
        /\ n = clocks_til_idle
  OBVIOUS
<1>2. /\ Types /\ Types' /\ cyc \in BOOLEAN /\ Decided(c, cyc) /\ k \in Bank /\ r_req.addr.bank = k
      /\ r_req.addr.col \in 0 .. 2 /\ r_req.addr.row \in Row
      /\ x \in BankStates /\ v \in BOOLEAN /\ n \in 0 .. 4 /\ bank_active[k] = x /\ y = After(x, c, k)
  BY <1>1, StepTypes, RequestType DEF OneClock, Issued, Types, Own
<1>3. ~Takes(new) /\ r_req' = r_req /\ r_pending
  <2>1. ~Takes(new) /\ r_pending
    BY DEF OneClock, Issued, pending
  <2> QED
    BY <2>1, RequestStep DEF OneClock
<1>4. Own' = k
  BY <1>1, <1>3 DEF Own
<1>5. Works(cyc)
  <2>1. ~nxt_dmod
    BY DEF OneClock, Awake, Sound, Driven, BurstOp, pending
  <2> QED
    BY <2>1 DEF Works
<1>6. c.op # "refresh" /\ c.op # "prechargeall"
  <2>1. ~Closing(cyc)
    BY DEF Closing
  <2> QED
    BY <1>2, <2>1, Given DEF Refreshes, PrechargesAll
<1>7. /\ IsOpen(Own) <=> x >= 4
      /\ IsOpen(Own)' <=> y >= 4
      /\ HasRow(r_req.addr) <=> x >= 4 /\ bank_row[k] = r_req.addr.row
      /\ HasRow(r_req.addr)' <=> y >= 4 /\ bank_row'[k] = r_req.addr.row
      /\ r_bank_valid' <=> HasRow(r_req.addr)
  BY <1>1, <1>2, <1>3, <1>4, RequestStep DEF IsOpen, HasRow, OneClock
<1>8. clocks_til_idle' = Less(n, 1)
  BY <1>1, <1>2 DEF OneClock, Issued, BusyAfter, BurstOp, Less
<1>9. /\ v /\ x >= 4 => x \in {6, 7} /\ HasRow(r_req.addr)
      /\ HasRow(r_req.addr) /\ x \in {6, 7} => v
      /\ x \in {0, 1} => ~v
  BY <1>1 DEF OneClock, Awake, Remembered, IsOpen
\* Its bank is opened or closed for it as soon as that can be, and not otherwise.
<1>10. \/ c = Command("activate", k, r_req.addr.row, Nothing) /\ Activates(cyc)
       \/ c = Command("precharge", k, 0, Nothing) /\ Precharges(cyc)
       \/ Stuck(cyc) /\ (c.op \in {"activate", "precharge"} => c.bank # k)
  <2>1. \/ c = Command("activate", Own, r_req.addr.row, Nothing) /\ Activates(cyc)
        \/ c = Command("precharge", Own, 0, Nothing) /\ Precharges(cyc)
        \/ c.bank = Fwd(r_req.addr).bank /\ LooksAhead(cyc)
        \/ c = Nop /\ Stuck(cyc)
    <3>1. c # Simple("prechargeall") /\ c # Simple("refresh")
      BY <1>6 DEF Simple, Command
    <3>2. c # Command("read", Own, 0, r_req) /\ c # Command("write", Own, 0, r_req)
      BY DEF Command, BurstOp
    <3>3. CASE c = Command("precharge", Fwd(r_req.addr).bank, 0, Nothing) /\ ClosesAhead(cyc)
      BY <3>3 DEF Command, ClosesAhead
    <3>4. CASE /\ c = Command("activate", Fwd(r_req.addr).bank, Fwd(r_req.addr).row, Nothing)
               /\ OpensAhead(cyc)
      BY <3>4 DEF Command, OpensAhead
    <3> QED
      BY <1>2, <3>1, <3>2, <3>3, <3>4 DEF Decided
  <2>2. CASE c.bank = Fwd(r_req.addr).bank /\ LooksAhead(cyc)
    <3>1. Stuck(cyc) /\ r_req.addr.col = 2
      BY <2>2 DEF LooksAhead, Stuck
    <3>2. c.bank # k
      BY <1>2, <2>2, <3>1, Forward
    <3> QED
      BY <3>1, <3>2
  <2>3. CASE c = Nop /\ Stuck(cyc)
    BY <2>3 DEF Nop, Simple, Command
  <2> QED
    BY <1>1, <2>1, <2>2, <2>3
<1>21. (Activates(cyc) <=> ~v /\ x = 0) /\ (Precharges(cyc) <=> ~v /\ x = 7)
  <2>1. IsOpen(Own) \in BOOLEAN
    BY DEF IsOpen
  <2> QED
    BY <1>1, <1>5 DEF Activates, Precharges, Own
<1>22. (c.op = "activate" /\ c.bank = k <=> Activates(cyc))
       /\ (c.op = "precharge" /\ c.bank = k <=> Precharges(cyc))
  <2>1. CASE c = Command("activate", k, r_req.addr.row, Nothing) /\ Activates(cyc)
    <3>1. ~Precharges(cyc)
      BY <2>1 DEF Activates, Precharges
    <3>2. c.op = "activate" /\ c.bank = k
      BY <2>1 DEF Command
    <3> QED
      BY <2>1, <3>1, <3>2
  <2>2. CASE c = Command("precharge", k, 0, Nothing) /\ Precharges(cyc)
    <3>1. ~Activates(cyc)
      BY <2>2 DEF Activates, Precharges
    <3>2. c.op = "precharge" /\ c.bank = k
      BY <2>2 DEF Command
    <3> QED
      BY <2>2, <3>1, <3>2
  <2>3. CASE Stuck(cyc) /\ (c.op \in {"activate", "precharge"} => c.bank # k)
    BY <2>3 DEF Stuck
  <2> QED
    BY <1>10, <2>1, <2>2, <2>3
<1>11. y = CASE ~v /\ x = 0 -> 4
             [] ~v /\ x = 7 -> 3
             [] OTHER -> IF x < 2 THEN 0 ELSE IF x < 4 THEN 1 ELSE IF x < 6 THEN 6 ELSE 7
  <2>1. CASE ~v /\ x = 0
    BY <1>2, <1>21, <1>22, <2>1, AfterIs
  <2>2. CASE ~v /\ x = 7
    <3>1. c.op = "precharge" /\ c.bank = k
      BY <1>21, <1>22, <2>2
    <3> QED
      BY <1>2, <2>2, <3>1, AfterIs
  <2>3. CASE ~(~v /\ x = 0) /\ ~(~v /\ x = 7)
    BY <1>2, <1>6, <1>21, <1>22, <2>3, AfterIs
  <2> QED
    BY <2>1, <2>2, <2>3
<1>12. bank_row'[k] = IF ~v /\ x = 0 THEN r_req.addr.row ELSE bank_row[k]
  <2>1. c.bank \in Bank
    BY <1>2, Given
  <2>2. CASE c.op # "activate" \/ c.bank # k
    BY <1>2, <1>21, <1>22, <2>1, <2>2 DEF OneClock, Issued, Types
  <2>3. CASE c.op = "activate" /\ c.bank = k
    <3>1. ~v /\ x = 0
      BY <1>21, <1>22, <2>3
    <3>2. c.row = r_req.addr.row
      <4>1. c = Command("activate", k, r_req.addr.row, Nothing) \/ c = Command("precharge", k, 0, Nothing)
        BY <1>10, <2>3
      <4> QED
        BY <2>3, <4>1 DEF Command
    <3> QED
      BY <1>2, <2>3, <3>1, <3>2 DEF OneClock, Issued, Types
  <2> QED
    BY <2>2, <2>3
\* A burst that could be given is being waited for.
<1>13. v /\ x >= 4 => n >= 1
  <2> SUFFICES ASSUME v, x >= 4, n = 0 PROVE FALSE
    BY <1>2
  <2>1. IsOpen(r_req.addr.bank) /\ r_bank_valid /\ clocks_til_idle = 0
    BY <1>1, <1>7 DEF Own
  <2>4. r_req.we \in BOOLEAN
    BY <1>2, RequestType DEF Types
  <2>2. Reads(cyc) \/ Writes(cyc)
    <3>1. CASE r_req.we
      BY <1>5, <2>1, <3>1 DEF Writes
    <3>2. CASE ~r_req.we
      <4>1. clocks_til_idle < 4
        BY <2>1
      <4> QED
        BY <1>5, <2>1, <3>2, <4>1 DEF Reads
    <3> QED
      BY <3>1, <3>2
  <2>3. ~Stuck(cyc) /\ ~Activates(cyc) /\ ~Precharges(cyc)
    BY <1>1, <2>2 DEF Stuck, Activates, Precharges
  <2> QED
    BY <1>10, <2>3
<1>14. ToGo = IF x >= 4 /\ v THEN n + 1
              ELSE IF x >= 4 /\ bank_row[k] = r_req.addr.row THEN Less(n, 1) + 2
              ELSE IF x = 4 THEN 8 ELSE IF x = 6 THEN 7 ELSE IF x = 7 THEN 6 ELSE IF x = 3 THEN 5
              ELSE IF x = 1 THEN 4 + Less(n, 3) ELSE 3 + Less(n, 2)
  BY <1>1, <1>7 DEF ToGo
<1>15. ToGo' = IF y >= 4 /\ r_bank_valid' THEN Less(n, 1) + 1
               ELSE IF y >= 4 /\ bank_row'[k] = r_req.addr.row THEN Less(Less(n, 1), 1) + 2
               ELSE IF y = 4 THEN 8 ELSE IF y = 6 THEN 7 ELSE IF y = 7 THEN 6 ELSE IF y = 3 THEN 5
               ELSE IF y = 1 THEN 4 + Less(Less(n, 1), 3) ELSE 3 + Less(Less(n, 1), 2)
  BY <1>1, <1>3, <1>4, <1>7, <1>8 DEF ToGo
<1>16. CASE x >= 4 /\ v
  <2>1. y = 7 /\ r_bank_valid' /\ n >= 1
    BY <1>2, <1>7, <1>9, <1>11, <1>13, <1>16
  <2> QED
    BY <1>2, <1>6, <1>14, <1>15, <1>16, <2>1 DEF Less
<1>17. CASE x >= 4 /\ ~v /\ bank_row[k] = r_req.addr.row
  <2>1. x = 4 /\ y = 6 /\ r_bank_valid'
    BY <1>2, <1>7, <1>9, <1>11, <1>17 DEF BankStates
  <2> QED
    BY <1>2, <1>6, <1>14, <1>15, <1>17, <2>1 DEF Less
<1>18. CASE x >= 4 /\ ~v /\ bank_row[k] # r_req.addr.row
  <2>1. ~r_bank_valid' /\ bank_row'[k] # r_req.addr.row
        /\ y = IF x = 4 THEN 6 ELSE IF x = 6 THEN 7 ELSE 3
    BY <1>2, <1>7, <1>11, <1>12, <1>18 DEF BankStates
  <2> QED
    BY <1>2, <1>6, <1>14, <1>15, <1>18, <2>1 DEF BankStates
<1>19. CASE x = 3 \/ x = 1
  <2>1. y = IF x = 3 THEN 1 ELSE 0
    BY <1>2, <1>11, <1>19
  <2> QED
    BY <1>2, <1>6, <1>14, <1>15, <1>19, <2>1 DEF Less
<1>20. CASE x = 0
  <2>1. y = 4 /\ ~r_bank_valid' /\ bank_row'[k] = r_req.addr.row
    BY <1>2, <1>7, <1>9, <1>11, <1>12, <1>20
  <2> QED
    BY <1>2, <1>6, <1>14, <1>15, <1>20, <2>1 DEF Less
<1> QED
  BY <1>2, <1>16, <1>17, <1>18, <1>19, <1>20 DEF BankStates

LEMMA ToGoBound == ASSUME Types, Types' PROVE ToGo \in 0 .. 8 /\ ToGo' \in 0 .. 8
<1>1. Own \in Bank /\ Own' \in Bank
  BY RequestType DEF Types, Own
<1>2. ToGo \in 0 .. 8
  <2>1. bank_active[Own] \in BankStates /\ clocks_til_idle \in 0 .. 4
    BY <1>1 DEF Types
  <2> QED
    BY <2>1 DEF ToGo, Less, BankStates, IsOpen
<1>3. ToGo' \in 0 .. 8
  <2>1. PICK x, n, v, h : x = bank_active'[Own'] /\ n = clocks_til_idle'
                           /\ v = (IsOpen(Own) /\ r_bank_valid)' /\ h = HasRow(r_req.addr)'
    OBVIOUS
  <2>2. x \in BankStates /\ n \in 0 .. 4
    BY <1>1, <2>1 DEF Types
  <2>3. ToGo' = IF v THEN n + 1 ELSE IF h THEN Less(n, 1) + 2
                ELSE IF x = 4 THEN 8 ELSE IF x = 6 THEN 7 ELSE IF x = 7 THEN 6 ELSE IF x = 3 THEN 5
                ELSE IF x = 1 THEN 4 + Less(n, 3) ELSE 3 + Less(n, 2)
    BY <2>1 DEF ToGo
  <2> QED
    BY <2>2, <2>3 DEF Less, BankStates
<1> QED
  BY <1>2, <1>3

LEMMA StepServed ==
  ASSUME NEW c, NEW cyc, NEW new, OneClock(c, cyc, new), Due, Served
  PROVE  Served'
<1>1. /\ cyc \in BOOLEAN /\ Types /\ Types' /\ Decided(c, cyc) /\ o_ram' = c
      /\ ~cyc \/ ~o_wb_stall => stalled' = 0
      /\ cyc /\ o_wb_stall => stalled' = stalled + 1
      /\ stalled \in 0 .. 29 /\ late \in 0 .. 9
  BY CountsStep DEF Due, Served
<1>8. PICK s, l, g, r, n :
        s = stalled' /\ l = late' /\ g = ToGo' /\ r = refresh_clk' /\ n = in_refresh_clk'
  OBVIOUS
<1>2. Due' /\ (need_refresh' <=> l > 0) /\ g \in 0 .. 8 /\ l \in 0 .. 9
      /\ n \in 0 .. 6
  <2>1. Due' /\ (need_refresh' <=> late' > 0) /\ ToGo' \in 0 .. 8
    BY <1>1, StepDue, ToGoBound
  <2> QED
    BY <1>8, <2>1, TimersStep DEF Due, OneClock
<1>3. /\ r_pending' <=> Takes(new) \/ (r_pending /\ o_ram.op \notin BurstOp /\ cyc)
      /\ o_wb_stall' <=> c.op \notin BurstOp /\ (r_pending \/ Takes(new))
      /\ Takes(new) => cyc /\ ~o_wb_stall
  BY RequestStep DEF OneClock, Issued
<1>7. refresh_clk \in Nat /\ in_refresh_clk \in 0 .. 6
  BY <1>1 DEF Types
<1>9. SUFFICES
        /\ s \in 0 .. 29
        /\ ~r_pending' /\ o_wb_stall' => s = 0
        /\ pending' =>
             /\ o_ram'.op # "refresh" /\ ~in_refresh' /\ need_refresh' => s <= 7 + l
             /\ o_ram'.op # "refresh" /\ ~in_refresh' /\ ~need_refresh' =>
                  s + g <= 8 \/ (s + g <= 28 /\ r > g)
             /\ o_ram'.op # "refresh" /\ in_refresh' => s + n <= 24
             /\ o_ram'.op = "refresh" => s <= 17 /\ (~in_refresh' => s <= 16)
  BY <1>2, <1>8 DEF Served
<1>4. CASE ~cyc \/ ~o_wb_stall
  <2>1. s = 0
    BY <1>1, <1>4, <1>8
  <2>2. s <= 7 + l /\ s + g <= 8 /\ s + n <= 24 /\ s \in 0 .. 29 /\ s <= 16 /\ s <= 17
    BY <1>2, <2>1
  <2> QED
    BY <2>1, <2>2
<1>5. CASE cyc /\ o_wb_stall /\ ~r_pending
  <2>1. s = 1 /\ ~r_pending' /\ ~o_wb_stall'
    BY <1>1, <1>3, <1>5, <1>8 DEF Served
  <2> QED
    BY <2>1 DEF pending
<1>6. CASE cyc /\ pending
  <2>1. /\ s = stalled + 1 /\ r_pending' /\ o_ram.op \notin BurstOp
        /\ pending' <=> c.op \notin BurstOp
    <3>1. o_ram.op \notin BurstOp
      BY <1>6 DEF pending, OneClock, Awake, Sound
    <3> QED
      BY <1>1, <1>3, <1>6, <1>8, <3>1 DEF pending
  <2>2. SUFFICES
          /\ s \in 0 .. 29
          /\ c.op \notin BurstOp =>
               /\ c.op # "refresh" /\ ~in_refresh' /\ need_refresh' => s <= 7 + l
               /\ c.op # "refresh" /\ ~in_refresh' /\ ~need_refresh' =>
                    s + g <= 8 \/ (s + g <= 28 /\ r > g)
               /\ c.op # "refresh" /\ in_refresh' => s + n <= 24
               /\ c.op = "refresh" => s <= 17 /\ (~in_refresh' => s <= 16)
    BY <1>1, <1>2, <2>1
  <2>3. /\ c.op = "refresh" => need_refresh /\ ~in_refresh
        /\ refresh_clk \in Nat /\ in_refresh_clk \in 0 .. 6
    BY <1>1, <1>6, Given DEF Refreshes, Closing, Types
  <2>4. CASE refresh_cmd
    <3>1. stalled <= 17 /\ (~in_refresh => stalled <= 16)
      BY <1>6, <2>4 DEF Served, refresh_cmd
    <3>2. in_refresh' /\ n = 6
      BY <1>8, <2>4, TimersStep DEF OneClock
    <3> QED
      BY <1>1, <2>1, <2>3, <3>1, <3>2
  <2>5. CASE ~refresh_cmd /\ in_refresh
    <3>1. /\ stalled + in_refresh_clk <= 24 /\ refresh_clk >= in_refresh_clk + 6
      BY <1>6, <2>5 DEF Served, refresh_cmd, OneClock, Timed
    <3>2. r = refresh_clk - 1 /\ ~need_refresh'
      BY <1>8, <2>3, <2>5, <3>1, TimersStep DEF OneClock
    <3>3. CASE in_refresh_clk > 0
      <4>1. in_refresh' /\ n = in_refresh_clk - 1
        BY <1>8, <2>3, <2>5, <3>3, TimersStep DEF OneClock
      <4> QED
        BY <1>1, <2>1, <2>3, <2>5, <3>1, <4>1
    <3>4. CASE in_refresh_clk = 0
      <4>1. ~in_refresh' /\ stalled <= 24
        BY <1>1, <2>5, <3>1, <3>4, TimersStep DEF OneClock
      <4>2. g <= 3
        <5>1. PICK k : k = Own'
          OBVIOUS
        <5>2. k \in Bank
          BY <1>1, <5>1, RequestType DEF Types, Own
        <5>3. clocks_til_idle = 0 /\ bank_active[k] = 0
          BY <2>5, <5>2 DEF OneClock, Awake, Sound
        <5>4. c.op \notin {"activate", "precharge", "read", "write"}
          BY <2>5, Working
        <5>5. clocks_til_idle' = 0
          BY <5>3, <5>4 DEF OneClock, Issued, BusyAfter
        <5>6. bank_active'[k] = 0
          <6>1. bank_active'[k] = After(bank_active[k], c, k) /\ bank_active[k] \in BankStates
            BY <1>1, <5>2 DEF OneClock, Issued, Types
          <6> QED
            BY <5>3, <5>4, <6>1, AfterIs
        <5>7. ~IsOpen(Own)' /\ ~HasRow(r_req.addr)'
          BY <5>1, <5>6 DEF IsOpen, HasRow, Own
        <5> QED
          BY <1>8, <5>1, <5>5, <5>6, <5>7 DEF ToGo, Less
      <4> QED
        BY <1>1, <1>2, <2>1, <2>3, <2>5, <3>1, <3>2, <4>1, <4>2
    <3> QED
      BY <2>3, <3>3, <3>4
  <2>6. CASE ~refresh_cmd /\ ~in_refresh /\ need_refresh
    <3>1. late > 0 /\ stalled <= 7 + late
      BY <1>6, <2>6 DEF Served, refresh_cmd
    <3>2. refresh_clk = 0 /\ in_refresh_clk = 0
      BY <2>6, DueMeans
    <3>3. l = late + 1 /\ need_refresh' /\ ~in_refresh'
      BY <1>8, <2>6, <3>2, CountsStep, TimersStep DEF OneClock
    <3> QED
      BY <1>1, <1>2, <2>1, <3>1, <3>3
  <2>7. CASE ~refresh_cmd /\ ~in_refresh /\ ~need_refresh
    <3>1. stalled + ToGo <= 8 \/ (stalled + ToGo <= 28 /\ refresh_clk > ToGo)
      BY <1>6, <2>7 DEF Served, refresh_cmd
    <3>2. ToGo \in 0 .. 8
      BY <1>1, ToGoBound
    <3>3. CASE c.op \in BurstOp
      BY <1>1, <2>1, <3>1, <3>2, <3>3
    <3>4. CASE c.op \notin BurstOp
      <4>1. ToGo \in 1 .. 8 /\ g < ToGo /\ c.op # "refresh"
        BY <1>8, <1>6, <2>7, <3>4, Nearer
      <4>2. ~in_refresh'
        BY <2>3, <2>7, TimersStep DEF OneClock, Timed
      <4>3. CASE refresh_clk = 0
        <5>1. l = late + 1 /\ need_refresh' /\ stalled + ToGo <= 8
          BY <1>8, <2>7, <3>1, <3>2, <4>3, CountsStep, TimersStep DEF OneClock
        <5> QED
          BY <1>1, <2>1, <4>1, <4>2, <5>1
      <4>4. CASE refresh_clk > 0
        <5>1. r = refresh_clk - 1 /\ ~need_refresh'
          BY <1>8, <2>3, <2>7, <4>4, TimersStep DEF OneClock
        <5> QED
          BY <1>1, <1>2, <2>1, <2>3, <3>1, <4>1, <4>2, <5>1
      <4> QED
        BY <2>3, <4>3, <4>4
    <3> QED
      BY <3>3, <3>4
  <2> QED
    BY <2>4, <2>5, <2>6, <2>7
<1> QED
  BY <1>1, <1>4, <1>5, <1>6 DEF pending

-----------------------------------------------------------------------------
LEMMA SdramPrompt == Spec => []PromptInv
<1>1. Init => PromptInv
  BY StartsWell DEF Init, PromptInv
<1>2. PromptInv /\ [Next]_vars => PromptInv'
  <2> SUFFICES ASSUME PromptInv, [Next]_vars PROVE PromptInv'
    OBVIOUS
  <2>1. SdramInv'
    BY KeepsWell DEF PromptInv
  <2>2. ASSUME NEW cyc \in BOOLEAN, NEW new \in Request \cup {Nothing}, Clock(cyc, new),
               ~maintenance_mode'
        PROVE  Due' /\ Served'
    <3>1. CASE maintenance_mode
      <4>1. late' = 0 /\ stalled' = 0
        BY <2>2, <3>1 DEF Clock, History
      <4>2. ~r_pending'
        BY <2>2, <3>1, RequestStep DEF Clock, Operate, Maintain, Takes, PromptInv, SdramInv, Asleep
      <4> QED
        BY <4>1, <4>2 DEF Due, Served, pending
    <3>2. CASE ~maintenance_mode
      <4>1. PICK c : c = Decision(cyc)
        OBVIOUS
      <4>2. OneClock(c, cyc, new)
        BY <2>2, <3>2, <4>1, WorksOn DEF PromptInv, SdramInv
      <4>3. Due /\ Served
        BY <3>2 DEF PromptInv
      <4> QED
        BY <4>2, <4>3, StepDue, StepServed
    <3> QED
      BY <3>1, <3>2
  <2>3. CASE UNCHANGED vars
    <3>1. ToGo' = ToGo /\ (pending' <=> pending)
      BY <2>3 DEF ToGo, pending, Own, IsOpen, HasRow, vars, request, bank
    <3> QED
      BY <2>1, <2>3, <3>1 DEF PromptInv, Due, Served, IsOpen, JustOpened,
                              vars, refresh, request, bank, data, maintenance
  <2> QED
    BY <2>1, <2>2, <2>3 DEF PromptInv, Next
<1> QED
  BY <1>1, <1>2, PTL DEF Spec

(***************************************************************************)
(* RefreshInTime: however busy the bus is, a refresh that is due is on the *)
(* wires within nine clocks.                                               *)
(***************************************************************************)
THEOREM RefreshesInTime == Spec => []RefreshInTime
<1>1. PromptInv => RefreshInTime
  <2> SUFFICES ASSUME PromptInv PROVE RefreshInTime
    OBVIOUS
  <2>1. late \in 0 .. 9
    BY DEF PromptInv, SdramInv, Asleep, Due
  <2> QED
    BY <2>1 DEF RefreshInTime
<1> QED
  BY <1>1, SdramPrompt, PTL

(***************************************************************************)
(* StallBounded: whatever the banks are in the middle of, and with         *)
(* refreshes coming as often as they may, a request is taken within        *)
(* wbsdram.v's F_MAX_STALL.                                                *)
(***************************************************************************)
THEOREM TakenInTime == Spec => []StallBounded
<1>1. PromptInv => StallBounded
  <2> SUFFICES ASSUME PromptInv PROVE StallBounded
    OBVIOUS
  <2>1. stalled \in 0 .. 29
    BY DEF PromptInv, SdramInv, Asleep, Served
  <2> QED
    BY <2>1 DEF StallBounded, MaxStall
<1> QED
  BY <1>1, SdramPrompt, PTL
=============================================================================
