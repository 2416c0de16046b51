----------------------------- MODULE WbuCompress -----------------------------
(***************************************************************************)
(* rtl/wbucompress.v and the host's half of it, the read table of          *)
(* sw/ttybus.cpp.  A data codeword waiting for wbudeword is compared with  *)
(* the words sent since the last address codeword, one table entry a       *)
(* clock through a four-stage pipeline; if one is found in time its        *)
(* distance is sent instead of the word.  How long the word waits is up to *)
(* the serial port, so the codeword may be taken from any clock of the     *)
(* search.                                                                 *)
(*                                                                         *)
(* Each action is one clock.  The host resets its table when it sees an    *)
(* address codeword, as wbucompress.v:109-114 has it; what TTYBUS makes of *)
(* that is modelled in DebugLink.                                          *)
(***************************************************************************)
EXTENDS Integers

CONSTANTS Value,     \* data words
          T,         \* entries of the table, two at least (2^TBITS = 1024)
          FMax       \* distances a codeword can carry are below this: 2 .. T (289)

VARIABLES i_stb, i_codword,                \* wbuidleint's word
          a_stb, a_addrword, r_stb,
          tbl_addr, tbl_filled, compression_tbl,
          rd_addr, nxt_rd_addr, tbl_match, nxt_match,
          cword, caddr, dmatch, maddr, vaddr, pmatch,
          match, matchaddr, fmatch, r_cword,
          m_rdaddr, m_readtbl              \* the host

search == <<rd_addr, nxt_rd_addr, tbl_match, nxt_match, cword, caddr, dmatch, maddr,
            vaddr, pmatch, match, matchaddr, fmatch, r_cword>>
table == <<tbl_addr, tbl_filled, compression_tbl>>
host  == <<m_rdaddr, m_readtbl>>
vars  == <<i_stb, i_codword, a_stb, a_addrword, r_stb, table, search, host>>

Slot == 0 .. T - 1

\* A codeword: its kind and the 32 bits at the data's place.  "tbl" carries
\* a distance instead.
Codeword == [kind : {"addr", "data", "other"}, val : Value]

Blank == [kind |-> "other", val |-> CHOOSE v \in Value : TRUE]

w_accepted(busy) == a_stb /\ ~busy

\* The code on the wires to wbudeword.
o_cword == IF r_stb THEN r_cword ELSE a_addrword

\* Mutant: the entry being written counts as valid.
VAddrUpToWrite == tbl_filled \/ caddr <= tbl_addr

\* The entry read was written since the last address, and is not the one
\* being written.
VAddr == (tbl_filled \/ caddr < tbl_addr) /\ caddr # tbl_addr

Filled(busy) ==
  IF w_accepted(busy) /\ o_cword.kind = "addr" THEN FALSE
  ELSE tbl_addr = T - 1 \/ tbl_filled

TblAddr(busy) ==
  IF ~w_accepted(busy) THEN tbl_addr
  ELSE CASE o_cword.kind = "addr" -> 0
         [] o_cword.kind = "data" -> (tbl_addr + 1) % T
         [] OTHER -> tbl_addr

\* The search is started over.
Restarts(busy) == w_accepted(busy) \/ ~a_stb

\* The entry at the end of the pipeline is the word that waits.
Matches == vaddr /\ dmatch /\ a_addrword.kind = "data" /\ pmatch = 2
-----------------------------------------------------------------------------
Init ==
  /\ i_stb = FALSE /\ i_codword = Blank
  /\ a_stb = FALSE /\ a_addrword = Blank /\ r_stb = FALSE
  /\ tbl_addr = 0 /\ tbl_filled = FALSE /\ compression_tbl = [s \in Slot |-> Blank.val]
  /\ rd_addr = 0 /\ nxt_rd_addr = 0 /\ tbl_match = FALSE /\ nxt_match = FALSE
  /\ cword = Blank.val /\ caddr = 0 /\ dmatch = FALSE /\ maddr = 0 /\ vaddr = FALSE
  /\ pmatch = 0 /\ match = FALSE /\ matchaddr = 0 /\ fmatch = FALSE /\ r_cword = Blank
  /\ m_rdaddr = 0 /\ m_readtbl = [s \in Slot |-> Blank.val]

\* wbuidleint: a word is held until it is taken, and the next comes later.
Source ==
  /\ i_stb' \in BOOLEAN /\ i_codword' \in Codeword
  /\ i_stb /\ a_stb => i_stb' /\ i_codword' = i_codword
  /\ i_stb /\ ~a_stb => ~i_stb'
  /\ ~i_stb' => i_codword' = i_codword

Hold(busy) ==
  LET takes == i_stb /\ ~a_stb IN
  /\ a_addrword' = IF takes THEN i_codword ELSE a_addrword
  /\ a_stb' = (takes \/ (a_stb /\ busy))
  /\ r_stb' = a_stb

Table(busy) ==
  /\ tbl_addr' = TblAddr(busy)
  /\ tbl_filled' = Filled(busy)
  /\ compression_tbl' = [compression_tbl EXCEPT ![tbl_addr] = a_addrword.val]

\* The pipeline: read, compare, decide, encode.
Search(busy) ==
  /\ nxt_match' = ((nxt_rd_addr - tbl_addr) % T = 1)
  /\ IF Restarts(busy)
     THEN /\ rd_addr' = (tbl_addr - 1) % T /\ nxt_rd_addr' = (tbl_addr - 2) % T
          /\ tbl_match' = FALSE
     ELSE IF ~tbl_match /\ ~match /\ (nxt_rd_addr < T \div 2 \/ tbl_filled)
     THEN /\ rd_addr' = nxt_rd_addr /\ nxt_rd_addr' = (nxt_rd_addr - 1) % T
          /\ tbl_match' = nxt_match
     ELSE UNCHANGED <<rd_addr, nxt_rd_addr, tbl_match>>
  /\ cword' = compression_tbl[rd_addr] /\ caddr' = rd_addr
  /\ dmatch' = (cword = a_addrword.val)
  /\ maddr' = (tbl_addr - caddr) % T
  /\ vaddr' = VAddr
  /\ pmatch' = IF Restarts(busy) THEN 0 ELSE IF pmatch < 2 THEN pmatch + 1 ELSE 2
  /\ match' = (/\ ~Restarts(busy) /\ r_stb
               /\ match \/ Matches)
  /\ IF match THEN UNCHANGED <<matchaddr, fmatch>>
     ELSE matchaddr' = maddr /\ fmatch' = (maddr < FMax)
  /\ r_cword' = IF ~Restarts(busy) /\ r_stb /\ match /\ fmatch
                THEN [kind |-> "tbl", val |-> matchaddr]
                ELSE a_addrword

\* What the host makes of a codeword.
HostValue(c) == IF c.kind = "tbl" THEN m_readtbl[(m_rdaddr - c.val) % T] ELSE c.val

HostTakes(busy) ==
  IF w_accepted(busy) /\ o_cword.kind = "data"
  THEN /\ m_readtbl' = [m_readtbl EXCEPT ![m_rdaddr] = o_cword.val]
       /\ m_rdaddr' = (m_rdaddr + 1) % T
  ELSE /\ m_rdaddr' = IF w_accepted(busy) /\ o_cword.kind = "addr" THEN 0 ELSE m_rdaddr
       /\ UNCHANGED m_readtbl

Clock(busy) ==
  /\ Source
  /\ Hold(busy)
  /\ Table(busy)
  /\ Search(busy)
  /\ HostTakes(busy)

Next == \E busy \in BOOLEAN : Clock(busy)

Spec == Init /\ [][Next]_vars
-----------------------------------------------------------------------------

(***************************************************************************)
(* Whenever the codeword on the wires is taken, the host reads from it the *)
(* word it stands for: however the search was timed, no entry is sent that *)
(* was overwritten, left over from before the last address, or compared    *)
(* with another word.                                                      *)
(***************************************************************************)
HostReadsWord == a_stb => HostValue(o_cword) = a_addrword.val

=============================================================================
