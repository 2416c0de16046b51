------------------------------- MODULE AddrCode -------------------------------
(***************************************************************************)
(* How sw/ttybus.cpp tells the debug bus an address: in as few six-bit     *)
(* digits as will do, from zero or from the last address, and what         *)
(* rtl/wbureadcw.v, wbudecompress.v and wbuexec.v make of it.  The digits  *)
(* are of base B here and addresses are counted in words.                  *)
(***************************************************************************)
EXTENDS LinkBounds

VARIABLES m_addr_set, m_lastaddr,   \* the host
          o_wb_addr,                \* wbuexec
          stray                     \* digits sent beyond the codeword

code == <<m_addr_set, m_lastaddr, o_wb_addr, stray>>

Addr == 0 .. Top - 1
HostSpace == Span(5)          \* 2^30 words

\* A codeword: from the last address or not, the digits its first digit
\* announces, the digits that follow it, and their value.
Code(rel, named, digits, val) ==
  [rel |-> rel, named |-> named, digits |-> digits, val |-> val]
-----------------------------------------------------------------------------
(***************************************************************************)
(* TTYBUS::encode_address.  The difference is unsigned, so a step back     *)
(* is a long way forward; a difference of four digits is announced as one  *)
(* of three.  0 stands for "cannot be encoded so".                         *)
(***************************************************************************)
Difference(last, a) == (a - last) % HostSpace

DiffDigits(d) ==
  CASE 2 * d < Span(1) -> 1
    [] 2 * d >= Span(1) /\ 2 * d < Span(2) -> 2
    [] 2 * d >= Span(2) /\ 2 * d < Span(3) -> 3
    [] 2 * d >= Span(3) /\ 2 * d < Span(4) -> 4
    [] OTHER -> 0

DiffNamed(n) == IF n = 4 THEN 3 ELSE n

AbsDigits(a) == CHOOSE n \in 1 .. 5 : a < Span(n) /\ (n > 1 => a >= Span(n - 1))

\* The absolute form is preferred when it is not longer; the one of six
\* characters only when there is no other.
EncodeAddress(set, last, a) ==
  LET d == Difference(last, a)
      n == IF set THEN DiffDigits(d) ELSE 0
      m == AbsDigits(a)
  IN IF n = 0 \/ (m <= n /\ m < 5)
     THEN Code(FALSE, m, m, a)
     ELSE Code(TRUE, DiffNamed(n), n, d % Span(n))

(***************************************************************************)
(* wbureadcw takes the digits announced, wbudecompress extends the sign of *)
(* an offset and wbuexec adds it.                                          *)
(***************************************************************************)

Extend(v, n) == IF 2 * v >= Span(n) THEN v - Span(n) ELSE v

TakenValue(c) == c.val \div Span(c.digits - c.named)

Decode(addr, c) ==
  IF c.rel THEN (addr + Extend(TakenValue(c), c.named)) % BusSpace ELSE TakenValue(c)
-----------------------------------------------------------------------------
CodeInit == m_addr_set = FALSE /\ m_lastaddr = 0 /\ o_wb_addr \in {0, Top - 1} /\ stray = 0

\* A call of the program at address a.
Access(a) ==
  /\ m_addr_set' = TRUE /\ m_lastaddr' = a
  /\ IF m_addr_set /\ a = m_lastaddr
     THEN UNCHANGED <<o_wb_addr, stray>>
     ELSE LET c == EncodeAddress(m_addr_set, m_lastaddr, a) IN
          /\ o_wb_addr' = Decode(o_wb_addr, c)
          /\ stray' = c.digits - c.named

CodeNext == \E a \in Addr : stray = 0 /\ Access(a)

CodeSpec == CodeInit /\ [][CodeNext]_code
-----------------------------------------------------------------------------
(***************************************************************************)
(* Wherever the last call left off and whichever form is the shorter, the  *)
(* bus is at the address the program gave (encode_address: "Encode a       *)
(* difference address", "Encode an absolute (low memory) address"), and no *)
(* digit is left over to be read as the start of another command.          *)
(***************************************************************************)
AddressArrives == m_addr_set => o_wb_addr = m_lastaddr /\ stray = 0

=============================================================================
