--------------------------- MODULE WbuOutput_proof ---------------------------
(***************************************************************************)
(* Proofs about the way of a codeword to the serial port, for every set of *)
(* codewords of one to six digits, every length of line and every time     *)
(* before an idle codeword.                                                *)
(***************************************************************************)
EXTENDS WbuOutput, SequenceTheorems, TLAPS

Digit == [of : Codeword \cup {"nl"}, nth : Nat]

(***************************************************************************)
(* A digit comes from the word that is being cut, and a stage that says it *)
(* is not busy has nothing left of the word before.                        *)
(***************************************************************************)
Types ==
  /\ cw_stb \in BOOLEAN /\ a_stb \in BOOLEAN /\ dw_stb \in BOOLEAN /\ dw_busy \in BOOLEAN
  /\ ln_stb \in BOOLEAN /\ r_busy \in BOOLEAN /\ tx_stb \in BOOLEAN /\ i_tx_busy \in BOOLEAN
  /\ r_dly \in BOOLEAN
  /\ fifo \in Seq(Word) /\ cw_word \in Codeword /\ a_word \in Codeword /\ r_word \in Codeword
  /\ r_len \in 0 .. Len6(r_word) - 1
  /\ dw_char \in Digit /\ ln_char \in Digit /\ tx_char \in Digit

BusyWithWord == dw_stb \/ r_len # 0 => dw_busy

\* What each stage holds.
Tx == If(tx_stb /\ tx_char # NL, <<tx_char>>)
Ln == If(ln_stb /\ ln_char # NL, <<ln_char>>)
Dw == If(dw_stb /\ dw_char # NL, <<dw_char>>)
Rest == DigitsFrom(r_word, Len6(r_word) - r_len + 1)
Aw == If(a_stb, DigitsFrom(a_word, 1))
Cw == If(cw_stb, DigitsFrom(cw_word, 1))

IInv == Types /\ BusyWithWord /\ NothingLost

\* What goes from one stage to the next in a clock.
Loads == a_stb /\ ~dw_busy
Takes == dw_stb /\ ~ln_busy
Sent == tx_stb /\ ~i_tx_busy /\ tx_char # NL
Enters == If(Brought # "none", DigitsFrom(Brought, 1))
Loaded == If(Loads, DigitsFrom(a_word, 1))
Taken == If(Takes /\ dw_char # NL, <<dw_char>>)
Leaves == If(Sent, <<tx_char>>)

\* The first digit of a word, or of the rest of one.
At(w, n) == [of |-> w, nth |-> n]

LEMMA Lengths ==
  ASSUME NEW w \in Codeword PROVE Len6(w) \in 1 .. 6
<1>1. CASE w \in Made
  BY <1>1 DEF Len6
<1>2. CASE w \notin Made
  BY <1>2, DigitsAssumption DEF Len6, Codeword
<1> QED
  BY <1>1, <1>2

LEMMA DigitsSeq ==
  ASSUME NEW w \in Codeword, NEW n \in 1 .. Len6(w) + 1
  PROVE  /\ DigitsFrom(w, n) \in Seq(Digit) /\ Len(DigitsFrom(w, n)) = Len6(w) - n + 1
         /\ (n = Len6(w) + 1 => DigitsFrom(w, n) = << >>)
<1>1. PICK l \in 1 .. 6 : l = Len6(w)
  BY Lengths
<1>2. PICK m \in 0 .. 6 : m = l - n + 1
  BY <1>1
<1>3. PICK x : x = DigitsFrom(w, n)
  OBVIOUS
<1>4. x = [i \in 1 .. m |-> At(w, n + i - 1)]
  BY <1>1, <1>2, <1>3 DEF DigitsFrom, At
<1>5. \A i \in 1 .. 6 : At(w, n + i - 1) \in Digit
  BY <1>1 DEF At, Digit
<1>6. x \in Seq(Digit) /\ Len(x) = m
  BY <1>2, <1>4, <1>5
<1> QED
  BY <1>1, <1>2, <1>3, <1>6, EmptySeq

LEMMA FirstDigit ==
  ASSUME NEW w \in Codeword, NEW n \in 1 .. Len6(w)
  PROVE  /\ DigitsFrom(w, n) = <<At(w, n)>> \o DigitsFrom(w, n + 1)
         /\ At(w, n) \in Digit /\ At(w, n) # NL
<1>1. PICK l \in 1 .. 6 : l = Len6(w)
  BY Lengths
<1>2. PICK x, y, z : x = DigitsFrom(w, n) /\ y = DigitsFrom(w, n + 1) /\ z = <<At(w, n)>> \o y
  OBVIOUS
<1>3. /\ n \in 1 .. l
      /\ x = [i \in 1 .. l - n + 1 |-> At(w, n + i - 1)]
      /\ y = [i \in 1 .. l - (n + 1) + 1 |-> At(w, (n + 1) + i - 1)]
  BY <1>1, <1>2 DEF DigitsFrom, At
<1>4. /\ At(w, n) \in Digit /\ At(w, n) # NL
      /\ \A i \in 1 .. 6 : At(w, n + i - 1) \in Digit /\ At(w, (n + 1) + i - 1) \in Digit
  BY <1>1, <1>3 DEF At, Digit, NL
<1>5. l - n + 1 \in 1 .. 6 /\ l - (n + 1) + 1 \in 0 .. 5 /\ l - (n + 1) + 1 = (l - n + 1) - 1
  BY <1>1, <1>3
<1>6. PICK m \in 1 .. 6 : m = l - n + 1
  BY <1>5
<1>7. x = [i \in 1 .. m |-> At(w, n + i - 1)] /\ y = [i \in 1 .. m - 1 |-> At(w, (n + 1) + i - 1)]
  BY <1>3, <1>5, <1>6
<1>8. x \in Seq(Digit) /\ Len(x) = m /\ y \in Seq(Digit) /\ Len(y) = m - 1
  <2>1. n \in 1 .. Len6(w) + 1 /\ n + 1 \in 1 .. Len6(w) + 1
    BY <1>1
  <2>2. l - (n + 1) + 1 = m - 1
    BY <1>5, <1>6
  <2> QED
    BY <1>1, <1>2, <1>6, <2>1, <2>2, DigitsSeq
<1>9. /\ z \in Seq(Digit) /\ Len(z) = m
      /\ \A i \in 1 .. m : z[i] = (IF i = 1 THEN At(w, n) ELSE y[i - 1])
  <2>1. <<At(w, n)>> \in Seq(Digit) /\ Len(<<At(w, n)>>) = 1 /\ <<At(w, n)>>[1] = At(w, n)
    BY <1>4
  <2> QED
    BY <1>2, <1>6, <1>8, <2>1
<1>10. \A i \in 1 .. m : x[i] = z[i]
  <2>1. ASSUME NEW i \in 1 .. m PROVE x[i] = z[i]
    <3>1. x[i] = At(w, n + i - 1)
      BY <1>7
    <3>2. CASE i = 1
      <4>1. n + i - 1 = n
        BY <1>1, <1>3, <3>2
      <4> QED
        BY <1>6, <1>9, <3>1, <3>2, <4>1
    <3>3. CASE i # 1
      <4>1. i - 1 \in 1 .. m - 1 /\ (n + 1) + (i - 1) - 1 = n + i - 1
        BY <1>1, <1>3, <1>6, <3>3
      <4>2. y[i - 1] = At(w, n + i - 1)
        BY <1>7, <4>1
      <4> QED
        BY <1>9, <3>1, <3>3, <4>2
    <3> QED
      BY <3>2, <3>3
  <2> QED
    BY <2>1
<1>11. x = z
  BY <1>6, <1>8, <1>9, <1>10, SeqEqual
<1> QED
  BY <1>2, <1>4, <1>11

-----------------------------------------------------------------------------
(***************************************************************************)
(* Every clock keeps the types, and a stage that is busy says so.          *)
(***************************************************************************)
LEMMA BroughtWord ==
  ASSUME Types
  PROVE  /\ Brought \in Codeword \cup {"none"} /\ "none" \notin Codeword
         /\ Brought # "none" => ~cw_stb /\ ~cw_busy
         /\ fifo_rd => Head(fifo) \in Word /\ Tail(fifo) \in Seq(Word)
<1>1. fifo_rd => Head(fifo) \in Word /\ Tail(fifo) \in Seq(Word)
  BY DEF Types, fifo_rd
<1>2. "none" \notin Codeword
  BY WordAssumption DEF Codeword, Made
<1>3. CASE Open /\ fifo_rd
  <2>1. Brought = Head(fifo)
    BY <1>3 DEF Brought
  <2> QED
    BY <1>1, <1>2, <1>3, <2>1 DEF Open, Codeword
<1>4. CASE Open /\ ~fifo_rd
  <2>1. Brought \in {"int", "busy", "idle", "none"}
    BY <1>4 DEF Brought
  <2> QED
    BY <1>1, <1>2, <1>4, <2>1 DEF Open, Codeword, Made
<1>5. CASE ~Open
  <2>1. Brought = "none"
    BY <1>5 DEF Brought
  <2> QED
    BY <1>1, <1>2, <2>1
<1> QED
  BY <1>3, <1>4, <1>5

\* The strobes and what they stand for, as propositions.
LEMMA Strobes ==
  ASSUME Types, NEW w \in Word \cup {"none"}, NEW done \in BOOLEAN, Clock(w, done)
  PROVE  /\ cw_stb' <=> (IF cw_stb THEN a_stb ELSE Brought # "none")
         /\ a_stb' <=> (cw_taken \/ (a_stb /\ dw_busy))
         /\ tx_stb' <=> (IF tx_stb THEN i_tx_busy ELSE ln_stb)
         /\ i_tx_busy' \in BOOLEAN /\ r_busy' \in BOOLEAN /\ r_dly' \in BOOLEAN
         /\ cw_stb' \in BOOLEAN /\ a_stb' \in BOOLEAN /\ tx_stb' \in BOOLEAN
<1>1. cw_stb' = (IF cw_stb THEN a_stb ELSE Brought # "none")
  BY DEF Clock, IdleInt
<1>2. a_stb' = (cw_taken \/ (a_stb /\ dw_busy))
  BY DEF Clock, Compress
<1>3. tx_stb' = (IF tx_stb THEN i_tx_busy ELSE ln_stb) /\ i_tx_busy' = (IF i_tx_busy THEN ~done ELSE tx_stb)
  BY DEF Clock, SixChar
<1>4. /\ cw_stb' <=> (IF cw_stb THEN a_stb ELSE Brought # "none")
      /\ a_stb' <=> (cw_taken \/ (a_stb /\ dw_busy))
      /\ tx_stb' <=> (IF tx_stb THEN i_tx_busy ELSE ln_stb)
  BY <1>1, <1>2, <1>3
<1>5. cw_stb' \in BOOLEAN /\ a_stb' \in BOOLEAN /\ tx_stb' \in BOOLEAN /\ i_tx_busy' \in BOOLEAN
  <2>1. (Brought # "none") \in BOOLEAN
    OBVIOUS
  <2>2. (cw_taken \/ (a_stb /\ dw_busy)) \in BOOLEAN
    BY Zenon
  <2>3. i_tx_busy' \in BOOLEAN
    <3>1. CASE done
      BY <1>3, <3>1 DEF Types
    <3>2. CASE ~done
      BY <1>3, <3>2 DEF Types
    <3> QED
      BY <3>1, <3>2
  <2> QED
    BY <1>1, <1>2, <1>3, <2>1, <2>2, <2>3 DEF Types
<1>6. r_busy' = ln_stb
  BY DEF Clock, CompactLines
<1>7. r_dly' \in BOOLEAN
  BY Zenon DEF Clock, Deword
<1> QED
  BY <1>4, <1>5, <1>6, <1>7 DEF Types

\* wbudeword, by what it does in a clock.
LEMMA Cuts ==
  ASSUME Types, BusyWithWord, Deword
  PROVE  /\ dw_stb' \in BOOLEAN /\ dw_busy' \in BOOLEAN
         /\ Loads => /\ dw_stb' /\ dw_busy' /\ dw_char' = At(a_word, 1) /\ r_word' = a_word
                     /\ r_len' = Len6(a_word) - 1
         /\ ~Loads /\ dw_stb => /\ (dw_stb' <=> ln_busy) /\ dw_busy' /\ dw_char' = dw_char
                                /\ r_word' = r_word /\ r_len' = r_len
         /\ ~Loads /\ ~dw_stb /\ r_len # 0 =>
              /\ dw_stb' /\ dw_busy' /\ dw_char' = At(r_word, Len6(r_word) - r_len + 1)
              /\ r_word' = r_word /\ r_len' = r_len - 1
         /\ ~Loads /\ ~dw_stb /\ r_len = 0 =>
              /\ dw_char' = NL /\ r_word' = r_word /\ r_len' = 0
<1>1. PICK loads \in BOOLEAN, more \in BOOLEAN, breaks \in BOOLEAN, rests \in BOOLEAN :
        /\ loads <=> a_stb /\ ~dw_busy
        /\ more <=> ~loads /\ ~dw_stb /\ ~DewordDone
        /\ breaks <=> ~loads /\ DewordDone /\ dw_char # NL
        /\ rests <=> ~loads /\ DewordDone /\ dw_char = NL
  OBVIOUS
<1>2. dw_stb' <=> loads \/ (dw_stb /\ ln_busy) \/ more \/ breaks
  BY <1>1 DEF Deword
<1>3. dw_stb' \in BOOLEAN
  BY Zenon DEF Deword
<1>4. /\ dw_char' = (IF loads THEN At(a_word, 1)
                     ELSE IF more THEN At(r_word, Len6(r_word) - r_len + 1)
                     ELSE IF breaks THEN NL ELSE dw_char)
      /\ r_len' = (IF loads THEN Following(a_word) ELSE IF more THEN r_len - 1 ELSE r_len)
      /\ r_word' = (IF loads THEN a_word ELSE r_word)
  BY <1>1 DEF Deword, At
<1>5. dw_busy' = (IF rests THEN r_dly ELSE (dw_busy \/ loads \/ breaks))
  BY <1>1 DEF Deword
<1>6. dw_busy' \in BOOLEAN /\ (~rests => (dw_busy' <=> dw_busy \/ loads \/ breaks))
  BY <1>5 DEF Types
<1>7. DewordDone <=> ~dw_stb /\ r_len = 0
  BY DEF DewordDone
<1> QED
  BY <1>1, <1>2, <1>3, <1>4, <1>6, <1>7 DEF BusyWithWord, Loads, Following

\* wbucompactlines.
LEMMA Lines ==
  ASSUME Types, NEW busy \in BOOLEAN, CompactLines(busy)
  PROVE  /\ ln_stb' \in BOOLEAN
         /\ Takes => ln_char' = dw_char /\ (dw_char # NL => ln_stb')
         /\ ~Takes /\ ~ln_busy => ln_char' = NL
         /\ ~Takes /\ ln_busy => ln_char' = ln_char /\ (ln_stb' <=> ln_stb /\ tx_stb)
<1>1. ln_char' = (IF Takes THEN dw_char ELSE IF ~ln_busy THEN NL ELSE ln_char)
  BY DEF CompactLines, Takes
<1>2. ln_stb' = (IF Takes THEN Kept(dw_char) ELSE IF ~ln_busy THEN EndOfLine(busy) ELSE ln_stb /\ tx_stb)
  BY DEF CompactLines, Takes
<1>3. (dw_char # NL => Kept(dw_char)) /\ EndOfLine(busy) \in BOOLEAN /\ Kept(dw_char) \in BOOLEAN
  BY DEF Kept, EndOfLine
<1>4. (ln_stb /\ tx_stb) \in BOOLEAN
  OBVIOUS
<1>5. ln_stb' \in BOOLEAN
  BY <1>2, <1>3, <1>4
<1> QED
  BY <1>1, <1>2, <1>3, <1>5

LEMMA TypesKept ==
  ASSUME Types, BusyWithWord, NEW w \in Word \cup {"none"}, NEW done \in BOOLEAN, Clock(w, done)
  PROVE  Types' /\ BusyWithWord'
<1>1. /\ Deword /\ CompactLines(BusBusy(w)) /\ BusBusy(w) \in BOOLEAN
  BY DEF Clock, BusBusy
<1>2. /\ cw_stb' \in BOOLEAN /\ a_stb' \in BOOLEAN /\ tx_stb' \in BOOLEAN
      /\ i_tx_busy' \in BOOLEAN /\ r_busy' \in BOOLEAN /\ r_dly' \in BOOLEAN
  BY Strobes
<1>3. fifo' \in Seq(Word)
  <2>1. fifo' = (IF w # "none" THEN Append(IF fifo_rd THEN Tail(fifo) ELSE fifo, w)
                 ELSE IF fifo_rd THEN Tail(fifo) ELSE fifo)
    BY DEF Clock, Fifo
  <2>2. (IF fifo_rd THEN Tail(fifo) ELSE fifo) \in Seq(Word)
    BY BroughtWord DEF Types
  <2> QED
    BY <2>1, <2>2
<1>4. cw_word' \in Codeword /\ a_word' \in Codeword
  <2>1. /\ cw_word' = (IF Brought # "none" THEN Brought ELSE cw_word)
        /\ a_word' = (IF cw_taken THEN cw_word ELSE a_word)
    BY DEF Clock, IdleInt, Compress
  <2> QED
    BY <2>1, BroughtWord DEF Types
<1>5. /\ dw_stb' \in BOOLEAN /\ dw_busy' \in BOOLEAN /\ dw_char' \in Digit /\ r_word' \in Codeword
      /\ r_len' \in 0 .. Len6(r_word') - 1
  <2>0. a_word \in Codeword /\ r_word \in Codeword /\ r_len \in 0 .. Len6(r_word) - 1 /\ dw_char \in Digit
    BY DEF Types
  <2>1. Len6(a_word) \in 1 .. 6 /\ Len6(r_word) \in 1 .. 6
    BY <2>0, Lengths
  <2>2. CASE Loads
    <3>1. dw_char' = At(a_word, 1) /\ r_word' = a_word /\ r_len' = Len6(a_word) - 1
          /\ dw_stb' \in BOOLEAN /\ dw_busy' \in BOOLEAN
      BY <1>1, <2>2, Cuts
    <3>2. 1 \in 1 .. Len6(a_word) /\ Len6(a_word) - 1 \in 0 .. Len6(a_word) - 1
      BY <2>1
    <3>3. At(a_word, 1) \in Digit
      BY <2>0, <3>2, FirstDigit
    <3> QED
      BY <2>0, <3>1, <3>2, <3>3
  <2>3. CASE ~Loads /\ dw_stb
    BY <1>1, <2>0, <2>3, Cuts
  <2>4. CASE ~Loads /\ ~dw_stb /\ r_len # 0
    <3>1. dw_char' = At(r_word, Len6(r_word) - r_len + 1) /\ r_word' = r_word /\ r_len' = r_len - 1
          /\ dw_stb' \in BOOLEAN /\ dw_busy' \in BOOLEAN
      BY <1>1, <2>4, Cuts
    <3>2. Len6(r_word) - r_len + 1 \in 1 .. Len6(r_word) /\ r_len - 1 \in 0 .. Len6(r_word) - 1
      BY <2>0, <2>1, <2>4
    <3>3. At(r_word, Len6(r_word) - r_len + 1) \in Digit
      BY <2>0, <3>2, FirstDigit
    <3> QED
      BY <2>0, <3>1, <3>2, <3>3
  <2>5. CASE ~Loads /\ ~dw_stb /\ r_len = 0
    <3>1. dw_char' = NL /\ r_word' = r_word /\ r_len' = 0 /\ dw_stb' \in BOOLEAN /\ dw_busy' \in BOOLEAN
      BY <1>1, <2>5, Cuts
    <3>2. NL \in Digit
      BY DEF NL, Digit
    <3> QED
      BY <2>0, <2>5, <3>1, <3>2
  <2> QED
    BY <2>2, <2>3, <2>4, <2>5
<1>6. ln_stb' \in BOOLEAN /\ ln_char' \in Digit
  <2>1. ln_stb' \in BOOLEAN /\ ln_char' \in {dw_char, NL, ln_char}
    BY <1>1, Lines
  <2>2. NL \in Digit /\ dw_char \in Digit /\ ln_char \in Digit
    BY DEF NL, Digit, Types
  <2> QED
    BY <2>1, <2>2
<1>7. tx_char' \in Digit
  BY DEF Clock, SixChar, Types
<1>8. BusyWithWord'
  <2>1. CASE Loads \/ dw_stb \/ r_len # 0
    BY <1>1, <2>1, Cuts DEF BusyWithWord
  <2>2. CASE ~Loads /\ ~dw_stb /\ r_len = 0
    <3>1. r_len' = 0
      BY <1>1, <2>2, Cuts
    <3>2. dw_stb' => dw_busy'
      <4>1. dw_stb' => DewordDone /\ dw_char # NL
        BY <2>2 DEF Clock, Deword, Loads, DewordDone
      <4>2. DewordDone /\ dw_char # NL => dw_busy'
        BY <2>2 DEF Clock, Deword, Loads, DewordDone
      <4> QED
        BY <4>1, <4>2
    <3> QED
      BY <3>1, <3>2 DEF BusyWithWord
  <2> QED
    BY <2>1, <2>2
<1> QED
  BY <1>2, <1>3, <1>4, <1>5, <1>6, <1>7, <1>8 DEF Types

-----------------------------------------------------------------------------
(***************************************************************************)
(* What a stage held and was given is what it gave on and holds.           *)
(***************************************************************************)
LEMMA FlowsIn ==
  ASSUME Types, BusyWithWord, NEW w \in Word \cup {"none"}, NEW done \in BOOLEAN, Clock(w, done)
  PROVE  (Aw \o Cw) \o Enters = Loaded \o (Aw' \o Cw')
<1>1. /\ cw_stb' <=> (IF cw_stb THEN a_stb ELSE Brought # "none")
      /\ a_stb' <=> (cw_taken \/ (a_stb /\ dw_busy))
  BY Strobes
<1>2. /\ cw_word' = (IF Brought # "none" THEN Brought ELSE cw_word)
      /\ a_word' = (IF cw_taken THEN cw_word ELSE a_word)
  BY DEF Clock, IdleInt, Compress
<1>3. /\ Brought # "none" => ~cw_stb /\ DigitsFrom(Brought, 1) \in Seq(Digit)
      /\ DigitsFrom(a_word, 1) \in Seq(Digit) /\ DigitsFrom(cw_word, 1) \in Seq(Digit)
  <2>1. \A v \in Codeword : 1 \in 1 .. Len6(v) + 1
    BY Lengths
  <2> QED
    BY <2>1, BroughtWord, DigitsSeq DEF Types
<1>4. PICK x, y, z : x = DigitsFrom(a_word, 1) /\ y = DigitsFrom(cw_word, 1) /\ z = Enters
  OBVIOUS
<1>5. x \in Seq(Digit) /\ y \in Seq(Digit) /\ z \in Seq(Digit)
  BY <1>3, <1>4, EmptySeq DEF Enters, If
<1>6. /\ x \o << >> = x /\ << >> \o x = x /\ y \o << >> = y /\ << >> \o y = y /\ << >> \o z = z
      /\ << >> \o << >> = << >> /\ x \o y \in Seq(Digit) /\ (x \o y) \o << >> = x \o y
  BY <1>5, ConcatEmptySeq, ConcatProperties, EmptySeq
<1>7. PICK p, q : p = Aw' /\ q = Cw'
  OBVIOUS
<1>8. CASE cw_stb
  <2>1. z = << >> /\ Brought = "none"
    BY <1>3, <1>4, <1>8 DEF Enters, If
  <2>2. CASE a_stb /\ dw_busy
    <3>1. p = x /\ q = y /\ Loaded = << >> /\ Aw = x /\ Cw = y
      BY <1>1, <1>2, <1>4, <1>7, <1>8, <2>1, <2>2 DEF Aw, Cw, Loaded, Loads, If, cw_taken
    <3> QED
      BY <1>4, <1>5, <1>6, <1>7, <2>1, <3>1, ConcatEmptySeq, ConcatProperties
  <2>3. CASE a_stb /\ ~dw_busy
    <3>1. p = << >> /\ q = y /\ Loaded = x /\ Aw = x /\ Cw = y
      BY <1>1, <1>2, <1>4, <1>7, <1>8, <2>1, <2>3 DEF Aw, Cw, Loaded, Loads, If, cw_taken
    <3> QED
      BY <1>4, <1>6, <1>7, <2>1, <3>1
  <2>4. CASE ~a_stb
    <3>1. p = y /\ q = << >> /\ Loaded = << >> /\ Aw = << >> /\ Cw = y
      BY <1>1, <1>2, <1>4, <1>7, <1>8, <2>1, <2>4 DEF Aw, Cw, Loaded, Loads, If, cw_taken
    <3> QED
      BY <1>4, <1>6, <1>7, <2>1, <3>1
  <2> QED
    BY <2>2, <2>3, <2>4
<1>9. CASE ~cw_stb
  <2>1. q = z /\ Cw = << >> /\ ~cw_taken /\ a_word' = a_word
    BY <1>1, <1>2, <1>4, <1>7, <1>9 DEF Cw, Enters, If, cw_taken
  <2>2. CASE a_stb /\ dw_busy
    <3>1. p = x /\ Loaded = << >> /\ Aw = x
      BY <1>1, <1>2, <1>4, <1>7, <2>1, <2>2 DEF Aw, Loaded, Loads, If
    <3>2. << >> \o (x \o z) = x \o z
      BY <1>5, ConcatEmptySeq, ConcatProperties
    <3> QED
      BY <1>4, <1>6, <1>7, <2>1, <3>1, <3>2
  <2>3. CASE a_stb /\ ~dw_busy
    <3>1. p = << >> /\ Loaded = x /\ Aw = x
      BY <1>1, <1>2, <1>4, <1>7, <2>1, <2>3 DEF Aw, Loaded, Loads, If
    <3> QED
      BY <1>4, <1>6, <1>7, <2>1, <3>1
  <2>4. CASE ~a_stb
    <3>1. p = << >> /\ Loaded = << >> /\ Aw = << >>
      BY <1>1, <1>2, <1>4, <1>7, <2>1, <2>4 DEF Aw, Loaded, Loads, If
    <3> QED
      BY <1>4, <1>6, <1>7, <2>1, <3>1
  <2> QED
    BY <2>2, <2>3, <2>4
<1> QED
  BY <1>8, <1>9

LEMMA FlowsThrough ==
  ASSUME Types, BusyWithWord, NEW w \in Word \cup {"none"}, NEW done \in BOOLEAN, Clock(w, done)
  PROVE  (Dw \o Rest) \o Loaded = Taken \o (Dw' \o Rest')
<1>1. Deword /\ a_word \in Codeword /\ r_word \in Codeword /\ r_len \in 0 .. Len6(r_word) - 1
      /\ dw_char \in Digit
  BY DEF Clock, Types
<1>2. Len6(a_word) \in 1 .. 6 /\ Len6(r_word) \in 1 .. 6
  BY <1>1, Lengths
<1>3. PICK x, y, z, v : x = Rest /\ y = Loaded /\ z = Rest' /\ v = Dw'
  OBVIOUS
<1>4. x \in Seq(Digit) /\ (r_len = 0 => x = << >>)
  <2>1. Len6(r_word) - r_len + 1 \in 1 .. Len6(r_word) + 1
        /\ (r_len = 0 => Len6(r_word) - r_len + 1 = Len6(r_word) + 1)
    BY <1>1, <1>2
  <2> QED
    BY <1>1, <1>3, <2>1, DigitsSeq DEF Rest
<1>5. y \in Seq(Digit)
  <2>1. 1 \in 1 .. Len6(a_word) + 1
    BY <1>2
  <2> QED
    BY <1>1, <1>3, <2>1, DigitsSeq, EmptySeq DEF Loaded, If
<1>6. /\ x \o << >> = x /\ << >> \o x = x /\ y \o << >> = y /\ << >> \o y = y /\ << >> \o << >> = << >>
  BY <1>4, <1>5, ConcatEmptySeq, EmptySeq
<1>7. CASE Loads
  <2>1. ~dw_stb /\ r_len = 0
    BY <1>7 DEF Loads, BusyWithWord
  <2>2. Dw = << >> /\ Taken = << >> /\ x = << >>
    BY <1>4, <2>1 DEF Dw, Taken, Takes, If
  <2>3. /\ dw_stb' /\ dw_char' = At(a_word, 1) /\ r_word' = a_word /\ r_len' = Len6(a_word) - 1
    BY <1>1, <1>7, Cuts
  <2>4. 1 \in 1 .. Len6(a_word) /\ Len6(a_word) - (Len6(a_word) - 1) + 1 = 1 + 1
    BY <1>2
  <2>5. /\ DigitsFrom(a_word, 1) = <<At(a_word, 1)>> \o DigitsFrom(a_word, 1 + 1)
        /\ At(a_word, 1) # NL
    BY <1>1, <2>4, FirstDigit
  <2>6. z = DigitsFrom(a_word, Len6(a_word) - (Len6(a_word) - 1) + 1)
    BY <1>3, <2>3 DEF Rest, DigitsFrom, Len6
  <2>7. v = <<At(a_word, 1)>>
    BY <1>3, <2>3, <2>5 DEF Dw, If
  <2>8. y = v \o z
    BY <1>3, <1>7, <2>4, <2>5, <2>6, <2>7 DEF Loaded, If
  <2>9. << >> \o (v \o z) = v \o z
    BY <1>6, <2>8
  <2> QED
    BY <1>3, <1>6, <2>2, <2>8
<1>8. CASE ~Loads /\ dw_stb
  <2>1. /\ (dw_stb' <=> ln_busy) /\ dw_char' = dw_char /\ r_word' = r_word /\ r_len' = r_len
    BY <1>1, <1>8, Cuts
  <2>2. z = x /\ y = << >>
    BY <1>3, <1>8, <2>1 DEF Rest, DigitsFrom, Len6, Loaded, If
  <2>3. Dw = (IF dw_char # NL THEN <<dw_char>> ELSE << >>)
    BY <1>8 DEF Dw, If
  <2>4. PICK g : g = Dw
    OBVIOUS
  <2>5. g \in Seq(Digit)
    BY <1>1, <2>3, <2>4, EmptySeq
  <2>6. (g \o x) \o << >> = g \o x /\ << >> \o (g \o x) = g \o x
    BY <1>4, <2>5, ConcatEmptySeq, ConcatProperties
  <2>7. CASE ln_busy
    <3>1. v = g /\ Taken = << >>
      BY <1>3, <1>8, <2>1, <2>4, <2>7 DEF Dw, Taken, Takes, If
    <3> QED
      BY <1>3, <2>2, <2>4, <2>6, <3>1
  <2>8. CASE ~ln_busy
    <3>1. v = << >> /\ Taken = g
      BY <1>3, <1>8, <2>1, <2>3, <2>4, <2>8 DEF Dw, Taken, Takes, If
    <3> QED
      BY <1>3, <1>6, <2>2, <2>4, <2>6, <3>1
  <2> QED
    BY <2>7, <2>8
<1>9. CASE ~Loads /\ ~dw_stb /\ r_len # 0
  <2>1. PICK n \in 1 .. Len6(r_word) : n = Len6(r_word) - r_len + 1 /\ Len6(r_word) - (r_len - 1) + 1 = n + 1
    BY <1>1, <1>2, <1>9
  <2>2. dw_stb' /\ dw_char' = At(r_word, n) /\ r_word' = r_word /\ r_len' = r_len - 1
    BY <1>1, <1>9, <2>1, Cuts
  <2>3. x = <<At(r_word, n)>> \o DigitsFrom(r_word, n + 1) /\ At(r_word, n) # NL
    BY <1>1, <1>3, <2>1, FirstDigit DEF Rest
  <2>4. z = DigitsFrom(r_word, Len6(r_word) - (r_len - 1) + 1)
    BY <1>3, <2>2 DEF Rest, DigitsFrom, Len6
  <2>5. v = <<At(r_word, n)>> /\ Dw = << >> /\ Taken = << >> /\ y = << >>
    BY <1>3, <1>9, <2>2, <2>3 DEF Dw, Taken, Takes, Loaded, If
  <2>6. x = v \o z
    BY <2>1, <2>3, <2>4, <2>5
  <2> QED
    BY <1>3, <1>6, <2>5, <2>6
<1>10. CASE ~Loads /\ ~dw_stb /\ r_len = 0
  <2>1. dw_char' = NL /\ r_word' = r_word /\ r_len' = r_len
    BY <1>1, <1>10, Cuts
  <2>2. z = x
    BY <1>3, <2>1 DEF Rest, DigitsFrom, Len6
  <2>3. v = << >> /\ Dw = << >> /\ Taken = << >> /\ y = << >> /\ x = << >>
    BY <1>3, <1>4, <1>10, <2>1 DEF Dw, Taken, Takes, Loaded, If
  <2> QED
    BY <1>3, <1>6, <2>2, <2>3
<1> QED
  BY <1>7, <1>8, <1>9, <1>10

LEMMA FlowsOut ==
  ASSUME Types, NEW w \in Word \cup {"none"}, NEW done \in BOOLEAN, Clock(w, done)
  PROVE  (Tx \o Ln) \o Taken = Leaves \o (Tx' \o Ln')
<1>1. /\ CompactLines(BusBusy(w)) /\ BusBusy(w) \in BOOLEAN
  BY DEF Clock, BusBusy
<1>2. tx_stb' <=> (IF tx_stb THEN i_tx_busy ELSE ln_stb)
  BY Strobes
<1>3. tx_char' = (IF ln_stb /\ ~tx_stb THEN ln_char ELSE tx_char)
  BY DEF Clock, SixChar
<1>4. /\ Takes => ln_char' = dw_char /\ (dw_char # NL => ln_stb')
      /\ ~Takes /\ ~ln_busy => ln_char' = NL
      /\ ~Takes /\ ln_busy => ln_char' = ln_char /\ (ln_stb' <=> ln_stb /\ tx_stb)
  BY <1>1, Lines
<1>5. /\ Takes => ~ln_stb
      /\ ~ln_busy => ~ln_stb
  BY DEF Takes, ln_busy
<1>6. PICK x, y, z, p, q : x = Tx /\ y = Ln /\ z = Taken /\ p = Tx' /\ q = Ln'
  OBVIOUS
<1>7. x \in Seq(Digit) /\ y \in Seq(Digit) /\ z \in Seq(Digit)
  BY <1>6, EmptySeq DEF Tx, Ln, Taken, If, Types
<1>8. /\ x \o << >> = x /\ << >> \o x = x /\ y \o << >> = y /\ << >> \o y = y /\ << >> \o z = z
      /\ << >> \o << >> = << >> /\ (x \o y) \o << >> = x \o y /\ << >> \o (x \o y) = x \o y
      /\ << >> \o (x \o z) = x \o z /\ z \o << >> = z
  BY <1>7, ConcatEmptySeq, ConcatProperties, EmptySeq
<1>9. CASE ln_stb
  <2>1. z = << >> /\ ~Takes /\ ln_busy /\ ln_char' = ln_char /\ (ln_stb' <=> tx_stb)
    BY <1>4, <1>5, <1>6, <1>9 DEF Taken, If
  <2>2. y = (IF ln_char # NL THEN <<ln_char>> ELSE << >>)
    BY <1>6, <1>9 DEF Ln, If
  <2>3. CASE tx_stb
    <3>1. q = y /\ tx_char' = tx_char /\ (tx_stb' <=> i_tx_busy)
      BY <1>2, <1>3, <1>6, <2>1, <2>2, <2>3 DEF Ln, If
    <3>2. Leaves = (IF i_tx_busy THEN << >> ELSE x) /\ p = (IF i_tx_busy THEN x ELSE << >>)
      BY <1>6, <2>3, <3>1 DEF Leaves, Sent, Tx, If
    <3> QED
      BY <1>6, <1>8, <2>1, <3>1, <3>2
  <2>4. CASE ~tx_stb
    <3>1. q = << >> /\ x = << >> /\ Leaves = << >> /\ tx_stb' /\ tx_char' = ln_char
      BY <1>2, <1>3, <1>6, <1>9, <2>1, <2>4 DEF Ln, Tx, Leaves, Sent, If
    <3>2. p = y
      BY <1>6, <2>2, <3>1 DEF Tx, If
    <3> QED
      BY <1>6, <1>8, <2>1, <3>1, <3>2
  <2> QED
    BY <2>3, <2>4
<1>10. CASE ~ln_stb
  <2>1. y = << >> /\ tx_char' = tx_char /\ (tx_stb' <=> tx_stb /\ i_tx_busy)
    BY <1>2, <1>3, <1>6, <1>10 DEF Ln, If
  <2>2. Leaves = (IF i_tx_busy THEN << >> ELSE x) /\ p = (IF i_tx_busy THEN x ELSE << >>)
    BY <1>6, <2>1 DEF Leaves, Sent, Tx, If
  <2>3. q = z
    <3>1. CASE Takes
      BY <1>4, <1>6, <3>1 DEF Ln, Taken, If
    <3>2. CASE ~Takes
      BY <1>4, <1>6, <1>10, <3>2 DEF Ln, Taken, If
    <3> QED
      BY <3>1, <3>2
  <2> QED
    BY <1>6, <1>8, <2>1, <2>2, <2>3
<1> QED
  BY <1>9, <1>10

\* Sequences of digits, one behind the other.
Joins(s, t, u) ==
  (s \o t) \o u = s \o (t \o u) /\ s \o t \in Seq(Digit) /\ Len(s \o t) = Len(s) + Len(t)
LEMMA Behind ==
  ASSUME NEW s \in Seq(Digit), NEW t \in Seq(Digit), NEW u \in Seq(Digit) PROVE Joins(s, t, u)
BY ConcatAssociative, ConcatProperties DEF Joins

\* What passes from stage to stage passes through all of them.
Through(p, q, r, e, v, p1, q1, r1) == ((p \o q) \o r) \o e = v \o ((p1 \o q1) \o r1)
LEMMA Flows ==
  ASSUME NEW p \in Seq(Digit), NEW q \in Seq(Digit), NEW r \in Seq(Digit), NEW e \in Seq(Digit),
         NEW l \in Seq(Digit), NEW t \in Seq(Digit), NEW v \in Seq(Digit),
         NEW p1 \in Seq(Digit), NEW q1 \in Seq(Digit), NEW r1 \in Seq(Digit),
         r \o e = l \o r1, q \o l = t \o q1, p \o t = v \o p1
  PROVE  Through(p, q, r, e, v, p1, q1, r1)
<1>1. PICK a, c : a = p \o q /\ c = p1 \o q1
  OBVIOUS
<1>2. Joins(p, q, l) /\ Joins(p1, q1, r1) /\ Joins(p, t, q1) /\ Joins(v, p1, q1)
  BY Behind
<1>3. a \in Seq(Digit) /\ c \in Seq(Digit)
  BY <1>1, <1>2 DEF Joins
<1>4. Joins(a, r, e) /\ Joins(a, l, r1) /\ Joins(v, c, r1)
  BY <1>3, Behind
<1> QED
  BY <1>1, <1>2, <1>4 DEF Joins, Through

LEMMA TailOfFirst ==
  ASSUME NEW c \in Digit, NEW s \in Seq(Digit), NEW x, x = <<c>> \o s PROVE Tail(x) = s
<1>1. PICK y : y = Tail(x)
  OBVIOUS
<1>2. <<c>> \in Seq(Digit) /\ Len(<<c>>) = 1 /\ Len(s) \in Nat
  OBVIOUS
<1>3. /\ x \in Seq(Digit) /\ Len(x) = 1 + Len(s)
      /\ \A i \in 1 .. Len(s) : x[i + 1] = s[i]
  <2>1. \A i \in 1 .. Len(s) : ~(i + 1 <= 1) /\ (i + 1) - 1 = i /\ i + 1 \in 1 .. 1 + Len(s)
    BY <1>2
  <2> QED
    BY <1>1, <1>2, <2>1, ConcatProperties
<1>4. y \in Seq(Digit) /\ Len(y) = Len(s) /\ \A i \in 1 .. Len(s) : y[i] = x[i + 1]
  BY <1>1, <1>2, <1>3
<1> QED
  BY <1>1, <1>3, <1>4, SeqEqual

\* What the stages hold, two by two.
Held ==
  /\ Tx \in Seq(Digit) /\ Ln \in Seq(Digit) /\ Dw \in Seq(Digit) /\ Rest \in Seq(Digit)
  /\ Aw \in Seq(Digit) /\ Cw \in Seq(Digit)
  /\ InPipe = ((Tx \o Ln) \o (Dw \o Rest)) \o (Aw \o Cw)
Passed ==
  /\ Enters \in Seq(Digit) /\ Loaded \in Seq(Digit) /\ Taken \in Seq(Digit) /\ Leaves \in Seq(Digit)

LEMMA Holds == Types => Held /\ Passed
<1> SUFFICES ASSUME Types PROVE Held /\ Passed
  OBVIOUS
<1>1. /\ tx_char \in Digit /\ ln_char \in Digit /\ dw_char \in Digit /\ << >> \in Seq(Digit)
      /\ a_word \in Codeword /\ cw_word \in Codeword /\ r_word \in Codeword
      /\ r_len \in 0 .. Len6(r_word) - 1 /\ Brought \in Codeword \cup {"none"}
  BY BroughtWord, EmptySeq DEF Types
<1>2. \A u \in Codeword : DigitsFrom(u, 1) \in Seq(Digit)
  <2>1. \A u \in Codeword : 1 \in 1 .. Len6(u) + 1
    BY Lengths
  <2> QED
    BY <2>1, DigitsSeq
<1>3. Rest \in Seq(Digit)
  <2>1. Len6(r_word) - r_len + 1 \in 1 .. Len6(r_word) + 1
    BY <1>1, Lengths
  <2> QED
    BY <1>1, <2>1, DigitsSeq DEF Rest
<1>4. Tx \in Seq(Digit) /\ Ln \in Seq(Digit) /\ Dw \in Seq(Digit) /\ Taken \in Seq(Digit) /\ Leaves \in Seq(Digit)
  BY <1>1 DEF Tx, Ln, Dw, Taken, Leaves, If
<1>5. Aw \in Seq(Digit) /\ Cw \in Seq(Digit) /\ Enters \in Seq(Digit) /\ Loaded \in Seq(Digit)
  BY <1>1, <1>2 DEF Aw, Cw, Enters, Loaded, If
<1>6. PICK p1, p2, p3, p4, p5, p6 :
        p1 = Tx /\ p2 = Ln /\ p3 = Dw /\ p4 = Rest /\ p5 = Aw /\ p6 = Cw
  OBVIOUS
<1>7. p1 \o p2 \o p3 \o p4 \o p5 \o p6 = ((p1 \o p2) \o (p3 \o p4)) \o (p5 \o p6)
  <2>1. p1 \in Seq(Digit) /\ p2 \in Seq(Digit) /\ p3 \in Seq(Digit) /\ p4 \in Seq(Digit) /\ p5 \in Seq(Digit)
        /\ p6 \in Seq(Digit)
    BY <1>3, <1>4, <1>5, <1>6
  <2>2. PICK x, y, z : x = p1 \o p2 /\ y = p3 \o p4 /\ z = x \o y
    OBVIOUS
  <2>3. Joins(p1, p2, p3) /\ Joins(p3, p4, p5)
    BY <2>1, Behind
  <2>4. x \in Seq(Digit) /\ y \in Seq(Digit)
    BY <2>2, <2>3 DEF Joins
  <2>5. Joins(x, p3, p4) /\ Joins(x, y, p5)
    BY <2>1, <2>4, Behind
  <2>6. z \in Seq(Digit)
    BY <2>2, <2>5 DEF Joins
  <2>7. Joins(z, p5, p6)
    BY <2>1, <2>6, Behind
  <2> QED
    BY <2>2, <2>5, <2>7 DEF Joins
<1>8. InPipe = p1 \o p2 \o p3 \o p4 \o p5 \o p6
  BY <1>6 DEF InPipe, Tx, Ln, Dw, Rest, Aw, Cw
<1> QED
  BY <1>3, <1>4, <1>5, <1>6, <1>7, <1>8 DEF Held, Passed

LEMMA HoldsNext == Types' => Held'
BY Holds, PTL

\* Two stages hold a sequence of digits.
LEMMA Pairs ==
  ASSUME NEW a \in Seq(Digit), NEW b \in Seq(Digit), NEW c \in Seq(Digit), NEW d \in Seq(Digit),
         NEW e \in Seq(Digit), NEW f \in Seq(Digit)
  PROVE  /\ a \o b \in Seq(Digit) /\ c \o d \in Seq(Digit) /\ e \o f \in Seq(Digit)
         /\ ((a \o b) \o (c \o d)) \o (e \o f) \in Seq(Digit)
<1>1. PICK p, q, r : p = a \o b /\ q = c \o d /\ r = e \o f
  OBVIOUS
<1>2. p \in Seq(Digit) /\ q \in Seq(Digit) /\ r \in Seq(Digit)
  <2>1. Joins(a, b, b) /\ Joins(c, d, d) /\ Joins(e, f, f)
    BY Behind
  <2> QED
    BY <1>1, <2>1 DEF Joins
<1>3. PICK g : g = p \o q
  OBVIOUS
<1>4. g \in Seq(Digit)
  <2>1. Joins(p, q, r)
    BY <1>2, Behind
  <2> QED
    BY <1>3, <2>1 DEF Joins
<1>5. Joins(g, r, r)
  BY <1>2, <1>4, Behind
<1> QED
  BY <1>1, <1>2, <1>3, <1>5 DEF Joins

LEMMA LostKept ==
  ASSUME IInv, NEW w \in Word \cup {"none"}, NEW done \in BOOLEAN, Clock(w, done)
  PROVE  IInv'
<1>1. Types /\ BusyWithWord /\ InPipe = owed
  BY DEF IInv, NothingLost
<1>2. Types' /\ BusyWithWord'
  BY <1>1, TypesKept
<1>3. PICK p, q, r, e, l, t, v, o :
        /\ p = Tx \o Ln /\ q = Dw \o Rest /\ r = Aw \o Cw /\ e = Enters /\ l = Loaded /\ t = Taken
        /\ v = Leaves /\ o = owed
  OBVIOUS
<1>4. PICK p1, q1, r1 : p1 = Tx' \o Ln' /\ q1 = Dw' \o Rest' /\ r1 = Aw' \o Cw'
  OBVIOUS
<1>5. /\ p \in Seq(Digit) /\ q \in Seq(Digit) /\ r \in Seq(Digit) /\ e \in Seq(Digit)
      /\ l \in Seq(Digit) /\ t \in Seq(Digit) /\ v \in Seq(Digit)
      /\ o = (p \o q) \o r /\ o \in Seq(Digit)
  <2>1. Held /\ Passed
    BY <1>1, Holds
  <2>2. /\ Tx \in Seq(Digit) /\ Ln \in Seq(Digit) /\ Dw \in Seq(Digit) /\ Rest \in Seq(Digit)
        /\ Aw \in Seq(Digit) /\ Cw \in Seq(Digit)
    BY <2>1 DEF Held
  <2>3. /\ Tx \o Ln \in Seq(Digit) /\ Dw \o Rest \in Seq(Digit) /\ Aw \o Cw \in Seq(Digit)
        /\ ((Tx \o Ln) \o (Dw \o Rest)) \o (Aw \o Cw) \in Seq(Digit)
    BY <2>2, Pairs
  <2>4. o = (p \o q) \o r
    BY <1>1, <1>3, <2>1 DEF Held
  <2>5. e \in Seq(Digit) /\ l \in Seq(Digit) /\ t \in Seq(Digit) /\ v \in Seq(Digit)
    BY <1>3, <2>1 DEF Passed
  <2> QED
    BY <1>3, <2>3, <2>4, <2>5
<1>6. p1 \in Seq(Digit) /\ q1 \in Seq(Digit) /\ r1 \in Seq(Digit) /\ InPipe' = (p1 \o q1) \o r1
      /\ InPipe' \in Seq(Digit)
  <2>1. Held'
    BY <1>2, HoldsNext
  <2>2. PICK a, b, c, d, f, g : a = Tx' /\ b = Ln' /\ c = Dw' /\ d = Rest' /\ f = Aw' /\ g = Cw'
    OBVIOUS
  <2>3. /\ a \in Seq(Digit) /\ b \in Seq(Digit) /\ c \in Seq(Digit) /\ d \in Seq(Digit)
        /\ f \in Seq(Digit) /\ g \in Seq(Digit) /\ InPipe' = ((a \o b) \o (c \o d)) \o (f \o g)
    BY <2>1, <2>2 DEF Held
  <2>4. /\ a \o b \in Seq(Digit) /\ c \o d \in Seq(Digit) /\ f \o g \in Seq(Digit)
        /\ ((a \o b) \o (c \o d)) \o (f \o g) \in Seq(Digit)
    BY <2>3, Pairs
  <2> QED
    BY <1>4, <2>2, <2>3, <2>4
<1>7. r \o e = l \o r1 /\ q \o l = t \o q1 /\ p \o t = v \o p1
  BY <1>1, <1>3, <1>4, FlowsIn, FlowsThrough, FlowsOut
<1>8. PICK n : n = (p1 \o q1) \o r1
  OBVIOUS
<1>9. o \in Seq(Digit) /\ n \in Seq(Digit) /\ o \o e = v \o n
  <2>1. Through(p, q, r, e, v, p1, q1, r1)
    BY <1>5, <1>6, <1>7, Flows
  <2>2. o \o e = v \o n
    BY <1>5, <1>8, <2>1 DEF Through
  <2> QED
    BY <1>5, <1>6, <1>8, <2>2
<1>10. owed' = (IF Sent THEN Tail(o) ELSE o) \o e
  <2>1. owed' = (IF Brought = "none" THEN (IF Sent THEN Tail(o) ELSE o)
                 ELSE (IF Sent THEN Tail(o) ELSE o) \o DigitsFrom(Brought, 1))
    BY <1>3 DEF Clock, Owed, Sent
  <2>2. CASE Brought = "none"
    <3>1. e = << >> /\ owed' = (IF Sent THEN Tail(o) ELSE o)
      BY <1>3, <2>1, <2>2 DEF Enters, If
    <3>2. (IF Sent THEN Tail(o) ELSE o) \in Seq(Digit)
      <4>1. Sent => o # << >>
        <5>1. Sent => Len(p) >= 1
          <6>1. SUFFICES ASSUME Sent PROVE Len(p) >= 1
            OBVIOUS
          <6>2. PICK f : f = Tx /\ f = <<tx_char>>
            BY <1>1, <6>1 DEF Sent, Tx, If
          <6>3. PICK y \in Seq(Digit) : y = Ln
            BY <1>1, Holds DEF Held
          <6>4. f \in Seq(Digit) /\ Len(f) = 1
            BY <1>1, <6>2 DEF Types
          <6>5. Len(f \o y) = Len(f) + Len(y) /\ Len(y) \in Nat
            <7>1. Joins(f, y, y)
              BY <6>3, <6>4, Behind
            <7> QED
              BY <6>3, <7>1 DEF Joins
          <6> QED
            BY <1>3, <6>2, <6>3, <6>4, <6>5
        <5>2. Len(o) = Len(p) + Len(q) + Len(r)
          BY <1>5
        <5> QED
          BY <1>5, <5>1, <5>2
      <4> QED
        BY <1>9, <4>1
    <3> QED
      BY <3>1, <3>2, ConcatEmptySeq
  <2>3. CASE Brought # "none"
    BY <1>3, <2>1, <2>3 DEF Enters, If
  <2> QED
    BY <2>2, <2>3
<1>11. owed' = n
  <2>1. CASE Sent
    <3>1. PICK c \in Digit : c = tx_char /\ v = <<c>> /\ Tx = <<c>>
      BY <1>1, <1>3, <2>1 DEF Leaves, Sent, Tx, If, Types
    <3>2. PICK y \in Seq(Digit) : y = Ln
      BY <1>1, Holds DEF Held
    <3>3. p = <<c>> \o y /\ <<c>> \in Seq(Digit)
      BY <1>3, <3>1, <3>2
    <3>4. PICK s : s = (y \o q) \o r
      OBVIOUS
    <3>5. y \o q \in Seq(Digit) /\ s \in Seq(Digit)
      BY <1>5, <3>2, <3>4
    <3>6. PICK f, m : f = <<c>> /\ m = y \o q
      OBVIOUS
    <3>7. f \in Seq(Digit) /\ m \in Seq(Digit) /\ Joins(f, y, q)
      BY <1>5, <3>2, <3>3, <3>5, <3>6, Behind
    <3>8. Joins(f, m, r) /\ Joins(f, s, e) /\ Joins(s, e, r)
      BY <1>5, <3>5, <3>7, Behind
    <3>9. o = f \o s
      BY <1>5, <3>3, <3>4, <3>6, <3>7, <3>8 DEF Joins
    <3>10. Tail(o) = s
      BY <3>5, <3>6, <3>9, TailOfFirst
    <3>11. PICK g, n1 : g = s \o e /\ n1 = f \o n
      OBVIOUS
    <3>12. n1 = f \o g /\ g \in Seq(Digit)
      BY <1>9, <3>1, <3>6, <3>8, <3>9, <3>11 DEF Joins
    <3>13. Tail(n1) = g /\ Tail(n1) = n
      BY <1>9, <3>6, <3>11, <3>12, TailOfFirst
    <3> QED
      BY <1>10, <2>1, <3>10, <3>11, <3>13
  <2>2. CASE ~Sent
    <3>1. v = << >>
      BY <1>3, <2>2 DEF Leaves, If
    <3>2. o \o e = n
      BY <1>9, <3>1, ConcatEmptySeq
    <3> QED
      BY <1>10, <2>2, <3>2
  <2> QED
    BY <2>1, <2>2
<1> QED
  BY <1>2, <1>6, <1>8, <1>11 DEF IInv, NothingLost

-----------------------------------------------------------------------------
(***************************************************************************)
(* No digit of a codeword is dropped, repeated or overtaken on its way     *)
(* through wbuidleint, wbucompress, wbudeword, wbucompactlines and         *)
(* wbusixchar, whenever the serial port takes the next.                    *)
(***************************************************************************)
THEOREM EveryDigitInOrder == Spec => []NothingLost
<1>1. Init => IInv
  <2> SUFFICES ASSUME Init PROVE IInv
    OBVIOUS
  <2>1. /\ fifo = << >> /\ ~cw_stb /\ ~a_stb /\ ~dw_stb /\ ~ln_stb /\ ~tx_stb /\ r_len = 0 /\ owed = << >>
        /\ cw_word = "idle" /\ a_word = "idle" /\ r_word = "idle" /\ dw_char = At("idle", 1)
        /\ ln_char = NL /\ tx_char = NL
    BY DEF Init, At
  <2>2. /\ cw_stb \in BOOLEAN /\ a_stb \in BOOLEAN /\ dw_stb \in BOOLEAN /\ dw_busy \in BOOLEAN
        /\ ln_stb \in BOOLEAN /\ r_busy \in BOOLEAN /\ tx_stb \in BOOLEAN /\ i_tx_busy \in BOOLEAN
        /\ r_dly \in BOOLEAN
    BY DEF Init
  <2>3. "idle" \in Codeword /\ Len6("idle") = 1 /\ NL \in Digit /\ At("idle", 1) \in Digit
    BY DEF Codeword, Made, Len6, NL, Digit, At
  <2>4. Types
    BY <2>1, <2>2, <2>3 DEF Types
  <2>5. /\ Tx = << >> /\ Ln = << >> /\ Dw = << >> /\ Aw = << >> /\ Cw = << >> /\ Rest = << >>
    <3>1. Rest = << >>
      BY <2>1, <2>3, DigitsSeq DEF Rest
    <3> QED
      BY <2>1, <3>1 DEF Tx, Ln, Dw, Aw, Cw, If
  <2>6. InPipe = << >>
    BY <2>4, <2>5, Holds, EmptySeq DEF Held
  <2> QED
    BY <2>1, <2>4, <2>6 DEF IInv, BusyWithWord, NothingLost
<1>2. IInv /\ [Next]_vars => IInv'
  <2> SUFFICES ASSUME IInv, [Next]_vars PROVE IInv'
    OBVIOUS
  <2>1. CASE Next
    BY <2>1, LostKept DEF Next
  <2>2. CASE UNCHANGED vars
    BY <2>2 DEF vars, idleint, compress, deword, compact, IInv, Types, BusyWithWord, NothingLost, InPipe,
               DigitsFrom, Len6
  <2> QED
    BY <2>1, <2>2
<1>3. IInv => NothingLost
  BY DEF IInv
<1> QED
  BY <1>1, <1>2, <1>3, PTL DEF Spec
==============================================================================
