----------------------------- MODULE Checksums -----------------------------
(***************************************************************************)
(* The checksums of chapter 45.  "crc": the two CRCs of crc_orig_mod.c     *)
(* over one text, the good one being that of crc.c; "sums": check-xor.c    *)
(* and check-fletcher.c; "csum": create-csum.c writes a checksum per block *)
(* over whatever an older checksum file holds, the file changes, and       *)
(* check-csum.c compares.  A read or a write of either may fail.           *)
(*                                                                         *)
(* A text is a sequence of numbers, the bytes.  The CRC has a register of  *)
(* crc.bits bits and bytes of crc.byte bits, so that it can be looked at   *)
(* with fewer bits than the 16 and 8 of the code.                          *)
(***************************************************************************)
EXTENDS Integers, Sequences, FiniteSets, Bitwise

CONSTANTS Crcs,       \* the CRCs, as records [bits, poly, byte]
          CrcTexts(_),\* the texts for each of them
          Chars, MaxText,       \* texts of check-xor and check-fletcher
          BUFFSIZE, Bytes, MaxFile  \* block size, bytes and length of the files of csum

VARIABLES tool,
          crc,      \* the CRC
          text,     \* crc, sums: the text; csum: the file
          pos,      \* bytes (csum: blocks) done
          reg       \* the registers of the program

vars == <<tool, crc, text, pos, reg>>

UpTo(n, S) == UNION {[1..k -> S] : k \in 0..n}
Ones == 2 ^ crc.bits - 1
NoCrc == [bits |-> 0, poly |-> 0, byte |-> 0]

CrcInit ==
  /\ tool = "crc" /\ crc \in Crcs /\ text \in CrcTexts(crc)
  /\ reg = [good |-> Ones, bad |-> Ones]

SumsInit ==
  /\ tool = "sums" /\ crc = NoCrc /\ text \in UpTo(MaxText, Chars)
  /\ reg = [xor |-> 0, fletcher_a |-> 0, fletcher_b |-> 0]

\* sums is the checksum file, original the file that it is made for, failed the
\* programs that met an error.
CsumInit ==
  /\ tool = "csum" /\ crc = NoCrc /\ text \in UpTo(MaxFile, Bytes)
  /\ \E old \in {<<>>} \cup {[k \in 1..MaxFile |-> b] : b \in Bytes} :
       reg = [at |-> "create", xor |-> 0, buff_b |-> 0, sums |-> old, original |-> text, failed |-> {}]

Init == pos = 0 /\ (CrcInit \/ SumsInit \/ CsumInit)
-----------------------------------------------------------------------------
Bit(n, k) == (n \div 2 ^ k) % 2

\* A loop that tests the top bit after the shift.
Shift_TestsLate(r, bit) ==
  LET s == ((2 * r) % 2 ^ crc.bits) + bit
  IN  IF s >= 2 ^ (crc.bits - 1) THEN s ^^ crc.poly ELSE s

\* One round of the loops of crc.c: shift the bit in, and xor if a 1 fell out.
Shift(r, bit) ==
  LET s == ((2 * r) % 2 ^ crc.bits) + bit
  IN  IF r >= 2 ^ (crc.bits - 1) THEN s ^^ crc.poly ELSE s

update_good_crc(r, ch) ==
  LET f[k \in 0..crc.byte] == IF k = 0 THEN r ELSE Shift(f[k - 1], Bit(ch, crc.byte - k))
  IN  f[crc.byte]

augment_message_for_good_crc(r) ==
  LET f[k \in 0..crc.bits] == IF k = 0 THEN r ELSE Shift(f[k - 1], 0)
  IN  f[crc.bits]

\* The byte meets the register at the top, where the next bit falls out.
update_bad_crc(r, ch) ==
  LET top(n) == Bit(n, crc.bits - 1)
      f[k \in 0..crc.byte] ==
        IF k = 0 THEN [r |-> r, ch |-> ch * 2 ^ (crc.bits - crc.byte)]
        ELSE LET g == f[k - 1]
                 s == (2 * g.r) % 2 ^ crc.bits
             IN  [r |-> IF top(g.r ^^ g.ch) = 1 THEN s ^^ crc.poly ELSE s,
                  ch |-> (2 * g.ch) % 2 ^ crc.bits]
  IN  f[crc.byte].r

\* go: each byte, and then the zeros.
go ==
  /\ tool = "crc" /\ pos <= Len(text) /\ pos' = pos + 1
  /\ reg' = IF pos < Len(text)
            THEN [good |-> update_good_crc(reg.good, text[pos + 1]),
                  bad |-> update_bad_crc(reg.bad, text[pos + 1])]
            ELSE [reg EXCEPT !.good = augment_message_for_good_crc(@)]
  /\ UNCHANGED <<tool, crc, text>>
-----------------------------------------------------------------------------
\* C's remainder has the sign of the dividend.
CMod(n, m) == IF n >= 0 THEN n % m ELSE -((-n) % m)
Newline == 10
Digit(b) == (IF b > 127 THEN b - 256 ELSE b) - 48     \* buff[0] - '0', char is signed

\* The loops of check-xor.c and check-fletcher.c; xor is an unsigned char.
AddByte ==
  /\ tool = "sums" /\ pos < Len(text) /\ pos' = pos + 1
  /\ LET d == Digit(text[pos + 1])
         a == CMod(d + reg.fletcher_a, 255)
     IN  reg' = IF text[pos + 1] = Newline THEN reg
                ELSE [xor |-> reg.xor ^^ (d % 256), fletcher_a |-> a,
                      fletcher_b |-> CMod(a + reg.fletcher_b, 255)]
  /\ UNCHANGED <<tool, crc, text>>
-----------------------------------------------------------------------------
Blocks(file) == (Len(file) + BUFFSIZE - 1) \div BUFFSIZE

\* xor after the next block: it is never reset.
NextXor ==
  LET last == IF (pos + 1) * BUFFSIZE <= Len(text) THEN (pos + 1) * BUFFSIZE ELSE Len(text)
      f[k \in (pos * BUFFSIZE)..last] == IF k = pos * BUFFSIZE THEN reg.xor ELSE f[k - 1] ^^ text[k]
  IN  f[last]

Put(s, k, v) == IF k <= Len(s) THEN [s EXCEPT ![k] = v] ELSE Append(s, v)

\* The output file is not truncated when it is opened.  A read that fails ends the
\* loop as the end of the file does, and a write that fails ends the program.
create_csum ==
  /\ tool = "csum" /\ reg.at = "create"
  /\ \/ /\ pos < Blocks(text) /\ pos' = pos + 1
        /\ reg' = [reg EXCEPT !.xor = NextXor, !.sums = Put(@, pos + 1, NextXor)]
     \/ /\ reg' = [reg EXCEPT !.at = "made",
                             !.failed = IF pos < Blocks(text) THEN @ \cup {"create"} ELSE @]
        /\ UNCHANGED pos
  /\ UNCHANGED <<tool, crc, text>>

\* The file changes, or does not, before it is checked.
Corrupt ==
  /\ tool = "csum" /\ reg.at = "made" /\ pos' = 0
  /\ text' \in UpTo(MaxFile, Bytes)
  /\ reg' = [reg EXCEPT !.at = "check", !.xor = 0] /\ UNCHANGED <<tool, crc>>

\* At the end of the checksum file read leaves buff_b as it was.
CompareBlock ==
  LET b == IF pos < Len(reg.sums) THEN reg.sums[pos + 1] ELSE reg.buff_b
  IN  /\ pos < Blocks(text) /\ pos' = pos + 1
      /\ reg' = [reg EXCEPT !.xor = NextXor, !.buff_b = b,
                            !.at = IF NextXor = b THEN "check" ELSE "corrupted"]

\* A file that cannot be read is fine, as one that was read to its end is; when
\* the checksums cannot be read the program exits.
check_csum ==
  /\ tool = "csum" /\ reg.at = "check"
  /\ \/ CompareBlock
     \/ pos = Blocks(text) /\ reg' = [reg EXCEPT !.at = "fine"] /\ UNCHANGED pos
     \/ \E end \in {"fine", "exit"} :
          /\ pos < Blocks(text) /\ UNCHANGED pos
          /\ reg' = [reg EXCEPT !.at = end, !.failed = @ \cup {"check"}]
  /\ UNCHANGED <<tool, crc, text>>

Next == go \/ AddByte \/ create_csum \/ Corrupt \/ check_csum

Spec == Init /\ [][Next]_vars
-----------------------------------------------------------------------------
BitsOf(t) == [k \in 1..(Len(t) * crc.byte) |->
               Bit(t[((k - 1) \div crc.byte) + 1], crc.byte - 1 - ((k - 1) % crc.byte))]
Repeat(b, n) == [k \in 1..n |-> b]

\* The remainder of the polynomial with coefficients s by x^bits + poly: the
\* sum of the remainders of its monomials.
Remainder(s) ==
  LET shifted[p \in 0..Ones, n \in 0..crc.bits] ==   \* p times x^n
        IF n = 0 THEN p
        ELSE LET d == 2 * shifted[p, n - 1]
             IN  IF d >= 2 ^ crc.bits THEN (d - 2 ^ crc.bits) ^^ crc.poly ELSE d
      power[k \in 0..Len(s)] ==
        IF k < crc.bits THEN 2 ^ k ELSE shifted[power[k - crc.bits], crc.bits]
      odd(j) == Cardinality({k \in DOMAIN s : s[k] = 1 /\ Bit(power[Len(s) - k], j) = 1}) % 2
      value[j \in 0..crc.bits] == IF j = 0 THEN 0 ELSE value[j - 1] + odd(j - 1) * 2 ^ (j - 1)
  IN  value[crc.bits]

\* The good CRC is the remainder of a text that follows a register of ones; the
\* bad one that of a text whose first bits are inverted.  For "123456789" they
\* are 0xE5CC and 0x29B1, as the head of crc_orig_mod.c says.
CrcIsRemainder ==
  tool = "crc" /\ pos = Len(text) + 1 =>
    LET augmented == BitsOf(text) \o Repeat(0, crc.bits)
    IN  /\ reg.good = Remainder(Repeat(1, crc.bits) \o augmented)
        /\ reg.bad = Remainder([k \in DOMAIN augmented |->
                                 IF k <= crc.bits THEN 1 - augmented[k] ELSE augmented[k]])
        /\ crc.bits = 16 /\ text = [k \in 1..9 |-> 48 + k] => reg.good = 58828 /\ reg.bad = 10673

Crc(t) ==
  LET f[k \in 0..Len(t)] == IF k = 0 THEN Ones ELSE update_good_crc(f[k - 1], t[k])
  IN  augment_message_for_good_crc(f[Len(t)])

\* t and u have the same length and differ within crc.bits bits.
Burst(t, u) ==
  /\ Len(t) = Len(u) /\ t # u
  /\ LET b == BitsOf(t)
         c == BitsOf(u)
     IN  \A j, k \in DOMAIN b : b[j] # c[j] /\ b[k] # c[k] => k - j < crc.bits

\* crc.c: no burst of errors that fits in the register goes unnoticed.
BurstsDetected ==
  tool = "crc" /\ pos = Len(text) + 1 => \A u \in CrcTexts(crc) : Burst(text, u) => Crc(u) # reg.good

\* check-fletcher.c: the sums are those of Fletcher modulo 255, also for bytes
\* below '0', where C's remainder is negative.
FletcherIsWeighted ==
  tool = "sums" =>
    LET d == [k \in 1..pos |-> IF text[k] = Newline THEN 0 ELSE Digit(text[k])]
        sum[k \in 0..pos] == IF k = 0 THEN 0 ELSE sum[k - 1] + d[k]
        weighted[k \in 0..pos] ==
          IF k = 0 THEN 0 ELSE weighted[k - 1] + (IF text[k] = Newline THEN 0 ELSE sum[k])
    IN  /\ (reg.fletcher_a - sum[pos]) % 255 = 0 /\ (reg.fletcher_b - weighted[pos]) % 255 = 0
        /\ reg.fletcher_a \in -254..254 /\ reg.fletcher_b \in -254..254

\* check-csum.c: a file that did not change is not reported, whatever the checksum
\* file held before create-csum.c wrote all of its checksums to it, and a file with
\* one byte changed is reported, in whichever block it is, when neither program met
\* an error.
CsumDetects ==
  tool = "csum" =>
    /\ text = reg.original /\ "create" \notin reg.failed => reg.at # "corrupted"
    /\ reg.at = "fine" /\ reg.failed = {} /\ Len(text) = Len(reg.original) =>
         \A k \in DOMAIN text : text[k] # reg.original[k] =>
           \E j \in DOMAIN text \ {k} : text[j] # reg.original[j]
=============================================================================
