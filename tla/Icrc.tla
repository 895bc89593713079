-------------------------------- MODULE Icrc --------------------------------
(***************************************************************************)
(* The ICRC of the packets the gateway forges (roce_icrc of                *)
(* src/wan_tunnel.c) and the slicing-by-8 CRC-32 below it                  *)
(* (src/crc32c.c).  The tables are static, shared by all lcores and filled *)
(* without a lock by whoever finds crc32_slice_ready still 0, so the       *)
(* module is about several lcores that fill and read them at once.         *)
(*                                                                         *)
(* The widths are parameters: a byte has ByteBits bits and a CRC four      *)
(* bytes, as in the code.  So is the exclusive or of two words, which is   *)
(* all the code does with bits besides shifting and masking.               *)
(*                                                                         *)
(* A plain store or load of a word is one step, and each lcore's stores    *)
(* are seen in program order, which is what the x86 build (Makefile:       *)
(* -march=native) gives as long as the compiler leaves the store of the    *)
(* flag after the loops.                                                   *)
(***************************************************************************)
EXTENDS Integers, Sequences, SequencesExt

CONSTANTS
  ByteBits,      \* 8
  xor(_, _),     \* the ^ of C on words
  Polynomial,    \* 0xEDB88320
  Seed,          \* 0xdebb20e3
  Lcores,
  Packets,       \* packets from the IP header on, as sequences of bytes
  Variant        \* positions of ToS, TTL, the two checksums and byte 4 of the BTH

CrcBytes == 4
Block    == 2 * CrcBytes
Radix    == 2^ByteBits
AllOnes  == Radix * Radix * Radix * Radix - 1    \* a word of CrcBytes bytes
Byte     == 0 .. Radix - 1
Word     == 0 .. AllOnes

ASSUME IcrcAssumption ==
  /\ ByteBits \in Nat \ {0}
  /\ Radix \in Nat \ {0}          \* a power of two, which the provers do not compute
  /\ \A v, w \in Word : xor(v, w) \in Word
  /\ Polynomial \in Word
  /\ Seed \in Word
  /\ Packets \subseteq Seq(Byte)
  /\ Variant \subseteq Nat

VARIABLES
  crc32_slice,         \* crc32_slice[n][i]
  crc32_slice_ready,
  lcore                \* what each lcore is at

crcVars == <<crc32_slice, crc32_slice_ready, lcore>>

\* rest: the bytes still to be summed; i, n, c: the loop variables.
Idle == [pc |-> "idle", packet |-> << >>, rest |-> << >>, crc |-> Seed,
         i |-> 0, n |-> 0, c |-> 0]

CrcInit ==
  /\ crc32_slice = [n \in 0 .. Block - 1 |-> [i \in Byte |-> 0]]
  /\ crc32_slice_ready = FALSE
  /\ lcore = [l \in Lcores |-> Idle]

----------------------------------------------------------------------------
(* Words. *)

Low(w)     == w % Radix                                   \* w & 0xFF
Shifted(w) == w \div Radix                                \* w >> 8

\* Four bytes after the first k, least significant first.
WordOf(bytes, k) ==
  bytes[k + 1] + Radix * (bytes[k + 2] + Radix * (bytes[k + 3] + Radix * bytes[k + 4]))

\* One bit of the division by the polynomial.
Divided(c) == IF c % 2 = 1 THEN xor(Polynomial, c \div 2) ELSE c \div 2

\* The entry of the table for byte i, with c as it is after k rounds.
Rounds(i) ==
  LET c[k \in 0 .. ByteBits] == IF k = 0 THEN i ELSE Divided(c[k - 1])
  IN  c

Entry(i) == Rounds(i)[ByteBits]

\* The bytes of w, looked up in table n and the ones below it.
Looked(slice, n, w) ==
  xor(xor(slice[n][Low(w)],                slice[n - 1][Low(Shifted(w))]),
      xor(slice[n - 2][Low(Shifted(Shifted(w)))],
          slice[n - 3][Low(Shifted(Shifted(Shifted(w))))]))

\* Mutant: the second half of a block is summed with the tables of the first.
Block8_SameTables(slice, crc, bytes) ==
  xor(Looked(slice, Block - 1, xor(crc, WordOf(bytes, 0))),
      Looked(slice, Block - 1, WordOf(bytes, CrcBytes)))

\* Eight bytes at once.
Block8(slice, crc, bytes) ==
  xor(Looked(slice, Block - 1, xor(crc, WordOf(bytes, 0))),
      Looked(slice, CrcBytes - 1, WordOf(bytes, CrcBytes)))

\* One byte, with the table of single bytes.
Byte1(table, crc, b) == xor(table[Low(xor(crc, b))], Shifted(crc))

\* crc32_le with its own table, which nothing in the gateway calls.
crc32_le(crc, data) ==
  LET crc32_table == [i \in Byte |-> Entry(i)]
  IN  FoldLeft(LAMBDA c, b : Byte1(crc32_table, c, b), crc, data)

----------------------------------------------------------------------------
(* init_crc32_slice *)

\* Mutant: the table is announced before it is filled.
WriteBase_Announced(l) ==
  /\ lcore[l].pc = "base"
  /\ crc32_slice' = [crc32_slice EXCEPT ![0][lcore[l].i] = Entry(lcore[l].i)]
  /\ lcore' = [lcore EXCEPT ![l] =
       IF lcore[l].i + 1 \in Byte THEN [@ EXCEPT !.i = lcore[l].i + 1]
                                  ELSE [@ EXCEPT !.pc = "slices", !.i = 0, !.n = 0]]
  /\ crc32_slice_ready' = TRUE

\* The first loop: crc32_slice[0][i].
WriteBase(l) ==
  /\ lcore[l].pc = "base"
  /\ crc32_slice' = [crc32_slice EXCEPT ![0][lcore[l].i] = Entry(lcore[l].i)]
  /\ lcore' = [lcore EXCEPT ![l] =
       IF lcore[l].i + 1 \in Byte THEN [@ EXCEPT !.i = lcore[l].i + 1]
                                  ELSE [@ EXCEPT !.pc = "slices", !.i = 0, !.n = 0]]
  /\ UNCHANGED crc32_slice_ready

\* An entry from its predecessor: one more byte of zeros.
Chained(slice, c) == xor(slice[0][Low(c)], Shifted(c))

\* The second loop: crc32_slice[n][i] from its predecessor, kept in c.
ReadBase(l) ==
  /\ lcore[l].pc = "slices"
  /\ lcore[l].n = 0
  /\ lcore' = [lcore EXCEPT ![l].c = crc32_slice[0][lcore[l].i], ![l].n = 1]
  /\ UNCHANGED <<crc32_slice, crc32_slice_ready>>

WriteSlice(l) ==
  LET i == lcore[l].i
      n == lcore[l].n
      c == Chained(crc32_slice, lcore[l].c)
  IN  /\ lcore[l].pc = "slices"
      /\ n > 0
      /\ crc32_slice' = [crc32_slice EXCEPT ![n][i] = c]
      /\ lcore' = [lcore EXCEPT ![l] =
           IF n + 1 < Block        THEN [@ EXCEPT !.n = n + 1, !.c = c]
           ELSE IF i + 1 \in Byte  THEN [@ EXCEPT !.n = 0, !.i = i + 1]
           ELSE [@ EXCEPT !.pc = "flag", !.n = 0, !.i = 0]]
      /\ UNCHANGED crc32_slice_ready

SetReady(l) ==
  /\ lcore[l].pc = "flag"
  /\ crc32_slice_ready' = TRUE
  /\ lcore' = [lcore EXCEPT ![l].pc = "sum", ![l].c = 0]
  /\ UNCHANGED crc32_slice

----------------------------------------------------------------------------
(* roce_icrc and crc32_le_slice8 *)

\* The fields a router may change count as ones.  They are put back
\* afterwards.
Masked(packet) ==
  [k \in DOMAIN packet |-> IF k \in Variant THEN Radix - 1 ELSE packet[k]]

\* Mutant: the table is tested instead of the flag.
Call_TestsTable(l, packet) ==
  /\ lcore[l].pc = "idle"
  /\ lcore' = [lcore EXCEPT ![l] =
       [Idle EXCEPT !.pc = IF crc32_slice[0][1] # 0 THEN "sum" ELSE "base",
                    !.packet = packet, !.rest = Masked(packet)]]
  /\ UNCHANGED <<crc32_slice, crc32_slice_ready>>

Call(l, packet) ==
  /\ lcore[l].pc = "idle"
  /\ lcore' = [lcore EXCEPT ![l] =
       [Idle EXCEPT !.pc = IF crc32_slice_ready THEN "sum" ELSE "base",
                    !.packet = packet, !.rest = Masked(packet)]]
  /\ UNCHANGED <<crc32_slice, crc32_slice_ready>>

\* One round of the loops over the data.
SumBlock(l) ==
  /\ lcore[l].pc = "sum"
  /\ Len(lcore[l].rest) >= Block
  /\ lcore' = [lcore EXCEPT
       ![l].crc  = Block8(crc32_slice, @, lcore[l].rest),
       ![l].rest = SubSeq(@, Block + 1, Len(@))]
  /\ UNCHANGED <<crc32_slice, crc32_slice_ready>>

SumByte(l) ==
  /\ lcore[l].pc = "sum"
  /\ lcore[l].rest # << >>
  /\ Len(lcore[l].rest) < Block
  /\ lcore' = [lcore EXCEPT
       ![l].crc  = Byte1(crc32_slice[0], @, Head(lcore[l].rest)),
       ![l].rest = Tail(@)]
  /\ UNCHANGED <<crc32_slice, crc32_slice_ready>>

\* Mutant: the complement of a signed integer.
Return_Signed(l) ==
  /\ lcore[l].pc = "sum"
  /\ lcore[l].rest = << >>
  /\ lcore' = [lcore EXCEPT ![l].pc = "done", ![l].crc = -1 - @]
  /\ UNCHANGED <<crc32_slice, crc32_slice_ready>>

\* return ~crc
Return(l) ==
  /\ lcore[l].pc = "sum"
  /\ lcore[l].rest = << >>
  /\ lcore' = [lcore EXCEPT ![l].pc = "done",
                            ![l].crc = AllOnes - @]
  /\ UNCHANGED <<crc32_slice, crc32_slice_ready>>

\* The forged packet has been sent.
Forget(l) ==
  /\ lcore[l].pc = "done"
  /\ lcore' = [lcore EXCEPT ![l] = Idle]
  /\ UNCHANGED <<crc32_slice, crc32_slice_ready>>

CrcNext ==
  \E l \in Lcores :
    \/ \E packet \in Packets : Call(l, packet)
    \/ WriteBase(l)
    \/ ReadBase(l)
    \/ WriteSlice(l)
    \/ SetReady(l)
    \/ SumBlock(l)
    \/ SumByte(l)
    \/ Return(l)
    \/ Forget(l)

CrcSpec == CrcInit /\ [][CrcNext]_crcVars

----------------------------------------------------------------------------
(* Properties. *)

CrcTypeOK ==
  /\ crc32_slice \in [0 .. Block - 1 -> [Byte -> Word]]
  /\ crc32_slice_ready \in BOOLEAN
  /\ \A l \in Lcores : /\ lcore[l].crc \in Word
                       /\ lcore[l].c \in Word
                       /\ lcore[l].packet \in Packets \cup {<< >>}

\* The definition: the bits of the message, least significant first, divided
\* one by one.
Remainder(crc, data) ==
  FoldLeft(LAMBDA c, b : FoldLeft(LAMBDA d, k : Divided(xor(d, (b \div 2^k) % 2)), c,
                                  [k \in 1 .. ByteBits |-> k - 1]),
           crc, data)

\* Every lcore computes the ICRC, whether it filled the tables itself, found
\* them filled, or works while another lcore fills them a second time: eight
\* bytes at a time and byte by byte give the complement of the remainder of
\* the masked packet, and so does crc32_le.
IcrcCorrect ==
  \A l \in Lcores : lcore[l].pc = "done" =>
    LET crc == AllOnes - lcore[l].crc
    IN  /\ crc = Remainder(Seed, Masked(lcore[l].packet))
        /\ crc = crc32_le(Seed, Masked(lcore[l].packet))

\* The first table is the one init_crc32_table computes, and every entry of
\* the others follows from its predecessor.
TablesWhole ==
  /\ \A i \in Byte : crc32_slice[0][i] = Entry(i)
  /\ \A n \in 1 .. Block - 1, i \in Byte :
       crc32_slice[n][i] = Chained(crc32_slice, crc32_slice[n - 1][i])

\* No lcore sums with tables that are still being filled, although nothing
\* but a plain flag orders the loops of one lcore before the reads of another.
SumsReadWholeTables == \A l \in Lcores : lcore[l].pc = "sum" => TablesWhole

\* Once the tables are announced no store changes them, although an lcore
\* that found the flag unset may still be filling them.
AnnouncedTablesStay == [][crc32_slice_ready => UNCHANGED crc32_slice]_crcVars

=============================================================================
