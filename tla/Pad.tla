--------------------------------- MODULE Pad ---------------------------------
(***************************************************************************)
(* notebook/pad.py.  addpad makes the length of an image a multiple of the *)
(* 16-byte beat the data movers transfer, and stores the number of bytes   *)
(* it added, little endian, in the last four of them.                      *)
(***************************************************************************)
EXTENDS Integers, Sequences

Byte == 0..255

\* Mutant: no byte is added when the length is already a multiple of 16.
PadcountNone(n) ==
  LET c == (16 - (n % 16)) % 16
  IN  IF 0 < c /\ c < 4 THEN c + 16 ELSE c

\* Mutant: the length becomes a multiple of a word, not of a beat.
PadcountWord(n) == 8 - (n % 4)

\* At least four bytes, so that the count fits into them.
Padcount(n) ==
  LET c == 16 - (n % 16)
  IN  IF c < 4 THEN c + 16 ELSE c

\* pad[-1] is taken from bit 32 of the count, not from bit 24.
CountByte(c, k) ==
  CASE k = -4 -> c % 256
    [] k = -3 -> (c \div 256) % 256
    [] k = -2 -> (c \div 65536) % 256
    [] k = -1 -> ((c \div 65536) \div 65536) % 256

Padding(c) == [i \in 1..c |-> IF i > c - 4 THEN CountByte(c, i - c - 1) ELSE 0]

addpad(data) == data \o Padding(Padcount(Len(data)))

\* The count the last four bytes of data hold; the shifts overlap nowhere,
\* so that exclusive or is addition.
StoredCount(data) ==
  LET n == Len(data)
  IN  data[n - 3] + 256 * data[n - 2] + 65536 * data[n - 1]
        + 16777216 * data[n]

\* data[:-c]
DropLast(data, c) ==
  IF c = 0 THEN <<>> ELSE SubSeq(data, 1, Len(data) - c)

removePad(data) == DropLast(data, StoredCount(data))

==============================================================================
