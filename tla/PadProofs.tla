------------------------------ MODULE PadProofs ------------------------------
(***************************************************************************)
(* addpad and removePad for data of every length, and the notebook cells   *)
(* that use them, for images of every length and any order of the cells.   *)
(***************************************************************************)
EXTENDS ImageCells, SequenceTheorems, TLAPS

\* The pad is at least as long as the count it stores and shorter than two
\* beats (pad.py:4-6).
LEMMA PadcountRange == \A n \in Nat : Padcount(n) \in 4..19
  BY DEF Padcount

\* A padded image is a whole number of beats, so that the truncating
\* division by 4 in AcapdAccel.run loses nothing of it (siha.py:98-99).
THEOREM PaddedLength == \A n \in Nat : (n + Padcount(n)) % 16 = 0
  BY DEF Padcount

\* The padding is a sequence of bytes with the count in its last four.
LEMMA PaddingFacts ==
  ASSUME NEW c \in 4..19
  PROVE  /\ Padding(c) \in Seq(Byte)
         /\ Len(Padding(c)) = c
         /\ Padding(c)[c - 3] = c
         /\ Padding(c)[c - 2] = 0
         /\ Padding(c)[c - 1] = 0
         /\ Padding(c)[c] = 0
<1>1. /\ CountByte(c, -4) = c
      /\ CountByte(c, -3) = 0
      /\ CountByte(c, -2) = 0
      /\ CountByte(c, -1) = 0
  BY DEF CountByte
<1>2. \A i \in 1..c : Padding(c)[i] =
        IF i > c - 4 THEN CountByte(c, i - c - 1) ELSE 0
  BY DEF Padding
<1>3. \A i \in 1..c : i > c - 4 => i - c - 1 \in {-4, -3, -2, -1}
  OBVIOUS
<1>4. \A i \in 1..c : Padding(c)[i] \in Byte
  <2>1. \A k \in {-4, -3, -2, -1} : CountByte(c, k) \in Byte
    BY <1>1 DEF Byte
  <2> QED BY <1>2, <1>3, <2>1 DEF Byte
<1>5. Padding(c) = [i \in 1..c |-> Padding(c)[i]]
  BY DEF Padding
<1>6. Padding(c) \in Seq(Byte) /\ Len(Padding(c)) = c
  BY <1>4, <1>5
<1>7. /\ Padding(c)[c - 3] = CountByte(c, -4)
      /\ Padding(c)[c - 2] = CountByte(c, -3)
      /\ Padding(c)[c - 1] = CountByte(c, -2)
      /\ Padding(c)[c] = CountByte(c, -1)
  <2>1. Padding(c)[c - 3] = CountByte(c, (c - 3) - c - 1)
    BY <1>2
  <2>2. Padding(c)[c - 2] = CountByte(c, (c - 2) - c - 1)
    BY <1>2
  <2>3. Padding(c)[c - 1] = CountByte(c, (c - 1) - c - 1)
    BY <1>2
  <2>4. Padding(c)[c] = CountByte(c, c - c - 1)
    BY <1>2
  <2>5. /\ (c - 3) - c - 1 = -4 /\ (c - 2) - c - 1 = -3
        /\ (c - 1) - c - 1 = -2 /\ c - c - 1 = -1
    OBVIOUS
  <2> QED BY <2>1, <2>2, <2>3, <2>4, <2>5
<1> QED BY <1>1, <1>6, <1>7

\* removePad finds the count addpad stored and returns exactly the data that
\* was padded (pad.py:3-16).
THEOREM RemoveUndoesAdd ==
  ASSUME NEW data \in Seq(Byte)
  PROVE  removePad(addpad(data)) = data
<1> DEFINE n == Len(data)
           c == Padcount(n)
           p == Padding(c)
           d == addpad(data)
<1>1. n \in Nat /\ c \in 4..19
  BY PadcountRange
<1>2. p \in Seq(Byte) /\ Len(p) = c
  BY <1>1, PaddingFacts
<1>3. d = data \o p
  BY DEF addpad
<1>4. d \in Seq(Byte) /\ Len(d) = n + c
  BY <1>2, <1>3
<1>5. \A i \in 1..n : d[i] = data[i]
  BY <1>2, <1>3
<1>6. \A i \in 1..c : d[n + i] = p[i]
  BY <1>1, <1>2, <1>3
<1> HIDE DEF n, c, p, d
<1>7. StoredCount(d) = c
  <2>1. /\ d[n + (c - 3)] = c /\ d[n + (c - 2)] = 0
        /\ d[n + (c - 1)] = 0 /\ d[n + c] = 0
    <3>1. p[c - 3] = c /\ p[c - 2] = 0 /\ p[c - 1] = 0 /\ p[c] = 0
      BY <1>1, PaddingFacts DEF p
    <3>2. c - 3 \in 1..c /\ c - 2 \in 1..c /\ c - 1 \in 1..c /\ c \in 1..c
      BY <1>1
    <3> QED BY ONLY <1>6, <3>1, <3>2
  <2>2. /\ n + (c - 3) = Len(d) - 3 /\ n + (c - 2) = Len(d) - 2
        /\ n + (c - 1) = Len(d) - 1 /\ n + c = Len(d)
    BY <1>1, <1>4
  <2>3. /\ d[Len(d) - 3] = c /\ d[Len(d) - 2] = 0
        /\ d[Len(d) - 1] = 0 /\ d[Len(d)] = 0
    BY ONLY <2>1, <2>2
  <2> QED BY ONLY <1>1, <2>3 DEF StoredCount
<1>8. removePad(d) = SubSeq(d, 1, n)
  <2>1. Len(d) - c = n /\ c # 0
    BY <1>1, <1>4
  <2> QED BY <1>7, <2>1 DEF removePad, DropLast
<1>9. SubSeq(d, 1, n) = data
  <2>1. /\ SubSeq(d, 1, n) \in Seq(Byte)
        /\ Len(SubSeq(d, 1, n)) = n
        /\ \A i \in 1..n : SubSeq(d, 1, n)[i] = d[i]
    BY <1>1, <1>4
  <2> QED BY <2>1, <1>5, <1>1 DEF n
<1> QED BY <1>8, <1>9 DEF d

------------------------------------------------------------------------------
(***************************************************************************)
(* The cells.                                                              *)
(***************************************************************************)

\* The encrypted file of data.
Encrypted(data) ==
  [i \in 1..Len(addpad(data)) |-> Aes(TRUE, addpad(data)[i])]

\* The buffer holds numbers, the encrypted file is that of the original, and
\* the variables of the kernel, if there are any, are those of the file.
CellsInv ==
  /\ image \in Images
  /\ buffer \in [1..BufBytes -> Int]
  /\ dfile \in Seq(Byte) \cup {None}
  /\ original \in Seq(Byte) \cup {None}
  /\ size \in Nat \cup {None} /\ padcount \in 4..19 \cup {None}
  /\ efile # None \/ size # None =>
       /\ original \in Seq(Byte) /\ Len(original) <= BUFFSIZE
       /\ efile = Encrypted(original)
  /\ size # None =>
       4 * size = Len(addpad(original)) /\ padcount = Padcount(Len(original))

\* A padded image is a whole number of beats that fits into the buffer.
LEMMA PaddedFacts ==
  ASSUME NEW data \in Seq(Byte), Len(data) <= BUFFSIZE
  PROVE  LET n == Len(addpad(data))
         IN  /\ addpad(data) \in Seq(Byte)
             /\ n = Len(data) + Padcount(Len(data)) /\ Padcount(Len(data)) \in 4..19
             /\ n \in Nat /\ n <= BufBytes
             /\ n \div 4 \in Nat /\ 4 * (n \div 4) = n /\ 16 * ((n \div 4) \div 4) = n
             /\ SubSeq(addpad(data), 1, n - Padcount(Len(data))) = data
<1> DEFINE c == Padcount(Len(data))
           n == Len(data) + c
           p == Padding(c)
<1>1. Len(data) \in Nat /\ c \in 4..19
  BY PadcountRange
<1>2. p \in Seq(Byte) /\ Len(p) = c
  BY <1>1, PaddingFacts
<1>3. addpad(data) = data \o p
  BY DEF addpad
<1> HIDE DEF p
<1>4. addpad(data) \in Seq(Byte) /\ Len(addpad(data)) = n
  BY <1>2, <1>3
<1>5. n % 16 = 0 /\ n \in Nat
  BY <1>1, PaddedLength
<1>6. n \div 4 \in Nat /\ 4 * (n \div 4) = n /\ 16 * ((n \div 4) \div 4) = n
  <2> HIDE DEF n
  <2> QED BY <1>5
<1>7. n <= BufBytes
  BY <1>1, BufferAssumption
<1>8. SubSeq(addpad(data), 1, n - c) = data
  <2>1. SubSeq(data \o p, 1, Len(data)) = data
    <3>1. /\ SubSeq(data \o p, 1, Len(data)) \in Seq(Byte)
          /\ Len(SubSeq(data \o p, 1, Len(data))) = Len(data)
          /\ \A i \in 1..Len(data) : SubSeq(data \o p, 1, Len(data))[i] = data[i]
      BY <1>1, <1>2
    <3> QED BY <3>1
  <2>2. n - c = Len(data)
    BY <1>1
  <2> QED BY <1>3, <2>1, <2>2
<1> QED BY <1>1, <1>4, <1>5, <1>6, <1>7, <1>8

\* Bytes are numbers.
LEMMA BytesAreInts ==
  ASSUME NEW s \in Seq(Byte)
  PROVE  s \in Seq(Int) /\ \A i \in 1..Len(s) : s[i] \in 0..255
<1>1. \A i \in 1..Len(s) : s[i] \in Byte
  OBVIOUS
<1>2. Byte = 0..255 /\ Byte \subseteq Int
  BY DEF Byte
<1>3. s \in Seq(Int)
  <2>1. s \in [1..Len(s) -> Int] /\ Len(s) \in Nat
    <3>1. s \in [1..Len(s) -> Byte] /\ Len(s) \in Nat
      BY LenProperties
    <3> QED BY ONLY <1>2, <3>1
  <2> QED BY ONLY <2>1
<1> QED BY ONLY <1>1, <1>2, <1>3

\* A function on 1..n is a sequence of length n.
LEMMA FunctionIsSeq ==
  ASSUME NEW S, NEW n \in Nat, NEW f \in [1..n -> S]
  PROVE  f \in Seq(S) /\ Len(f) = n
OBVIOUS

\* Decrypting an encrypted byte restores it.
LEMMA AesInts ==
  \A b \in 0..255 : Aes(TRUE, b) \in Int /\ Aes(FALSE, Aes(TRUE, b)) = b
BY DEF Aes

\* The start of a buffer.
LEMMA StartOfBuffer ==
  ASSUME NEW b \in [1..BufBytes -> Int], NEW n \in Nat, n <= BufBytes
  PROVE  /\ SubSeq(b, 1, n) \in Seq(Int) /\ Len(SubSeq(b, 1, n)) = n
         /\ \A i \in 1..n : SubSeq(b, 1, n)[i] = b[i]
<1>1. b \in Seq(Int) /\ Len(b) = BufBytes
  BY BufferAssumption
<1> QED BY <1>1, SubSeqProperties

\* The accelerator processes each beat of data that were loaded.
LEMMA RunOnLoaded ==
  ASSUME NEW enc \in BOOLEAN, NEW data \in Seq(Int), NEW words \in Nat,
         16 * (words \div 4) = Len(data), 4 * words = Len(data),
         Len(data) <= BufBytes, buffer \in [1..BufBytes -> Int]
  PROVE  /\ Run(enc, Loaded(data), words) \in [1..BufBytes -> Int]
         /\ Retrieved(Run(enc, Loaded(data), words), words)
              = [i \in 1..Len(data) |-> Aes(enc, data[i])]
<1> DEFINE r == Run(enc, Loaded(data), words)
           aes == [i \in 1..Len(data) |-> Aes(enc, data[i])]
<1>1. r \in [1..BufBytes -> Int] /\ \A i \in 1..Len(data) : r[i] = Aes(enc, data[i])
  <2>1. Loaded(data) \in [1..BufBytes -> Int]
    BY DEF Loaded
  <2>2. \A i \in 1..Len(data) : i \in 1..BufBytes /\ Loaded(data)[i] = data[i]
    BY BufferAssumption DEF Loaded
  <2> QED BY <2>1, <2>2 DEF Run, Aes
<1> HIDE DEF r
<1>2. /\ SubSeq(r, 1, Len(data)) \in Seq(Int)
      /\ Len(SubSeq(r, 1, Len(data))) = Len(data)
      /\ \A i \in 1..Len(data) : SubSeq(r, 1, Len(data))[i] = r[i]
  BY ONLY <1>1, StartOfBuffer, Len(data) \in Nat, Len(data) <= BufBytes
<1>3. aes \in Seq(Int) /\ Len(aes) = Len(data)
        /\ \A i \in 1..Len(data) : aes[i] = Aes(enc, data[i])
  BY DEF Aes
<1> HIDE DEF aes
<1>4. SubSeq(r, 1, Len(data)) = aes
  BY <1>1, <1>2, <1>3
<1> QED BY <1>1, <1>4 DEF r, aes, Retrieved

\* What Encrypt does, and what Decrypt does to its result.
LEMMA EncryptEffect ==
  ASSUME CellsInv, Encrypt
  PROVE  CellsInv' /\ dfile' = dfile
<1> DEFINE data == SubSeq(image, 1, IF Len(image) < BUFFSIZE
                                      THEN Len(image) ELSE BUFFSIZE)
<1>1. data \in Seq(Byte) /\ Len(data) <= BUFFSIZE
  BY BufferAssumption DEF CellsInv
<1> DEFINE padded == addpad(data)
<1>2. /\ size' = Len(padded) \div 4
      /\ padcount' = Padcount(Len(data))
      /\ buffer' = Run(TRUE, Loaded(padded), size')
      /\ efile' = Retrieved(buffer', size')
      /\ original' = data /\ image' = image /\ dfile' = dfile
  BY DEF Encrypt
<1> HIDE DEF data
<1>3. /\ padded \in Seq(Byte) /\ Len(padded) <= BufBytes
      /\ size' \in Nat /\ 4 * size' = Len(padded) /\ 16 * (size' \div 4) = Len(padded)
  BY <1>1, <1>2, PaddedFacts
<1>4. padded \in Seq(Int)
  BY <1>3, BytesAreInts
<1> HIDE DEF padded
<1>5. /\ buffer' \in [1..BufBytes -> Int]
      /\ efile' = [i \in 1..Len(padded) |-> Aes(TRUE, padded[i])]
  BY <1>2, <1>3, <1>4, RunOnLoaded DEF CellsInv
<1>6. efile' = Encrypted(data)
  BY ONLY <1>5 DEF Encrypted, padded
<1>7. 4 * size' = Len(addpad(data))
  BY ONLY <1>3 DEF padded
<1>8. image \in Images /\ dfile \in Seq(Byte) \cup {None}
  BY DEF CellsInv
<1>9. CellsInv'
  <2>1. image' \in Images /\ dfile' \in Seq(Byte) \cup {None}
    BY ONLY <1>2, <1>8
  <2>2. padcount' \in 4..19
    BY ONLY <1>1, <1>2, PadcountRange
  <2> QED BY ONLY <1>1, <1>2, <1>3, <1>5, <1>6, <1>7, <2>1, <2>2 DEF CellsInv
<1> QED BY ONLY <1>2, <1>9

LEMMA DecryptEffect ==
  ASSUME CellsInv, Decrypt
  PROVE  CellsInv' /\ dfile' = original
<1> DEFINE padded == addpad(original)
<1>1. /\ original \in Seq(Byte) /\ Len(original) <= BUFFSIZE
      /\ efile = Encrypted(original)
      /\ 4 * size = Len(padded) /\ size \in Nat /\ size # None
      /\ padcount = Padcount(Len(original))
  BY DEF CellsInv, Decrypt
<1>2. /\ padded \in Seq(Byte) /\ Len(padded) <= BufBytes /\ Len(padded) \in Nat
      /\ 16 * (size \div 4) = Len(padded)
      /\ padcount \in 4..19
      /\ SubSeq(padded, 1, Len(padded) - padcount) = original
  <2>1. Len(padded) \div 4 = size
    BY <1>1
  <2> QED BY <1>1, <2>1, PaddedFacts
<1> HIDE DEF padded
<1>3. /\ efile \in Seq(Int) /\ Len(efile) = Len(padded)
      /\ \A i \in 1..Len(padded) : /\ padded[i] \in 0..255
                                   /\ efile[i] = Aes(TRUE, padded[i])
  <2>1. efile = [i \in 1..Len(padded) |-> Aes(TRUE, padded[i])]
    BY <1>1 DEF Encrypted, padded
  <2>2. \A i \in 1..Len(padded) : padded[i] \in 0..255
    BY ONLY <1>2, BytesAreInts
  <2>3. \A i \in 1..Len(padded) : Aes(TRUE, padded[i]) \in Int
    BY ONLY <2>2, AesInts
  <2>4. efile \in [1..Len(padded) -> Int]
    BY ONLY <2>1, <2>3
  <2>5. efile \in Seq(Int) /\ Len(efile) = Len(padded)
    BY ONLY <1>2, <2>4, FunctionIsSeq
  <2> QED BY ONLY <2>1, <2>2, <2>5
<1>4. /\ buffer' = Run(FALSE, Loaded(efile), size)
      /\ dfile' = DropLast(Retrieved(buffer', size), padcount)
      /\ UNCHANGED <<image, efile, original, size, padcount>>
  BY DEF Decrypt
<1>5. /\ buffer' \in [1..BufBytes -> Int]
      /\ Retrieved(buffer', size) = [i \in 1..Len(efile) |-> Aes(FALSE, efile[i])]
  <2>1. size \in Nat /\ 16 * (size \div 4) = Len(efile) /\ 4 * size = Len(efile)
        /\ Len(efile) <= BufBytes /\ buffer \in [1..BufBytes -> Int]
    BY ONLY <1>1, <1>2, <1>3, CellsInv DEF CellsInv
  <2>2. /\ Run(FALSE, Loaded(efile), size) \in [1..BufBytes -> Int]
        /\ Retrieved(Run(FALSE, Loaded(efile), size), size)
             = [i \in 1..Len(efile) |-> Aes(FALSE, efile[i])]
    BY ONLY <1>3, <2>1, RunOnLoaded
  <2> QED BY ONLY <1>4, <2>2
<1>6. Retrieved(buffer', size) = padded
  <2>1. \A i \in 1..Len(padded) : Aes(FALSE, efile[i]) = padded[i]
    <3> SUFFICES ASSUME NEW i \in 1..Len(padded)
                 PROVE  Aes(FALSE, efile[i]) = padded[i]
      OBVIOUS
    <3>1. padded[i] \in 0..255 /\ efile[i] = Aes(TRUE, padded[i])
      BY ONLY <1>3, i \in 1..Len(padded)
    <3> QED BY ONLY <3>1, AesInts
  <2>2. Retrieved(buffer', size) = [i \in 1..Len(padded) |-> padded[i]]
    BY ONLY <1>3, <1>5, <2>1
  <2>3. padded = [i \in 1..Len(padded) |-> padded[i]]
    BY ONLY <1>2, LenProperties
  <2> QED BY ONLY <2>2, <2>3
<1>7. dfile' = original
  <2>1. DropLast(padded, padcount) = SubSeq(padded, 1, Len(padded) - padcount)
    BY ONLY <1>2 DEF DropLast
  <2> QED BY ONLY <1>2, <1>4, <1>6, <2>1
<1> QED BY <1>1, <1>4, <1>5, <1>7 DEF CellsInv

LEMMA CellsInvHolds ==
  Spec => []CellsInv
<1>1. Init => CellsInv
  BY BufferAssumption DEF Init, CellsInv, FreshBuffer
<1>2. CellsInv /\ [Next]_vars => CellsInv'
  <2> SUFFICES ASSUME CellsInv, [Next]_vars PROVE CellsInv'
    OBVIOUS
  <2>1. CASE Encrypt
    BY <2>1, EncryptEffect
  <2>2. CASE Decrypt
    BY <2>2, DecryptEffect
  <2>3. CASE ChooseImage
    BY <2>3 DEF ChooseImage, CellsInv
  <2>4. CASE RestartKernel
    BY <2>4, BufferAssumption DEF RestartKernel, CellsInv, FreshBuffer
  <2>5. CASE UNCHANGED vars
    BY <2>5 DEF vars, CellsInv
  <2> QED BY <2>1, <2>2, <2>3, <2>4, <2>5 DEF Next
<1> QED BY <1>1, <1>2, PTL DEF Spec

\* Whatever cells were run, in whatever order, on images of whatever length,
\* and wherever the kernel was restarted, the decryption cell restores the
\* image that was last encrypted, byte for byte.
THEOREM DecryptionRestores ==
  Spec => DecryptRestores
<1>1. CellsInv /\ [Next]_vars => [dfile' # dfile => dfile' = original]_vars
  <2> SUFFICES ASSUME CellsInv, Next, dfile' # dfile PROVE dfile' = original
    OBVIOUS
  <2>1. CASE Encrypt
    BY <2>1, EncryptEffect
  <2>2. CASE Decrypt
    BY <2>2, DecryptEffect
  <2> QED BY <2>1, <2>2 DEF Next, ChooseImage, RestartKernel
<1> QED BY <1>1, CellsInvHolds, PTL DEF Spec, DecryptRestores

\* No byte of any image is in the encrypted file in the clear.
THEOREM NothingIsInTheClear ==
  Spec => []NothingInTheClear
<1>1. CellsInv => NothingInTheClear
  <2> SUFFICES ASSUME CellsInv, efile # None, NEW i \in 1..Len(efile)
               PROVE  efile[i] \in Cipher
    BY DEF NothingInTheClear
  <2> DEFINE padded == addpad(original)
  <2>1. /\ efile = Encrypted(original)
        /\ padded \in Seq(Byte) /\ Len(padded) \in Nat
    BY PaddedFacts DEF CellsInv
  <2> HIDE DEF padded
  <2>2. Len(efile) = Len(padded) /\ \A j \in 1..Len(padded) : efile[j] = padded[j] + 1000
    BY <2>1 DEF Encrypted, Aes, padded
  <2> QED BY <2>1, <2>2 DEF Cipher
<1> QED BY <1>1, CellsInvHolds, PTL

\* Type correctness.
THEOREM CellsTypeCorrect ==
  Spec => []TypeOK
<1>1. CellsInv => TypeOK
  <2> SUFFICES ASSUME CellsInv PROVE TypeOK
    OBVIOUS
  <2>1. efile \in Seq(Byte \cup Cipher) \cup {None}
    <3> SUFFICES ASSUME efile # None PROVE efile \in Seq(Byte \cup Cipher)
      OBVIOUS
    <3> DEFINE padded == addpad(original)
    <3>1. /\ efile = Encrypted(original)
          /\ padded \in Seq(Byte) /\ Len(padded) \in Nat
      BY PaddedFacts DEF CellsInv
    <3> HIDE DEF padded
    <3>2. \A j \in 1..Len(padded) : padded[j] + 1000 \in Cipher
      BY <3>1 DEF Cipher
    <3>3. efile = [j \in 1..Len(padded) |-> padded[j] + 1000]
      BY <3>1 DEF Encrypted, Aes, padded
    <3> QED BY <3>1, <3>2, <3>3
  <2>2. size \in Nat \cup {None} /\ padcount \in 0..19 \cup {None}
    BY PadcountRange DEF CellsInv
  <2>3. Len(buffer) = BufBytes
    BY BufferAssumption DEF CellsInv
  <2> QED BY <2>1, <2>2, <2>3 DEF CellsInv, TypeOK
<1> QED BY <1>1, CellsInvHolds, PTL

==============================================================================
