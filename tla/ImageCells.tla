------------------------------ MODULE ImageCells ------------------------------
(***************************************************************************)
(* The two aes128 cells of notebook/AES128.ipynb: one encrypts an image    *)
(* file, the other decrypts the result into a third file.  The Python      *)
(* variables size and padcount, set by the first cell, are used by the     *)
(* second.  Cells may be run in any order and repeated, the file name may  *)
(* be changed in between, and the kernel may be restarted, which loses     *)
(* the variables and the XRT buffer but not the files.                     *)
(*                                                                         *)
(* A run of the accelerator is one step here; SlotSession models it in     *)
(* detail.  Only whole beats are processed.                                *)
(***************************************************************************)
EXTENDS Pad

CONSTANTS
  Images,     \* the image files the user may name, sequences of bytes
  BUFFSIZE,   \* bytes of a file the first cell reads
  BufBytes,   \* bytes of the XRT buffer from offset_input on
  None        \* a file not written, a variable not defined

ASSUME BufferAssumption ==
  /\ Images \subseteq Seq(Byte)
  /\ BUFFSIZE \in Nat
  /\ BufBytes \in Nat
  /\ \A n \in 0..BUFFSIZE : n + Padcount(n) <= BufBytes

VARIABLES
  image,      \* the file filename names
  efile,      \* the encrypted file
  dfile,      \* the decrypted file
  original,   \* history: the data whose encryption efile is
  size,       \* in 32-bit words
  padcount,
  buffer      \* the XRT buffer

vars == <<image, efile, dfile, original, size, padcount, buffer>>

\* AES as an invertible mark on a byte.
Cipher == {b + 1000 : b \in Byte}
Aes(enc, b) == IF enc THEN b + 1000 ELSE b - 1000

TypeOK ==
  /\ image \in Images
  /\ efile \in Seq(Byte \cup Cipher) \cup {None}
  /\ dfile \in Seq(Byte) \cup {None}
  /\ original \in Seq(Byte) \cup {None}
  /\ size \in Nat \cup {None}
  /\ padcount \in 0..19 \cup {None}
  /\ Len(buffer) = BufBytes

FreshBuffer == [i \in 1..BufBytes |-> 0]

Init ==
  /\ image \in Images
  /\ efile = None /\ dfile = None /\ original = None
  /\ size = None /\ padcount = None
  /\ buffer = FreshBuffer

------------------------------------------------------------------------------

\* Mutant: the data are not copied to the buffer.
LoadedNothing(data) == buffer

Loaded(data) ==
  [i \in 1..BufBytes |-> IF i <= Len(data) THEN data[i] ELSE buffer[i]]

\* words \div 4 beats of 16 bytes go through the accelerator, in place.
Run(enc, buf, words) ==
  [i \in 1..BufBytes |-> IF i <= 16 * (words \div 4) THEN Aes(enc, buf[i])
                                                     ELSE buf[i]]

Retrieved(buf, words) == SubSeq(buf, 1, 4 * words)

Encrypt ==
  LET databuffOrg == SubSeq(image, 1, IF Len(image) < BUFFSIZE
                                        THEN Len(image) ELSE BUFFSIZE)
      databuff == addpad(databuffOrg)
  IN  /\ size' = Len(databuff) \div 4
      /\ padcount' = Padcount(Len(databuffOrg))
      /\ buffer' = Run(TRUE, Loaded(databuff), size')
      /\ efile' = Retrieved(buffer', size')
      /\ original' = databuffOrg
      /\ UNCHANGED <<image, dfile>>

Decrypt ==
  /\ size # None
  /\ buffer' = Run(FALSE, Loaded(efile), size)
  /\ dfile' = DropLast(Retrieved(buffer', size), padcount)
  /\ UNCHANGED <<image, efile, original, size, padcount>>

ChooseImage ==
  /\ image' \in Images
  /\ UNCHANGED <<efile, dfile, original, size, padcount, buffer>>

RestartKernel ==
  /\ size' = None /\ padcount' = None
  /\ buffer' = FreshBuffer
  /\ UNCHANGED <<image, efile, dfile, original>>

Next == Encrypt \/ Decrypt \/ ChooseImage \/ RestartKernel

Spec == Init /\ [][Next]_vars

------------------------------------------------------------------------------
(***************************************************************************)
(* Properties.                                                             *)
(***************************************************************************)

\* Running the decryption cell restores exactly the data of the image last
\* encrypted, whatever was run or renamed since (AES128.ipynb:71-131).
DecryptRestores == [][dfile' # dfile => dfile' = original]_vars

\* No byte of the image is in the encrypted file in the clear: the padding
\* makes it a whole number of beats (pad.py:3-12, siha.py:98-99).
NothingInTheClear ==
  efile # None => \A i \in 1..Len(efile) : efile[i] \in Cipher

==============================================================================
