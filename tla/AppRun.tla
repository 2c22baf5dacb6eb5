-------------------------------- MODULE AppRun --------------------------------
(***************************************************************************)
(* One invocation of an application from the shell: its arguments, the     *)
(* files it reads and writes, and the status it exits with.  The four      *)
(* main functions have one shape and differ in the files they read first   *)
(* (key, or configuration and coefficients), in the sizes they accept and  *)
(* in the layout of the buffer.                                            *)
(*                                                                         *)
(* A file is known by its length, the output file also by how many of its  *)
(* first bytes the accelerator has processed.  The work on the slot is one *)
(* step: SlotSession has its detail, and that it processes the whole beats *)
(* it is given is ResultsExact.                                            *)
(***************************************************************************)
EXTENDS Integers, Sequences

CONSTANTS
  Lengths,       \* the lengths files may have, in bytes
  Programs       \* the applications that may be run

SIZE_IN_BYTES == 67108864

\* An application: the shortest usable file of each kind it reads before the
\* input, the shortest usable input, the region it reserves for the results
\* when it checks the input, and where they go.  Its layout lists the copies
\* into the buffer in their order: which file (the input is the last), where
\* it is copied, in words, and where its transfer starts, in bytes.  An aes
\* application copies and transfers a structure with the key and a flag.
Part(file, word, offset) == [file |-> file, word |-> word, offset |-> offset]

AES128 == [side |-> <<16>>, inMin |-> 16, checkOffset |-> 512,
           outOffset |-> 512, keyBuf |-> 20,
           layout |-> <<Part(1, 0, 0), Part(2, 128, 512)>>]

AES192 == [side |-> <<24>>, inMin |-> 16, checkOffset |-> 512,
           outOffset |-> 512, keyBuf |-> 28,
           layout |-> <<Part(1, 0, 0), Part(2, 128, 512)>>]

FIR == [side |-> <<16, 160>>, inMin |-> 16, checkOffset |-> 1024,
        outOffset |-> 1024, keyBuf |-> 0,
        layout |-> <<Part(2, 0, 0), Part(1, 128, 512), Part(3, 256, 1024)>>]

FFT == [side |-> <<16>>, inMin |-> 65536, checkOffset |-> 69632,
        outOffset |-> 69632, keyBuf |-> 0,
        layout |-> <<Part(1, 0, 0), Part(2, 1024, 4096)>>]

ASSUME ProgramsAssumption ==
  Lengths \subseteq Nat /\ Programs \subseteq {AES128, AES192, FIR, FFT}

VARIABLES
  prog,     \* the application
  args,     \* its arguments
  side,     \* the lengths of the files read first, -1 for one it cannot open
  inLen,    \* the length of the input file, likewise
  earlier,  \* history: the output file before the run
  out,      \* the output file
  phase,    \* how far the run is
  status    \* how it ended

vars == <<prog, args, side, inLen, earlier, out, phase, status>>

world == <<prog, args, side, inLen, earlier>>

\* sameFile: the output is named like the input.
Args == [mode : {"help", "test", "files"}, complete : BOOLEAN,
         slot : 0..2, sameFile : BOOLEAN]

File == [kind : {"none", "other", "result"}, len : Nat, processed : Nat]

NoFile == [kind |-> "none", len |-> 0, processed |-> 0]
OtherFile == [kind |-> "other", len |-> 1, processed |-> 0]
Result(len, processed) ==
  [kind |-> "result", len |-> len, processed |-> processed]

Phases == {"options", "side", "in", "out", "slot", "work", "write", "test",
           "end"}

TypeOK ==
  /\ prog \in Programs
  /\ args \in Args
  /\ side \in Seq(Lengths \cup {-1})
  /\ Len(side) = Len(prog.side)
  /\ inLen \in Lengths \cup {-1}
  /\ earlier \in {NoFile, OtherFile}
  /\ out \in File
  /\ phase \in Phases
  /\ status \in {"running", "success", "failure", "killed", "hung"}

Init ==
  /\ prog \in Programs
  /\ args \in Args
  /\ side \in [1..Len(prog.side) -> Lengths \cup {-1}]
  /\ inLen \in Lengths \cup {-1}
  /\ earlier \in {NoFile, OtherFile}
  /\ out = earlier
  /\ phase = "options"
  /\ status = "running"

------------------------------------------------------------------------------

Goto(p) == phase' = p /\ status' = "running"
Exit(s) == phase' = "end" /\ status' = s
die == Exit("failure")

\* No argument, or one that is no option, asks for the built-in test; usage
\* exits with 0; a missing file name is an error.
ParseOptions ==
  /\ phase = "options"
  /\ \/ args.mode = "help" /\ Exit("success")
     \/ args.mode = "test" /\ Goto("test")
     \/ args.mode = "files" /\ ~args.complete /\ die
     \/ args.mode = "files" /\ args.complete /\ Goto("side")
  /\ UNCHANGED <<world, out>>

\* internal_test reports a slot it cannot open, or a wrong result, only by a
\* message.  An exception of XRT is caught nowhere.
InternalTest ==
  /\ phase = "test"
  /\ \/ args.slot \notin {0, 1} /\ die
     \/ args.slot \in {0, 1} /\ \E s \in {"success", "killed"} : Exit(s)
  /\ UNCHANGED <<world, out>>

SideUsable == \A i \in 1..Len(side) : side[i] >= prog.side[i]

ReadSideFiles ==
  /\ phase = "side"
  /\ IF SideUsable THEN Goto("in") ELSE die
  /\ UNCHANGED <<world, out>>

\* Mutant: the offset is not taken off the size of the buffer.
InUsableWholeBuffer(p, len) == len >= p.inMin /\ len <= SIZE_IN_BYTES

InUsable(p, len) == len >= p.inMin /\ len <= SIZE_IN_BYTES - p.checkOffset

\* Mutant: the output is truncated before the input is looked at.
OpenInLate ==
  /\ phase = "in"
  /\ out' = Result(0, 0)
  /\ IF InUsable(prog, inLen) THEN Goto("out") ELSE die
  /\ UNCHANGED world

OpenIn ==
  /\ phase = "in"
  /\ IF InUsable(prog, inLen) THEN Goto("out") ELSE die
  /\ UNCHANGED <<world, out>>

\* O_TRUNC: an existing file is emptied here.
OpenOut ==
  /\ phase = "out"
  /\ \/ die /\ UNCHANGED out
     \/ Goto("slot") /\ out' = Result(0, 0)
  /\ UNCHANGED world

\* The slot number is not checked here: for one that does not exist,
\* InitializeMapRMs may succeed, and the transfers then go through pointers
\* nobody has set.
InitialiseSlot ==
  /\ phase = "slot"
  /\ \/ die
     \/ Exit("killed")
     \/ args.slot \in {0, 1} /\ Goto("work")
     \/ args.slot \notin {0, 1} /\ Exit("hung")
  /\ UNCHANGED <<world, out>>

\* Mutant: the words are taken for bytes.
CopyAtByte(part) == part.word

\* vptr is a pointer to words of four bytes.
CopyAt(part) == 4 * part.word

FileLen(f) == IF f <= Len(side) THEN side[f] ELSE inLen

Copied(f) == IF f = 1 /\ prog.keyBuf # 0 THEN prog.keyBuf ELSE FileLen(f)

\* Copy, transfers and waits.  The mapping of an input that was truncated
\* under it cannot be read any more.
Work ==
  /\ phase = "work"
  /\ IF args.sameFile THEN Exit("killed") ELSE Goto("write")
  /\ UNCHANGED <<world, out>>

\* The bytes in len >> 4 beats.
ProcessedBytes(len) == 16 * (len \div 16)

\* Two beats for the key, the whole beats of any other file.
Sent(f) == IF f = 1 /\ prog.keyBuf # 0 THEN 32 ELSE ProcessedBytes(FileLen(f))

\* Mutant: what write returned is taken for the length of the file.
WriteOutputUnchecked ==
  /\ phase = "write"
  /\ \E n \in {-1, 0, inLen \div 2, inLen} : out' = Result(n, n)
  /\ Exit("success")
  /\ UNCHANGED world

\* write may fail, write nothing, a part or all.
WriteOutput ==
  /\ phase = "write"
  /\ \E n \in {-1, 0, inLen \div 2, inLen} :
       /\ out' = IF n <= 0 THEN out
                 ELSE Result(n, IF n < ProcessedBytes(inLen) THEN n
                                ELSE ProcessedBytes(inLen))
       /\ IF n = 0 THEN die ELSE Exit("success")
  /\ UNCHANGED world

Ended == phase = "end" /\ UNCHANGED vars

Next ==
  \/ ParseOptions
  \/ InternalTest
  \/ ReadSideFiles
  \/ OpenIn
  \/ OpenOut
  \/ InitialiseSlot
  \/ Work
  \/ WriteOutput
  \/ Ended

Spec == Init /\ [][Next]_vars

------------------------------------------------------------------------------
(***************************************************************************)
(* Properties.                                                             *)
(***************************************************************************)

\* The copy of the input, the transfer of the results and the bytes written
\* to the output file lie within the buffer, up to the longest input the
\* size check admits (AES128/main.c:334, FIR/main.c:279, FFT/main.c:270).
InputStaysInBuffer ==
  phase = "work" =>
    /\ CopyAt(prog.layout[Len(prog.layout)]) + inLen <= SIZE_IN_BYTES
    /\ prog.outOffset + ProcessedBytes(inLen) <= SIZE_IN_BYTES
    /\ prog.outOffset + inLen <= SIZE_IN_BYTES

Apart(a, m, b, n) == a + m <= b \/ b + n <= a

\* A transfer starts where its file was copied, although one offset counts
\* words and the other bytes, and no later copy reaches into what it takes,
\* if the key, configuration and coefficients are not longer than 512 bytes
\* (FIR/main.c:307-327; AES128 and FFT likewise).
PacketsIntact ==
  phase = "work" /\ (\A i \in 1..Len(side) : side[i] <= 512) =>
    \A i \in 1..Len(prog.layout) :
      /\ prog.layout[i].offset = CopyAt(prog.layout[i])
      /\ \A j \in (i + 1)..Len(prog.layout) :
           Apart(prog.layout[i].offset, Sent(prog.layout[i].file),
                 CopyAt(prog.layout[j]), Copied(prog.layout[j].file))

\* A run that cannot use its input files does not cost the user an output
\* file from an earlier run: all of them are looked at before O_TRUNC.
UnusableInputKeepsOutput ==
  args.mode = "files" /\ ~(SideUsable /\ InUsable(prog, inLen))
    => out = earlier

\* "if (!status) die("write(%s)")": an exit with success means that the
\* output was written (AES128/main.c:390).
SuccessMeansWritten ==
  args.mode = "files" /\ status = "success" => out.len = inLen

\* "to encrypt a file", "write only the original size": all bytes of a
\* complete output have been processed (AES128/main.c:248, 385).
OutputProcessed ==
  out.kind = "result" /\ out.len > 0 => out.processed = out.len

==============================================================================
