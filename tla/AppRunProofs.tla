----------------------------- MODULE AppRunProofs -----------------------------
(***************************************************************************)
(* What holds of a run of an application for files of every length.        *)
(***************************************************************************)
EXTENDS AppRun, TLAPS

\* The files a run has looked at by the time it reaches a phase.
InputChecked ==
  /\ prog \in Programs
  /\ inLen \in Lengths \cup {-1}
  /\ phase \in {"in", "out", "slot", "work", "write"} => SideUsable
  /\ phase \in {"out", "slot", "work", "write"} => InUsable(prog, inLen)

\* An input the size check admits is not longer than what is left of the
\* buffer behind its place or behind that of the results (AES128/main.c:334,
\* FIR/main.c:279, FFT/main.c:270).
LEMMA UsableFits ==
  ASSUME NEW p \in Programs, NEW len \in Nat, InUsable(p, len)
  PROVE  /\ CopyAt(p.layout[Len(p.layout)]) + len <= SIZE_IN_BYTES
         /\ p.outOffset + len <= SIZE_IN_BYTES
<1>1. p \in {AES128, AES192, FIR, FFT}
  BY ProgramsAssumption
<1> DEFINE at == CopyAt(p.layout[Len(p.layout)])
<1>2. /\ at \in Nat
      /\ p.outOffset \in Nat
      /\ p.checkOffset \in Nat
      /\ at <= p.checkOffset
      /\ p.outOffset = p.checkOffset
  <2>1. CASE p = AES128 BY <2>1 DEF AES128, CopyAt, Part
  <2>2. CASE p = AES192 BY <2>2 DEF AES192, CopyAt, Part
  <2>3. CASE p = FIR BY <2>3 DEF FIR, CopyAt, Part
  <2>4. CASE p = FFT BY <2>4 DEF FFT, CopyAt, Part
  <2> QED BY <1>1, <2>1, <2>2, <2>3, <2>4
<1>3. len <= SIZE_IN_BYTES - p.checkOffset
  BY DEF InUsable
<1> HIDE DEF at
<1>4. at + len <= SIZE_IN_BYTES /\ p.outOffset + len <= SIZE_IN_BYTES
  BY <1>2, <1>3 DEF SIZE_IN_BYTES
<1> QED BY <1>4 DEF at

\* No more bytes are processed than there are (AES128/main.c:369).
LEMMA ProcessedBytesBound ==
  ASSUME NEW len \in Nat
  PROVE  ProcessedBytes(len) \in Nat /\ ProcessedBytes(len) <= len
BY DEF ProcessedBytes

\* The usable inputs are no shorter than the shortest one of the program, so
\* a file that could not be opened is not usable.
LEMMA UsableExists ==
  ASSUME NEW p \in Programs, NEW len \in Lengths \cup {-1}, InUsable(p, len)
  PROVE  len \in Nat
<1>1. p.inMin \in Nat
  BY ProgramsAssumption DEF AES128, AES192, FIR, FFT
<1>2. len >= p.inMin
  BY DEF InUsable
<1> QED BY <1>1, <1>2, ProgramsAssumption

\* The runs reach a phase only with the files they have looked at.
THEOREM CheckedFirst == Spec => []InputChecked
<1>1. Init => InputChecked
  BY DEF Init, InputChecked
<1>2. InputChecked /\ [Next]_vars => InputChecked'
  <2> SUFFICES ASSUME InputChecked, [Next]_vars
               PROVE  InputChecked'
    OBVIOUS
  <2> USE DEF InputChecked, SideUsable, InUsable
  <2>1. CASE ParseOptions
    BY <2>1 DEF ParseOptions, world, Goto, Exit, die
  <2>2. CASE InternalTest
    BY <2>2 DEF InternalTest, world, Exit, die
  <2>3. CASE ReadSideFiles
    BY <2>3 DEF ReadSideFiles, world, Goto, Exit, die
  <2>4. CASE OpenIn
    BY <2>4 DEF OpenIn, world, Goto, Exit, die
  <2>5. CASE OpenOut
    BY <2>5 DEF OpenOut, world, Goto, Exit, die
  <2>6. CASE InitialiseSlot
    BY <2>6 DEF InitialiseSlot, world, Goto, Exit, die
  <2>7. CASE Work
    BY <2>7 DEF Work, world, Goto, Exit
  <2>8. CASE WriteOutput
    BY <2>8 DEF WriteOutput, world, Exit, die
  <2>9. CASE Ended \/ UNCHANGED vars
    BY <2>9 DEF Ended, vars
  <2> QED BY <2>1, <2>2, <2>3, <2>4, <2>5, <2>6, <2>7, <2>8, <2>9 DEF Next
<1> QED BY <1>1, <1>2, PTL DEF Spec

\* Whatever the lengths of the files, the copy, the transfer of the results
\* and the write stay within the buffer.
THEOREM BufferSafe == Spec => []InputStaysInBuffer
<1>1. InputChecked => InputStaysInBuffer
  <2> SUFFICES ASSUME InputChecked, phase = "work"
               PROVE  /\ CopyAt(prog.layout[Len(prog.layout)]) + inLen
                           <= SIZE_IN_BYTES
                      /\ prog.outOffset + ProcessedBytes(inLen)
                           <= SIZE_IN_BYTES
                      /\ prog.outOffset + inLen <= SIZE_IN_BYTES
    BY DEF InputStaysInBuffer
  <2>1. InUsable(prog, inLen) /\ prog \in Programs
    BY DEF InputChecked
  <2>2. inLen \in Nat
    BY <2>1, UsableExists DEF InputChecked
  <2>3. /\ CopyAt(prog.layout[Len(prog.layout)]) + inLen <= SIZE_IN_BYTES
        /\ prog.outOffset + inLen <= SIZE_IN_BYTES
    BY <2>1, <2>2, UsableFits
  <2>4. ProcessedBytes(inLen) \in Nat /\ ProcessedBytes(inLen) <= inLen
    BY <2>2, ProcessedBytesBound
  <2>5. prog.outOffset \in Nat
    BY <2>1, ProgramsAssumption DEF AES128, AES192, FIR, FFT
  <2> QED BY <2>2, <2>3, <2>4, <2>5 DEF SIZE_IN_BYTES
<1> QED BY <1>1, CheckedFirst, PTL

\* Whatever the lengths of the files, a run that cannot use one of its inputs
\* leaves the output of an earlier run alone.
THEOREM UnusableInputSafe == Spec => []UnusableInputKeepsOutput
<1>1. Init => UnusableInputKeepsOutput
  BY DEF Init, UnusableInputKeepsOutput
<1>2. InputChecked /\ UnusableInputKeepsOutput /\ [Next]_vars
        => UnusableInputKeepsOutput'
  <2> SUFFICES ASSUME InputChecked, UnusableInputKeepsOutput, [Next]_vars
               PROVE  UnusableInputKeepsOutput'
    OBVIOUS
  <2>1. CASE OpenOut \/ WriteOutput
    <3>1. SideUsable /\ InUsable(prog, inLen)
      BY <2>1 DEF OpenOut, WriteOutput, InputChecked
    <3>2. UNCHANGED <<prog, side, inLen>>
      BY <2>1 DEF OpenOut, WriteOutput, world
    <3> QED BY <3>1, <3>2 DEF UnusableInputKeepsOutput, SideUsable, InUsable
  <2>2. CASE UNCHANGED <<world, out>>
    BY <2>2 DEF UnusableInputKeepsOutput, SideUsable, InUsable, world
  <2>3. CASE ~(OpenOut \/ WriteOutput)
    <3>1. UNCHANGED <<world, out>>
      BY <2>3 DEF Next, ParseOptions, InternalTest, ReadSideFiles, OpenIn,
                  InitialiseSlot, Work, Ended, vars, world
    <3> QED BY <3>1, <2>2
  <2> QED BY <2>1, <2>3
<1> QED BY <1>1, <1>2, CheckedFirst, PTL DEF Spec

\* The files of a run keep their lengths, and there are as many as its
\* program reads.
Files ==
  /\ prog \in Programs
  /\ side \in Seq(Lengths \cup {-1})
  /\ Len(side) = Len(prog.side)
  /\ inLen \in Lengths \cup {-1}

\* The arguments and files of a run do not change.
THEOREM FilesFixed == Spec => []Files
<1>1. Init => Files
  <2> SUFFICES ASSUME Init PROVE Files
    OBVIOUS
  <2>1. Len(prog.side) \in Nat
    BY ProgramsAssumption DEF Init, AES128, AES192, FIR, FFT
  <2>2. side \in Seq(Lengths \cup {-1}) /\ Len(side) = Len(prog.side)
    BY <2>1 DEF Init
  <2> QED BY <2>2 DEF Init, Files
<1>2. Files /\ [Next]_vars => Files'
  <2> SUFFICES ASSUME Files, [Next]_vars PROVE Files'
    OBVIOUS
  <2>1. UNCHANGED <<prog, side, inLen>>
    BY DEF Next, ParseOptions, InternalTest, ReadSideFiles, OpenIn, OpenOut,
           InitialiseSlot, Work, WriteOutput, Ended, vars, world
  <2> QED BY <2>1 DEF Files
<1> QED BY <1>1, <1>2, PTL DEF Spec

\* The half and the whole of a file are lengths (AES128/main.c:385).
LEMMA ResultType ==
  ASSUME NEW len \in Nat, NEW n \in {-1, 0, len \div 2, len}, n > 0
  PROVE  Result(n, IF n < ProcessedBytes(len) THEN n ELSE ProcessedBytes(len))
           \in File
<1>1. len \div 2 \in Nat
  OBVIOUS
<1>2. n \in Nat
  BY <1>1
<1>3. ProcessedBytes(len) \in Nat
  BY ProcessedBytesBound
<1>4. (IF n < ProcessedBytes(len) THEN n ELSE ProcessedBytes(len)) \in Nat
  BY <1>2, <1>3
<1> QED BY <1>2, <1>4 DEF Result, File

\* What a run changes beside its files.
RunOK ==
  /\ args \in Args
  /\ earlier \in {NoFile, OtherFile}
  /\ out \in File
  /\ phase \in Phases
  /\ status \in {"running", "success", "failure", "killed", "hung"}

\* Arguments, files and status stay well typed, for files of every length
\* (AES128/main.c:262-394; the other programs likewise).
THEOREM RunTypeCorrect == Spec => []TypeOK
<1>1. Init => RunOK
  BY DEF Init, RunOK, NoFile, OtherFile, File, Phases
<1>2. InputChecked /\ RunOK /\ [Next]_vars => RunOK'
  <2> SUFFICES ASSUME InputChecked, RunOK, [Next]_vars PROVE RunOK'
    OBVIOUS
  <2> USE DEF RunOK, Phases, world, Goto, Exit, die
  <2>1. CASE ParseOptions
    BY <2>1 DEF ParseOptions
  <2>2. CASE InternalTest
    BY <2>2 DEF InternalTest
  <2>3. CASE ReadSideFiles
    BY <2>3 DEF ReadSideFiles
  <2>4. CASE OpenIn
    BY <2>4 DEF OpenIn
  <2>5. CASE OpenOut
    BY <2>5 DEF OpenOut, Result, File
  <2>6. CASE InitialiseSlot
    BY <2>6 DEF InitialiseSlot
  <2>7. CASE Work
    BY <2>7 DEF Work
  <2>8. CASE WriteOutput
    <3>1. inLen \in Nat
      BY <2>8, UsableExists DEF WriteOutput, InputChecked
    <3>2. PICK n \in {-1, 0, inLen \div 2, inLen} :
            /\ out' = IF n <= 0 THEN out
                      ELSE Result(n, IF n < ProcessedBytes(inLen) THEN n
                                     ELSE ProcessedBytes(inLen))
            /\ IF n = 0 THEN die ELSE Exit("success")
      BY <2>8 DEF WriteOutput
    <3>3. n \in Int /\ (n <= 0 \/ n > 0)
      BY <3>1
    <3>4. out' \in File
      BY <3>1, <3>2, <3>3, ResultType
    <3> QED BY <2>8, <3>2, <3>4 DEF WriteOutput
  <2>9. CASE Ended \/ UNCHANGED vars
    BY <2>9 DEF Ended, vars
  <2> QED BY <2>1, <2>2, <2>3, <2>4, <2>5, <2>6, <2>7, <2>8, <2>9 DEF Next
<1>3. Files /\ RunOK => TypeOK
  BY DEF Files, RunOK, TypeOK
<1> QED BY <1>1, <1>2, <1>3, CheckedFirst, FilesFixed, PTL DEF Spec

\* A usable file is one that could be opened (FIR/main.c:253-271).
LEMMA UsableSide ==
  ASSUME Files, SideUsable, NEW i \in 1..Len(side)
  PROVE  side[i] \in Nat
<1>1. side[i] \in Lengths \cup {-1}
  BY DEF Files
<1>2. prog.side[i] \in Nat
  <2>1. prog \in {AES128, AES192, FIR, FFT}
    BY ProgramsAssumption DEF Files
  <2>2. CASE prog \in {AES128, AES192, FFT}
    <3>1. \E n \in Nat : prog.side = <<n>>
      BY <2>2 DEF AES128, AES192, FFT
    <3>2. Len(prog.side) = 1
      BY <3>1
    <3>3. i = 1
      BY <3>2 DEF Files
    <3> QED BY <3>1, <3>3
  <2>3. CASE prog = FIR
    <3>1. prog.side = <<16, 160>>
      BY <2>3 DEF FIR
    <3>2. Len(prog.side) = 2
      BY <3>1
    <3>3. i \in {1, 2}
      BY <3>2 DEF Files
    <3> QED BY <3>1, <3>3
  <2> QED BY <2>1, <2>2, <2>3
<1>3. side[i] >= prog.side[i]
  BY DEF SideUsable
<1>4. CASE side[i] \in Lengths
  BY <1>4, ProgramsAssumption
<1>5. CASE side[i] = -1
  BY <1>2, <1>3, <1>5
<1> QED BY <1>1, <1>4, <1>5

\* No more is transferred of a file than it has (FIR/main.c:313, 320).
LEMMA FitsPlace ==
  ASSUME NEW len \in Nat, len <= 512
  PROVE  /\ ProcessedBytes(len) \in Nat
         /\ ProcessedBytes(len) <= 512
<1>1. ProcessedBytes(len) \in Nat /\ ProcessedBytes(len) <= len
  BY ProcessedBytesBound
<1> QED BY <1>1

\* With a key, configuration and coefficients of every length up to 512
\* bytes, and inputs of every length, each transfer takes its own file.
THEOREM PacketsSafe == Spec => []PacketsIntact
<1>1. Files /\ InputChecked => PacketsIntact
  <2> SUFFICES ASSUME Files, InputChecked, phase = "work",
                      \A i \in 1..Len(side) : side[i] <= 512,
                      NEW i \in 1..Len(prog.layout)
               PROVE  /\ prog.layout[i].offset = CopyAt(prog.layout[i])
                      /\ \A j \in (i + 1)..Len(prog.layout) :
                           Apart(prog.layout[i].offset,
                                 Sent(prog.layout[i].file),
                                 CopyAt(prog.layout[j]),
                                 Copied(prog.layout[j].file))
    BY DEF PacketsIntact
  <2>1. prog \in {AES128, AES192, FIR, FFT}
    BY ProgramsAssumption DEF Files
  <2>2. SideUsable
    BY DEF InputChecked
  <2>3. CASE prog \in {AES128, AES192}
    <3>1. /\ prog.keyBuf # 0
          /\ prog.layout = <<Part(1, 0, 0), Part(2, 128, 512)>>
      BY <2>3 DEF AES128, AES192
    <3>2. Sent(1) = 32
      BY <3>1 DEF Sent
    <3>3. Len(prog.layout) = 2
      BY <3>1
    <3>4. CASE i = 1
      BY <3>1, <3>2, <3>3, <3>4 DEF Part, CopyAt, Apart
    <3>5. CASE i = 2
      BY <3>1, <3>3, <3>5 DEF Part, CopyAt
    <3> QED BY <3>3, <3>4, <3>5
  <2>4. CASE prog = FFT
    <3>1. /\ prog.keyBuf = 0
          /\ prog.layout = <<Part(1, 0, 0), Part(2, 1024, 4096)>>
          /\ prog.side = <<16>>
      BY <2>4 DEF FFT
    <3>2. side \in Seq(Lengths \cup {-1}) /\ Len(side) = 1
      BY <3>1 DEF Files
    <3>3. side[1] \in Nat /\ side[1] <= 512
      BY <2>2, <3>2, UsableSide
    <3>4. Sent(1) = ProcessedBytes(side[1])
      BY <3>1, <3>2 DEF Sent, FileLen
    <3>5. Sent(1) \in Nat /\ Sent(1) <= 512
      BY ONLY <3>3, <3>4, FitsPlace
    <3>6. Len(prog.layout) = 2
      BY <3>1
    <3>7. CASE i = 1
      BY <3>1, <3>5, <3>6, <3>7 DEF Part, CopyAt, Apart
    <3>8. CASE i = 2
      BY <3>1, <3>6, <3>8 DEF Part, CopyAt
    <3> QED BY <3>6, <3>7, <3>8
  <2>5. CASE prog = FIR
    <3>1. /\ prog.keyBuf = 0
          /\ prog.layout = <<Part(2, 0, 0), Part(1, 128, 512),
                             Part(3, 256, 1024)>>
          /\ prog.side = <<16, 160>>
      BY <2>5 DEF FIR
    <3>2. side \in Seq(Lengths \cup {-1}) /\ Len(side) = 2
      BY <3>1 DEF Files
    <3>3. /\ side[1] \in Nat /\ side[1] <= 512
          /\ side[2] \in Nat /\ side[2] <= 512
      BY <2>2, <3>2, UsableSide
    <3>4. /\ Sent(1) = ProcessedBytes(side[1])
          /\ Sent(2) = ProcessedBytes(side[2])
      BY <3>1, <3>2 DEF Sent, FileLen
    <3>5. /\ Sent(1) \in Nat /\ Sent(1) <= 512
          /\ Sent(2) \in Nat /\ Sent(2) <= 512
      <4>1. /\ ProcessedBytes(side[1]) \in Nat /\ ProcessedBytes(side[1]) <= 512
            /\ ProcessedBytes(side[2]) \in Nat /\ ProcessedBytes(side[2]) <= 512
        BY ONLY <3>3, FitsPlace
      <4> QED BY ONLY <3>4, <4>1
    <3>6. Len(prog.layout) = 3
      BY <3>1
    <3>7. CASE i = 1
      BY <3>1, <3>5, <3>6, <3>7 DEF Part, CopyAt, Apart
    <3>8. CASE i = 2
      BY <3>1, <3>5, <3>6, <3>8 DEF Part, CopyAt, Apart
    <3>9. CASE i = 3
      BY <3>1, <3>6, <3>9 DEF Part, CopyAt
    <3> QED BY <3>6, <3>7, <3>8, <3>9
  <2> QED BY <2>1, <2>3, <2>4, <2>5
<1> QED BY <1>1, CheckedFirst, FilesFixed, PTL

===============================================================================
