--------------------------- MODULE MCNotebookKernel ---------------------------
(***************************************************************************)
(* Cells of AES-FFT.ipynb and AES-FIR-FFT.ipynb.  aes and fir share slot   *)
(* 0, fft has slot 1.  Offsets are in words; that of config_fft is 0.      *)
(***************************************************************************)
EXTENDS NotebookKernel, TLC

App == INSTANCE NotebookApp

In == <<"x1", "x2", "x3">>
Orig == <<"o1", "o2", "o3">>

Cell(slot, accel, freeRunning, calls) ==
  [slot |-> slot, accel |-> accel, freeRunning |-> freeRunning,
   calls |-> calls]

\* The filter of the fir cell can be changed between two runs of it.
MCCells ==
  { Cell(0, "AES128", FALSE, App!AESCell(0, 8, <<"key", "dec">>, In)),
    Cell(1, "FFT", TRUE, App!FFTCell(0, 4, <<"c">>, Orig)),
    Cell(0, "FIR", TRUE, App!FIRCell(0, 8, 12, <<"r1", "r2">>, <<"d">>, Orig)),
    Cell(0, "FIR", TRUE, App!FIRCell(0, 8, 12, <<"s1", "s2">>, <<"d">>, Orig)) }

MCAddr == 0..6
MCData == {"junk", "key", "dec", "c", "d", "r1", "r2", "s1", "s2",
           "x1", "x2", "x3", "o1", "o2", "o3"}

===============================================================================
