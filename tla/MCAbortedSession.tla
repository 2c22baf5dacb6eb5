--------------------------- MODULE MCAbortedSession ---------------------------
(***************************************************************************)
(* An application killed at any point and started again on other data:     *)
(* fir and fft at any relative speed of CPU and hardware; aes128 and the   *)
(* notebook, whose kernel may be restarted in a cell, with the movers      *)
(* ready in time, as they need.                                            *)
(***************************************************************************)
EXTENDS AbortedSession, TLC

FIR == INSTANCE FIRApp WITH
  RELOAD_OFFSET_MEM <- 0, CONFIG_OFFSET_MEM <- 2,
  INPUT_OFFSET_MEM <- 3, RESULT_OFFSET_MEM <- 3

FFT == INSTANCE FFTApp WITH
  CONFIG_OFFSET_MEM <- 0, FFT_DATA_IN_OFFSET_MEM <- 1, RESULT_OFFSET_MEM <- 4

AES == INSTANCE AESApp WITH
  DKB_OFFSET_MEM <- 0, EKB_OFFSET_MEM <- 0, EB_OFFSET_MEM <- 2,
  DB_OFFSET_MEM <- 2, RESULT_OFFSET_MEM <- 2

Notebook == INSTANCE NotebookApp

X == <<"x1", "x2", "x3">>
Y == <<"y1", "y2", "y3">>

\* The calls of the two processes on a module.
Pair(freeRunning, first, second) ==
  [freeRunning |-> freeRunning, calls |-> first \o second,
   second |-> Len(first) + 1, reliant |-> FALSE]

Reliant(pair) == [pair EXCEPT !.reliant = TRUE]

Overtaking ==
  { Pair(TRUE, FIR!main(<<"r1", "r2">>, <<"c">>, X),
               FIR!main(<<"s1", "s2">>, <<"d">>, Y)),
    Pair(TRUE, FFT!main(<<"c">>, X), FFT!main(<<"d">>, Y)) }

InOrder ==
  { Reliant(Pair(FALSE, AES!main(<<"key", "enc">>, X),
                        AES!main(<<"key", "dec">>, Y))),
    Reliant(Pair(FALSE, Notebook!AESCell(0, 8, <<"key", "enc">>, X),
                        Notebook!AESCell(0, 8, <<"key", "dec">>, Y))),
    Reliant(Pair(TRUE,
                 Notebook!FIRCell(0, 8, 12, <<"r1", "r2">>, <<"c">>, X),
                 Notebook!FIRCell(0, 8, 12, <<"s1", "s2">>, <<"d">>, Y))) }

MCWorkloads == Overtaking \cup InOrder

MCAddr == 0..6
MCData == {"junk", "key", "enc", "dec", "r1", "r2", "s1", "s2", "c", "d",
           "x1", "x2", "x3", "y1", "y2", "y3"}

===============================================================================
