---------------------------- MODULE MCFirstSession ----------------------------
(***************************************************************************)
(* The fir and fft applications, each in the first session on its slot     *)
(* after the slot was loaded.  Offsets keep the order and the overlaps of  *)
(* the macros; regions shrink to a few beats.  The fft input fills at most *)
(* the region before the results, as the 64 KB of internal_test do.        *)
(***************************************************************************)
EXTENDS ObservedSession, TLC

FIR == INSTANCE FIRApp WITH
  RELOAD_OFFSET_MEM <- 0, CONFIG_OFFSET_MEM <- 2,
  INPUT_OFFSET_MEM <- 3, RESULT_OFFSET_MEM <- 3

FFT == INSTANCE FFTApp WITH
  CONFIG_OFFSET_MEM <- 0, FFT_DATA_IN_OFFSET_MEM <- 1, RESULT_OFFSET_MEM <- 7

Input == <<"x1", "x2", "x3", "x4", "x5", "x6">>

Session(calls) == [freeRunning |-> TRUE, calls |-> calls]

\* Input sizes below, at and above what the module can hold.
MCWorkloads ==
  UNION { LET in == SubSeq(Input, 1, n)
          IN  { Session(FIR!main(<<"r1", "r2">>, <<"c">>, in)),
                Session(FIR!internal_test(<<"r1", "r2">>, <<"c">>, in)),
                Session(FFT!main(<<"c">>, in)),
                Session(FFT!internal_test(<<"c">>, in)) } : n \in 1..6 }

MCAddr == 0..12
MCData == {"junk", "r1", "r2", "c", "x1", "x2", "x3", "x4",
           "x5", "x6"}

===============================================================================
