----------------------------- MODULE MCReusedSlot -----------------------------
(***************************************************************************)
(* A slot that is used again without being reloaded: every application is  *)
(* followed by a second session with another key, configuration or input.  *)
(* The hardware keeps its state between the sessions.  The aes and         *)
(* notebook workloads also start a transfer on a mover without awaiting    *)
(* the one before, within one session.                                     *)
(***************************************************************************)
EXTENDS ObservedSession, TLC

AES == INSTANCE AESApp WITH
  DKB_OFFSET_MEM <- 0, EKB_OFFSET_MEM <- 2, EB_OFFSET_MEM <- 4,
  DB_OFFSET_MEM <- 7, RESULT_OFFSET_MEM <- 10

FIR == INSTANCE FIRApp WITH
  RELOAD_OFFSET_MEM <- 0, CONFIG_OFFSET_MEM <- 2,
  INPUT_OFFSET_MEM <- 3, RESULT_OFFSET_MEM <- 3

FFT == INSTANCE FFTApp WITH
  CONFIG_OFFSET_MEM <- 0, FFT_DATA_IN_OFFSET_MEM <- 1, RESULT_OFFSET_MEM <- 4

Notebook == INSTANCE NotebookApp

Enc == <<"key", "enc">>
Dec == <<"key", "dec">>
Reload == <<"r1", "r2">>
X == <<"x1", "x2", "x3">>
Y == <<"y1", "y2", "y3">>

Needs(freeRunning, calls) == [freeRunning |-> freeRunning, calls |-> calls]

\* The notebook takes offsets in words, except that of config_fft (bytes).
MCWorkloads ==
  { Needs(FALSE, AES!main(Enc, X) \o AES!main(Dec, Y)),
    Needs(FALSE, AES!main(Enc, X) \o AES!main(Dec, <<"y1">>)),
    Needs(FALSE, AES!internal_test(Dec, Enc, X, Y)),
    Needs(TRUE, FIR!main(Reload, <<"c">>, X) \o FIR!main(Reload, <<"d">>, Y)),
    Needs(TRUE, FFT!main(<<"c">>, X) \o FFT!main(<<"d">>, Y)),
    Needs(FALSE, Notebook!AESCell(0, 8, Enc, X)
                   \o Notebook!AESCell(0, 8, Dec, Y)),
    Needs(TRUE, Notebook!FIRCell(0, 8, 16, Reload, <<"c">>, X)
                  \o Notebook!FIRCell(0, 8, 16, Reload, <<"d">>, Y)),
    Needs(TRUE, Notebook!FFTCell(0, 8, <<"c">>, X)
                  \o Notebook!FFTCell(0, 8, <<"d">>, Y)) }

MCAddr == 0..12
MCData == {"junk", "key", "enc", "dec", "r1", "r2", "c", "d",
           "x1", "x2", "x3", "y1", "y2", "y3"}

===============================================================================
