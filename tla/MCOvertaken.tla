----------------------------- MODULE MCOvertaken -----------------------------
(***************************************************************************)
(* A workload that reports a packet as configured without knowing it, run  *)
(* with nothing assumed about the relative speed of CPU and hardware.      *)
(***************************************************************************)
EXTENDS SlotSession, TLC

FIR == INSTANCE FIRApp WITH
  RELOAD_OFFSET_MEM <- 0, CONFIG_OFFSET_MEM <- 2,
  INPUT_OFFSET_MEM <- 3, RESULT_OFFSET_MEM <- 3

X == <<"x1", "x2", "x3">>
Y == <<"y1", "y2", "y3">>

\* The fir application, twice on the same loaded slot.
MCFIRTwice ==
  { [freeRunning |-> TRUE,
     calls |-> FIR!main(<<"r1", "r2">>, <<"c">>, X)
                 \o FIR!main(<<"s1", "s2">>, <<"d">>, Y)] }

MCAddr == 0..6
MCData == {"junk", "r1", "r2", "s1", "s2", "c", "d",
           "x1", "x2", "x3", "y1", "y2", "y3"}

==============================================================================
