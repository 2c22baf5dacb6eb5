-------------------------------- MODULE FIRApp --------------------------------
(***************************************************************************)
(* The fir application, src/FIR/main.c.  The FIR module is free running:   *)
(* it needs no StartAccel.  Its coefficients go to stream 1, its           *)
(* configuration to stream 2.  Input and result share one region: the      *)
(* results overwrite the input (INPUT_OFFSET_MEM = RESULT_OFFSET_MEM).     *)
(***************************************************************************)
EXTENDS SihaApi

CONSTANTS RELOAD_OFFSET_MEM, CONFIG_OFFSET_MEM, INPUT_OFFSET_MEM,
          RESULT_OFFSET_MEM

Image(reload, config, input) ==
  Onto(Copied(INPUT_OFFSET_MEM, input),
       Onto(Copied(CONFIG_OFFSET_MEM, config),
            Copied(RELOAD_OFFSET_MEM, reload)))

\* Mutant: the wait for the coefficients is missing.
ConfigureUnawaited(reload, config) ==
  << DataToAccel(RELOAD_OFFSET_MEM, Len(reload), 1),
     Report(1, reload),
     DataToAccel(CONFIG_OFFSET_MEM, Len(config), 2),
     DataToAccelDone,
     Report(2, config) >>

\* Mutant: the message about the coefficients comes before the wait.
ConfigureReportEarly(reload, config) ==
  << DataToAccel(RELOAD_OFFSET_MEM, Len(reload), 1),
     Report(1, reload),
     DataToAccelDone,
     DataToAccel(CONFIG_OFFSET_MEM, Len(config), 2),
     DataToAccelDone,
     Report(2, config) >>

\* Each packet is awaited before the next transfer is started.
Configure(reload, config) ==
  << DataToAccel(RELOAD_OFFSET_MEM, Len(reload), 1),
     DataToAccelDone,
     Report(1, reload),
     DataToAccel(CONFIG_OFFSET_MEM, Len(config), 2),
     DataToAccelDone,
     Report(2, config) >>

\* Mutant: the wait for the results is missing.
FilterUnawaited(input) ==
  << DataToAccel(INPUT_OFFSET_MEM, Len(input), 0),
     DataFromAccel(RESULT_OFFSET_MEM, Len(input)) >>

\* Mutant: the input is awaited before the results are asked for.
FilterInputAwaited(input) ==
  << DataToAccel(INPUT_OFFSET_MEM, Len(input), 0),
     DataToAccelDone,
     DataFromAccel(RESULT_OFFSET_MEM, Len(input)),
     DataFromAccelDone >>

\* The input transfer is not awaited, its result transfer is.  (The message
\* "Configure FIR Input data done." only says that it was started.)
Filter(input) ==
  << DataToAccel(INPUT_OFFSET_MEM, Len(input), 0),
     DataFromAccel(RESULT_OFFSET_MEM, Len(input)),
     DataFromAccelDone >>

\* main, from the copy of the three files to the write of the output file.
main(reload, config, input) ==
  <<LoadFresh(Image(reload, config, input))>>
    \o Configure(reload, config)
    \o Filter(input)
    \o <<Collect(RESULT_OFFSET_MEM, input, <<reload, config>>)>>

\* internal_test makes the same calls on built-in data.  It reports the two
\* packets in the same places and compares a window of the results.
internal_test(reload, config, input) == main(reload, config, input)

===============================================================================
