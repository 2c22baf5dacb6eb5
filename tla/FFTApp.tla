-------------------------------- MODULE FFTApp --------------------------------
(***************************************************************************)
(* The fft application, src/FFT/main.c.  One packet configures each of the *)
(* four channels, on streams 1 to 4.  The results go to a region of their  *)
(* own, RESULT_OFFSET_MEM - FFT_DATA_IN_OFFSET_MEM beats after the input.  *)
(***************************************************************************)
EXTENDS SihaApi

CONSTANTS CONFIG_OFFSET_MEM, FFT_DATA_IN_OFFSET_MEM, RESULT_OFFSET_MEM

\* Mutant: the channels are configured without waiting.
ConfigureChannelUnawaited(tid, config) ==
  << DataToAccel(CONFIG_OFFSET_MEM, Len(config), tid),
     Report(tid, config) >>

ConfigureChannel(tid, config) ==
  << DataToAccel(CONFIG_OFFSET_MEM, Len(config), tid),
     DataToAccelDone,
     Report(tid, config) >>

Configure(config) ==
  ConfigureChannel(1, config) \o ConfigureChannel(2, config)
    \o ConfigureChannel(3, config) \o ConfigureChannel(4, config)

Transform(input) ==
  << DataToAccel(FFT_DATA_IN_OFFSET_MEM, Len(input), 0),
     DataFromAccel(RESULT_OFFSET_MEM, Len(input)),
     DataFromAccelDone >>

\* main, from the copy of the two files to the write of the output file.
main(config, input) ==
  << LoadFresh(Onto(Copied(FFT_DATA_IN_OFFSET_MEM, input),
                    Copied(CONFIG_OFFSET_MEM, config))) >>
    \o Configure(config)
    \o Transform(input)
    \o <<Collect(RESULT_OFFSET_MEM, input, [tid \in 1..4 |-> config])>>

\* internal_test makes the same calls on built-in data of exactly 64 KB.
internal_test(config, input) == main(config, input)

===============================================================================
