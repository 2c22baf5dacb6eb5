------------------------------ MODULE NotebookApp ------------------------------
(***************************************************************************)
(* The Python side, notebook/siha.py, and the notebook cells that use it.  *)
(* The methods take offsets and sizes in 32-bit words.  config and run     *)
(* turn them into bytes and beats; config_fft passes both on unchanged,    *)
(* as bytes and beats.  A word offset is a multiple of 4 here, so that it  *)
(* names a beat.                                                           *)
(***************************************************************************)
EXTENDS SihaApi

WordsPerBeat == 4
BytesPerBeat == 16

BytesToBeat(offset) == offset \div BytesPerBeat

\* AcapdAccel.config: started, not awaited.
config(offset, size, tid) ==
  <<DataToAccel(BytesToBeat(4 * offset), size \div WordsPerBeat, tid)>>

\* AcapdAccel.config_fft: each packet awaited before the next.
config_fft(offset, size) ==
  << DataToAccel(BytesToBeat(offset), size, 1), DataToAccelDone,
     DataToAccel(BytesToBeat(offset), size, 2), DataToAccelDone,
     DataToAccel(BytesToBeat(offset), size, 3), DataToAccelDone,
     DataToAccel(BytesToBeat(offset), size, 4), DataToAccelDone >>

\* Mutant: the results are not awaited.
runUnawaited(offset, size, tid, offset2) ==
  << DataToAccel(BytesToBeat(4 * offset), size \div WordsPerBeat, tid),
     DataFromAccel(BytesToBeat(4 * offset2), size \div WordsPerBeat) >>

\* Mutant: the input is awaited instead of the results.
runAwaitsInput(offset, size, tid, offset2) ==
  << DataToAccel(BytesToBeat(4 * offset), size \div WordsPerBeat, tid),
     DataFromAccel(BytesToBeat(4 * offset2), size \div WordsPerBeat),
     DataToAccelDone >>

\* Mutant: the input is awaited before the results are asked for.
runInputFirst(offset, size, tid, offset2) ==
  << DataToAccel(BytesToBeat(4 * offset), size \div WordsPerBeat, tid),
     DataToAccelDone,
     DataFromAccel(BytesToBeat(4 * offset2), size \div WordsPerBeat),
     DataFromAccelDone >>

\* AcapdAccel.run: the MM2S transfer is never awaited.
run(offset, size, tid, offset2) ==
  << DataToAccel(BytesToBeat(4 * offset), size \div WordsPerBeat, tid),
     DataFromAccel(BytesToBeat(4 * offset2), size \div WordsPerBeat),
     DataFromAccelDone >>

\* AcapdAccel.loadData and retrieve.
load(data, offset) == <<loadData(data, offset \div WordsPerBeat)>>

retrieve(offset, data, setup) ==
  <<Collect(offset \div WordsPerBeat, data, setup)>>

Words(data) == WordsPerBeat * Len(data)

------------------------------------------------------------------------------
\* The cells.  Results overwrite the input in every one of them.

AESCell(offset_key, offset_input, key, input) ==
  load(key, offset_key) \o load(input, offset_input)
    \o <<StartAccel>>
    \o config(offset_key, Words(key), 1)
    \o run(offset_input, Words(input), 0, offset_input)
    \o retrieve(offset_input, input, <<key>>)

FFTCell(offset_config, offset_input, fft_config, input) ==
  load(fft_config, offset_config) \o load(input, offset_input)
    \o config_fft(offset_config, 1)
    \o run(offset_input, Words(input), 0, offset_input)
    \o retrieve(offset_input, input, [tid \in 1..4 |-> fft_config])

FIRCell(offset_reload, offset_config, offset_input, reload, fir_config, input) ==
  load(reload, offset_reload) \o load(fir_config, offset_config)
    \o load(input, offset_input)
    \o config(offset_reload, Words(reload), 1)
    \o config(offset_config, Words(fir_config), 2)
    \o run(offset_input, Words(input), 0, offset_input)
    \o retrieve(offset_input, input, <<reload, fir_config>>)

================================================================================
