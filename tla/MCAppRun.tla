------------------------------- MODULE MCAppRun -------------------------------
(***************************************************************************)
(* The four applications with file lengths on both sides of every limit    *)
(* their checks contain, and one between whole beats.                      *)
(***************************************************************************)
EXTENDS AppRun

MCPrograms == {AES128, AES192, FIR, FFT}

MCLengths ==
  {0, 15, 16, 23, 24, 159, 160, 512, 65535, 65536, 65552}
    \cup {SIZE_IN_BYTES - p.checkOffset : p \in MCPrograms}
    \cup {SIZE_IN_BYTES - p.checkOffset + 1 : p \in MCPrograms}

==============================================================================
