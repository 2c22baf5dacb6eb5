------------------------------ MODULE MCSihaLib ------------------------------
(***************************************************************************)
(* The resources of the library, with room for three device files beyond   *)
(* those of one session or for two sessions, and for windows until the     *)
(* ones FinaliseUnmapRMs leaves mapped have filled the address space.      *)
(***************************************************************************)
EXTENDS SihaLib, TLC

MCPlaces == 0..7

\* A process with both slots open has more to choose from, and fewer calls.
MCMaxInits == (TRUE :> 7) @@ (FALSE :> 4)

==============================================================================
