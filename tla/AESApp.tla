-------------------------------- MODULE AESApp --------------------------------
(***************************************************************************)
(* The aes128 application, src/AES128/main.c.  src/AES192/main.c makes the *)
(* same calls with a longer key.  The AES module runs once StartAccel has  *)
(* been called.  Key and direction form one packet on stream 1.            *)
(***************************************************************************)
EXTENDS SihaApi

CONSTANTS DKB_OFFSET_MEM, EKB_OFFSET_MEM, EB_OFFSET_MEM, DB_OFFSET_MEM,
          RESULT_OFFSET_MEM

\* Mutant: the key packet is awaited like in the other applications.
SendKeyAwaited(keyOffset, key, inOffset, input) ==
  << DataToAccel(keyOffset, Len(key), 1),
     DataToAccelDone,
     DataToAccel(inOffset, Len(input), 0),
     DataToAccelDone >>

\* The key packet and the payload are started back to back; the only wait on
\* MM2S comes after both, and before S2MM is started.
Send(keyOffset, key, inOffset, input) ==
  << DataToAccel(keyOffset, Len(key), 1),
     DataToAccel(inOffset, Len(input), 0),
     DataToAccelDone >>

\* Mutant: the results are not awaited.
ReceiveUnawaited(outOffset, input, key) ==
  << DataFromAccel(outOffset, Len(input)),
     Collect(outOffset, input, <<key>>) >>

\* Mutant: the results go one beat too far.
ReceiveShifted(outOffset, input, key) ==
  << DataFromAccel(outOffset + 1, Len(input)),
     DataFromAccelDone,
     Collect(outOffset, input, <<key>>) >>

Receive(outOffset, input, key) ==
  << DataFromAccel(outOffset, Len(input)),
     DataFromAccelDone,
     Collect(outOffset, input, <<key>>) >>

\* main: in and out share DB_OFFSET_MEM; kbuf holds the key and kb_enc, the
\* direction, so one call sequence serves both.
main(kbuf, input) ==
  << LoadFresh(Onto(Copied(DB_OFFSET_MEM, input), Copied(DKB_OFFSET_MEM, kbuf))),
     StartAccel >>
    \o Send(DKB_OFFSET_MEM, kbuf, DB_OFFSET_MEM, input)
    \o Receive(DB_OFFSET_MEM, input, kbuf)

\* One half of internal_test.  "Slot configured for ..." is printed between
\* the start of the key transfer and the start of the payload transfer.
Phase(keyOffset, key, inOffset, input) ==
  << StartAccel,
     DataToAccel(keyOffset, Len(key), 1),
     Report(1, key),
     DataToAccel(inOffset, Len(input), 0),
     DataToAccelDone >>
    \o Receive(RESULT_OFFSET_MEM, input, key)

internal_test(dkey, ekey, encrypted, decrypted) ==
  << LoadFresh(Onto(Copied(DB_OFFSET_MEM, decrypted),
                    Onto(Copied(EB_OFFSET_MEM, encrypted),
                         Onto(Copied(EKB_OFFSET_MEM, ekey),
                              Copied(DKB_OFFSET_MEM, dkey))))) >>
    \o Phase(DKB_OFFSET_MEM, dkey, EB_OFFSET_MEM, encrypted)
    \o Phase(EKB_OFFSET_MEM, ekey, DB_OFFSET_MEM, decrypted)

===============================================================================
