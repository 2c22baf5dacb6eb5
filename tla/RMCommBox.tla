------------------------------ MODULE RMCommBox ------------------------------
(***************************************************************************)
(* One reconfigurable slot as the SIHA library sees it: the two data       *)
(* movers of the slot's rm_comm_box (MM2S reads the XRT buffer and streams *)
(* it to the reconfigurable module, S2MM writes the module's output stream *)
(* to the buffer) and the module itself.                                   *)
(*                                                                         *)
(* None of this is in the repository.  It is modelled from the registers   *)
(* lib/siha.h names (APCR, GIER, IIER, ADDR, SIZE, TID) and from how       *)
(* lib/siha.c uses them: bit 0 of APCR is written to start a transfer and  *)
(* bit 1 is polled for its end.  This is the ap_ctrl_hs control block,     *)
(* whose two bits behave as follows.                                       *)
(*   - start stays set from the write until the transfer ends; writing it  *)
(*     while it is set changes nothing, so such a request is lost;         *)
(*   - done is set when a transfer ends, stays set, is not affected by a   *)
(*     new start, and is cleared by the read that returns it.              *)
(* A mover samples ADDR, SIZE and TID when it leaves idle, some time after *)
(* the start bit was written.                                              *)
(*                                                                         *)
(* Memory and streams are counted in beats of 16 bytes, the unit of the    *)
(* SIZE register.                                                          *)
(***************************************************************************)
EXTENDS Handshake

CONSTANTS
  Addr,        \* beat addresses of the XRT buffer
  Data,        \* identities of the data an application puts in the buffer
  Junk,        \* what a freshly allocated buffer holds
  Tids,        \* stream identifiers of configuration packets (0 is payload)
  FifoDepth    \* output beats the module can hold before it must stall

ASSUME HardwareAssumption ==
  /\ Addr \subseteq Nat
  /\ Junk \in Data
  /\ Tids \subseteq Nat \ {0}
  /\ FifoDepth \in Nat \ {0}

VARIABLES
  reg,      \* the ADDR, SIZE and TID registers of each mover
  start,    \* APCR bit 0 of each mover
  done,     \* APCR bit 1 of each mover
  run,      \* the transfer each mover is executing
  mem,      \* the XRT buffer
  conf,     \* the last configuration packet the module received on each tid
  accelOn,  \* the module has been started
  fifo      \* output beats not yet taken by S2MM

hwVars == <<reg, start, done, run, mem, conf, accelOn, fifo>>

\* The descriptor registers of a mover (addr is ADDR_LOW and ADDR_HIGH).
Register == {"addr", "size", "tid"}

Conf == [Tids -> Seq(Data)]

(***************************************************************************)
(* A beat remembers which data it came from and the configurations under   *)
(* which the module has processed it: <<>> for a beat the application      *)
(* wrote, one entry for a result, two for a result that was fed back.      *)
(***************************************************************************)
Beat == [data : Data, by : Seq(Conf)]

Raw(d) == [data |-> d, by |-> <<>>]

Processed(b) == [b EXCEPT !.by = Append(@, conf)]

\* What a mover reads: outside the buffer there is somebody else's memory.
ReadBeat(a) == IF a \in Addr THEN mem[a] ELSE Raw(Junk)

Transfer == [busy : BOOLEAN, addr : Nat, left : Nat, tid : Nat]

NoTransfer == [busy |-> FALSE, addr |-> 0, left |-> 0, tid |-> 0]

HwTypeOK ==
  /\ reg \in [Channel -> [Register -> Nat]]
  /\ start \in [Channel -> BOOLEAN]
  /\ done \in [Channel -> BOOLEAN]
  /\ run \in [Channel -> Transfer]
  /\ mem \in [Addr -> Beat]
  /\ conf \in Conf
  /\ accelOn \in BOOLEAN
  /\ fifo \in Seq(Beat)

HwInit ==
  /\ reg = [ch \in Channel |-> [r \in Register |-> 0]]
  /\ start = [ch \in Channel |-> FALSE]
  /\ done = [ch \in Channel |-> FALSE]
  /\ run = [ch \in Channel |-> NoTransfer]
  /\ mem = [a \in Addr |-> Raw(Junk)]
  /\ conf = [t \in Tids |-> <<>>]
  /\ fifo = <<>>

------------------------------------------------------------------------------

\* The slot's region is loaded with a module: registers, movers and module
\* start afresh, and some modules run without being started.
LoadModule(freeRunning) ==
  /\ reg' = [ch \in Channel |-> [r \in Register |-> 0]]
  /\ start' = [ch \in Channel |-> FALSE]
  /\ done' = [ch \in Channel |-> FALSE]
  /\ run' = [ch \in Channel |-> NoTransfer]
  /\ conf' = [t \in Tids |-> <<>>]
  /\ accelOn' = freeRunning
  /\ fifo' = <<>>

\* A mover that was started samples its descriptor.  The first beat of a
\* configuration packet replaces the previous packet on that tid.
Begin(ch) ==
  /\ start[ch]
  /\ ~run[ch].busy
  /\ run' = [run EXCEPT ![ch] = [busy |-> TRUE, addr |-> reg[ch]["addr"],
                                 left |-> reg[ch]["size"],
                                 tid |-> reg[ch]["tid"]]]
  /\ conf' = IF ch = "MM2S" /\ reg[ch]["tid"] \in Tids
               THEN [conf EXCEPT ![reg[ch]["tid"]] = <<>>]
               ELSE conf
  /\ UNCHANGED <<reg, start, done, mem, accelOn, fifo>>

\* The transfer ends: the start bit clears and the done bit sets.
Finish(ch) ==
  /\ run[ch].busy
  /\ run[ch].left = 0
  /\ run' = [run EXCEPT ![ch].busy = FALSE]
  /\ start' = [start EXCEPT ![ch] = FALSE]
  /\ done' = [done EXCEPT ![ch] = TRUE]
  /\ UNCHANGED <<reg, mem, conf, accelOn, fifo>>

Advance(ch) ==
  run' = [run EXCEPT ![ch] = [busy |-> TRUE, addr |-> @.addr + 1,
                              left |-> @.left - 1, tid |-> @.tid]]

\* The module takes a configuration beat.
ConfigBeat ==
  /\ run["MM2S"].busy
  /\ run["MM2S"].left > 0
  /\ run["MM2S"].tid \in Tids
  /\ accelOn
  /\ conf' = [conf EXCEPT ![run["MM2S"].tid] =
                Append(@, ReadBeat(run["MM2S"].addr).data)]
  /\ Advance("MM2S")
  /\ UNCHANGED <<reg, start, done, mem, accelOn, fifo>>

\* The module takes a payload beat and produces the corresponding output
\* beat.  It stalls, and MM2S with it, while its output has nowhere to go.
PayloadBeat ==
  /\ run["MM2S"].busy
  /\ run["MM2S"].left > 0
  /\ run["MM2S"].tid \notin Tids
  /\ accelOn
  /\ Len(fifo) < FifoDepth
  /\ fifo' = Append(fifo, Processed(ReadBeat(run["MM2S"].addr)))
  /\ Advance("MM2S")
  /\ UNCHANGED <<reg, start, done, mem, conf, accelOn>>

\* S2MM writes the next output beat to the buffer.
ResultBeat ==
  /\ run["S2MM"].busy
  /\ run["S2MM"].left > 0
  /\ fifo # <<>>
  /\ mem' = [mem EXCEPT ![run["S2MM"].addr] = Head(fifo)]
  /\ fifo' = Tail(fifo)
  /\ Advance("S2MM")
  /\ UNCHANGED <<reg, start, done, conf, accelOn>>

==============================================================================
