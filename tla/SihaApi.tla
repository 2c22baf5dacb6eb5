------------------------------- MODULE SihaApi -------------------------------
(***************************************************************************)
(* The calls an application makes, as data.  An application is the         *)
(* sequence of these records it performs in program order; module          *)
(* SlotSession gives each record its meaning.  Offsets and sizes are in    *)
(* beats of 16 bytes.                                                      *)
(***************************************************************************)
EXTENDS Naturals, Sequences

DataToAccel(offset, size, tid) ==
  [op |-> "DataToAccel", addr |-> offset, size |-> size, tid |-> tid]

DataFromAccel(offset, size) ==
  [op |-> "DataFromAccel", addr |-> offset, size |-> size]

DataToAccelDone == [op |-> "DataToAccelDone"]

DataFromAccelDone == [op |-> "DataFromAccelDone"]

StartAccel == [op |-> "StartAccel"]

\* data copied to consecutive beats of the buffer.
Copied(offset, data) ==
  [a \in offset..(offset + Len(data) - 1) |-> data[a - offset + 1]]

\* Later copies overwrite earlier ones.
Onto(later, earlier) ==
  [a \in DOMAIN later \cup DOMAIN earlier |->
     IF a \in DOMAIN later THEN later[a] ELSE earlier[a]]

\* A process that allocates its own buffer loads a fresh one; the Jupyter
\* kernel keeps one buffer for its whole life.
LoadFresh(image) == [op |-> "Load", image |-> image, fresh |-> TRUE]

loadData(data, offset) ==
  [op |-> "Load", image |-> Copied(offset, data), fresh |-> FALSE]

\* A message telling the user that the packet on tid has been configured.
Report(tid, packet) == [op |-> "Report", tid |-> tid, want |-> packet]

\* The application takes its results from the buffer: the beats of data
\* processed under the configuration packets of setup, one for each tid.
Collect(offset, data, setup) ==
  [op |-> "Collect", addr |-> offset, size |-> Len(data), want |-> data,
   conf |-> setup]

==============================================================================
