------------------------------ MODULE LabelText ------------------------------
(***************************************************************************)
(* get_label_text of vvas_airender.cpp: the text of a label, written part  *)
(* by part into an uninitialised array with sprintf.  The next part goes   *)
(* to buffIdx, an unsigned char that each part advances by the length of   *)
(* the whole text so far.                                                  *)
(***************************************************************************)
EXTENDS Naturals, Sequences, SequencesExt

CONSTANTS
  LabelLen,      \* length of each label, a function on labels
  ProbLen,       \* length of " : %.2f "
  MAX_LABEL_LEN, \* size of the array
  IndexRange     \* values of an unsigned char (256)

ASSUME LabelAssumption ==
  /\ \A l \in DOMAIN LabelLen : LabelLen[l] \in Nat
  /\ {ProbLen, MAX_LABEL_LEN, IndexRange} \subseteq Nat \ {0}
  /\ IndexRange <= MAX_LABEL_LEN

NUL == <<"NUL", 0>>
Uninitialised == <<"?", 0>>

Chars(name, len) == [k \in 1..len |-> <<name, k>>]

\* What a known entry of label_filter stands for.
Part(entry, label) ==
  IF entry = "class" THEN Chars(label, LabelLen[label])
                     ELSE Chars("probability", ProbLen)

Known == {"class", "probability"}

\* sprintf to buf + at.  What falls behind the array is lost to the text.
Printed(buf, at, s) ==
  [i \in DOMAIN buf |->
     IF i \in at..(at + Len(s) - 1) THEN s[i - at + 1]
     ELSE IF i = at + Len(s) THEN NUL ELSE buf[i]]

strlen(buf) ==
  CHOOSE n \in 0..MAX_LABEL_LEN :
    /\ \A i \in 0..(n - 1) : buf[i] # NUL
    /\ n < MAX_LABEL_LEN => buf[n] = NUL

\* Mutant: buffIdx is set to the length of the part only.
AddPartShort(st, entry, label) ==
  LET buf == Printed(st.buf, st.buffIdx, Part(entry, label))
  IN  [buf |-> buf, buffIdx |-> Len(Part(entry, label)) - 1]

AddPart(st, entry, label) ==
  LET buf == Printed(st.buf, st.buffIdx, Part(entry, label))
  IN  [buf |-> buf, buffIdx |-> (st.buffIdx + strlen(buf)) % IndexRange]

get_label_text(label_filter, label) ==
  LET start == [buf |-> [i \in 0..(MAX_LABEL_LEN - 1) |-> Uninitialised],
                buffIdx |-> 0]
      end == FoldLeft(LAMBDA st, entry :
                        IF entry \in Known THEN AddPart(st, entry, label)
                                           ELSE st,
                      start, label_filter)
  IN  [i \in 1..strlen(end.buf) |-> end.buf[i - 1]]

\* The text the configuration asks for: the known entries one after another.
LabelAskedFor(label_filter, label) ==
  FlattenSeq([i \in DOMAIN label_filter |->
                IF label_filter[i] \in Known THEN Part(label_filter[i], label)
                                             ELSE <<>>])

OneOrTwo(filter) == Len(filter) \in {1, 2} /\ DOMAIN filter = 1..Len(filter)

\* The lists of parts and the labels for which the index is right: a third
\* part would go behind the end of the text, nothing is written for a list
\* without a known entry, and a longer part makes the index wrap around.
Fits(label_filter, label) ==
  /\ OneOrTwo(label_filter)
  /\ \E i \in DOMAIN label_filter : label_filter[i] \in Known
  /\ label \in DOMAIN LabelLen /\ LabelLen[label] < IndexRange
  /\ ProbLen < IndexRange
  /\ Len(LabelAskedFor(label_filter, label)) < MAX_LABEL_LEN

===============================================================================
