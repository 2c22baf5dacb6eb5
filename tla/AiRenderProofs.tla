---------------------------- MODULE AiRenderProofs ----------------------------
(***************************************************************************)
(* What holds of the kernel that draws the results of the inference, for   *)
(* every configuration it accepts, every tree of predictions, every number *)
(* of frames and whatever time drawing takes.                              *)
(***************************************************************************)
EXTENDS AiRender, SequenceTheorems, WellFoundedInduction, TLAPS

(***************************************************************************)
(* The invariant.                                                          *)
(***************************************************************************)

\* Frames are drawn under a complete configuration.
PrivInv == status \in {"ready", "rendering"} => priv \in Configs /\ Complete(priv)

\* The rate shown, and the history it is the mean of.
ClockInv ==
  /\ now \in Nat /\ times \in Seq(Nat) /\ framecount = Len(times)
  /\ framecount = 0 => fps.frames = 0
  /\ framecount > 0 => startClk = times[1]
  /\ status = "created" => framecount = 0
  /\ FpsIsMean

CursorInv == status = "rendering" => visit >= 1 /\ class >= 1

InFrame(i, j) == i \in DOMAIN frame.nodes /\ j \in DOMAIN frame.nodes[i].classes

Passed(i, j) == Before(i, j, visit, class)

\* A drawing is that of a classification behind the cursor.
DrawingOK(d) ==
  /\ InFrame(d.node, d.class) /\ Passed(d.node, d.class)
  /\ ~Skipped(Source(d))
  /\ d.color = Color(Source(d))
  /\ d.box <=> ~AtOrigin(frame.nodes[d.node].bbox)
  /\ d.label <=> label_present(Source(d))
  /\ d.label => d.text = get_label_text(priv.label_filter, Source(d).label)

DrawnAt(m, i, j) == drawn[m].node = i /\ drawn[m].class = j

\* Each classification behind the cursor has a drawing, in their order.
DrawnInv ==
  status = "rendering" =>
    /\ \A m \in DOMAIN drawn : DrawingOK(drawn[m])
    /\ \A m, n \in DOMAIN drawn :
         m < n => Before(drawn[m].node, drawn[m].class, drawn[n].node, drawn[n].class)
    /\ \A i \in DOMAIN frame.nodes : \A j \in DOMAIN frame.nodes[i].classes :
         Passed(i, j) /\ ~Skipped(frame.nodes[i].classes[j]) =>
           \E m \in DOMAIN drawn : DrawnAt(m, i, j)

\* A labelled classification of the whole frame.
MovesDown(m) == drawn[m].label /\ WholeFrame(frame.nodes[drawn[m].node].bbox)

\* The offset is that of the labels of the whole frame drawn so far.
OffsetInv ==
  status = "rendering" =>
    /\ y_offset # 0 <=> \E m \in DOMAIN drawn : MovesDown(m)
    /\ \A m \in DOMAIN drawn :
         drawn[m].offset # 0 <=> \E n \in DOMAIN drawn : n <= m /\ MovesDown(n)

\* drawn is a sequence.
IsSeq == \E S : drawn \in Seq(S)

RenderInv ==
  TypeOK /\ PrivInv /\ ClockInv /\ CursorInv /\ DrawnInv /\ OffsetInv /\ IsSeq

------------------------------------------------------------------------------
(***************************************************************************)
(* Operators.                                                              *)
(***************************************************************************)

\* A set of numbers that is not empty has a smallest element.
LEMMA SmallestOf ==
  ASSUME NEW S \in SUBSET Nat, S # {}
  PROVE  \E n \in S : \A k \in S : n <= k
<1> DEFINE R == {ss \in Nat \X Nat : ss[1] < ss[2]}
<1>1. IsWellFoundedOn(R, Nat)
  BY NatLessThanWellFounded DEF OpToRel
<1>2. PICK n \in S : \A k \in S : ~(<<k, n>> \in R)
  <2> HIDE DEF R
  <2> QED BY <1>1, WFMin
<1>3. ASSUME NEW k \in S PROVE n <= k
  <2>1. k \in Nat /\ n \in Nat
    OBVIOUS
  <2>2. ~(k < n)
    BY <1>2, <2>1
  <2> QED BY <2>1, <2>2
<1> QED BY <1>3

\* What the search for a label finds.
LEMMA SearchFinds ==
  ASSUME priv \in Configs, Complete(priv), NEW name, name \notin {NULL, Empty}
  PROVE  LET idx == vvas_classification_is_allowed(name)
         IN  IF name \in Names
               THEN /\ idx \in 0..(Len(priv.classes) - 1)
                    /\ class_list[idx] = priv.classes[idx + 1]
                    /\ priv.classes[idx + 1].name = name
                    /\ \A k \in 1..idx : priv.classes[k].name # name
               ELSE idx = -1
<1> DEFINE n == Len(priv.classes)
           found == {i \in DOMAIN class_list : class_list[i].name = name}
           idx == vvas_classification_is_allowed(name)
<1>1. /\ n \in Nat /\ MAX_ALLOWED_CLASS \in Nat /\ n <= MAX_ALLOWED_CLASS
      /\ DOMAIN priv.classes = 1..n
  BY ConfigsAssumption DEF Complete
<1> HIDE DEF n
<1>2. /\ DOMAIN class_list = 0..(MAX_ALLOWED_CLASS - 1)
      /\ \A i \in DOMAIN class_list :
           class_list[i] = IF i < n THEN priv.classes[i + 1] ELSE Unused
  BY DEF class_list, n
<1>3. found = {i \in 0..(n - 1) : priv.classes[i + 1].name = name}
  <2>1. ASSUME NEW i \in 0..(MAX_ALLOWED_CLASS - 1), ~(i < n)
        PROVE  class_list[i].name # name
    BY <1>2, <2>1 DEF Unused
  <2>2. ASSUME NEW i \in 0..(n - 1)
        PROVE  i \in 0..(MAX_ALLOWED_CLASS - 1) /\ class_list[i] = priv.classes[i + 1]
    BY <1>1, <1>2
  <2>3. \A i \in 0..(MAX_ALLOWED_CLASS - 1) : i < n => i \in 0..(n - 1)
    BY <1>1
  <2> QED BY <1>2, <2>1, <2>2, <2>3
<1>4. idx = IF found = {} THEN -1
            ELSE CHOOSE i \in found : \A j \in found : i <= j
  BY DEF vvas_classification_is_allowed
<1> HIDE DEF found, idx
<1>5. CASE name \in Names
  <2>1. PICK i \in 1..n : priv.classes[i].name = name
    BY <1>1, <1>5 DEF Names
  <2>2. i - 1 \in found
    BY <1>1, <1>3, <2>1
  <2>3. \E j \in found : \A k \in found : j <= k
    <3>1. found \in SUBSET Nat
      BY <1>3
    <3> QED BY <2>2, <3>1, SmallestOf
  <2>4. idx \in found /\ \A j \in found : idx <= j
    BY <1>4, <2>2, <2>3
  <2>5. idx \in 0..(n - 1) /\ priv.classes[idx + 1].name = name
    BY <1>3, <2>4
  <2>6. class_list[idx] = priv.classes[idx + 1]
    BY <1>1, <1>2, <2>5
  <2>7. ASSUME NEW k \in 1..idx PROVE priv.classes[k].name # name
    <3>1. k - 1 \in 0..(n - 1) /\ ~(idx <= k - 1) /\ (k - 1) + 1 = k
      BY <1>1, <2>5
    <3>2. k - 1 \notin found
      BY <2>4, <3>1
    <3> QED BY <1>3, <3>1, <3>2
  <2> QED BY <1>5, <2>5, <2>6, <2>7 DEF n, idx
<1>6. CASE name \notin Names
  <2>1. found = {}
    <3>1. \A i \in 0..(n - 1) : i + 1 \in DOMAIN priv.classes
      BY <1>1
    <3> QED BY <1>3, <1>6, <3>1 DEF Names
  <2> QED BY <1>4, <1>6, <2>1 DEF idx
<1> QED BY <1>5, <1>6

\* A drawing is appended.
LEMMA DrawnAppend ==
  ASSUME IsSeq, NEW d, drawn' = Append(drawn, d)
  PROVE  /\ IsSeq'
         /\ Len(drawn) \in Nat /\ DOMAIN drawn = 1..Len(drawn)
         /\ DOMAIN drawn' = 1..(Len(drawn) + 1)
         /\ \A m \in 1..Len(drawn) : drawn'[m] = drawn[m]
         /\ drawn'[Len(drawn) + 1] = d
<1>1. PICK S : drawn \in Seq(S)
  BY DEF IsSeq
<1>2. drawn \in Seq(S \cup {d}) /\ d \in S \cup {d}
  BY <1>1, SeqMonotonic
<1>3. drawn' \in Seq(S \cup {d})
  BY <1>2, AppendProperties
<1> QED BY <1>2, <1>3, AppendProperties, LenProperties DEF IsSeq

\* A label is wanted if its classification is not skipped.
LEMMA WantedIsDrawn ==
  ASSUME priv \in Configs, Complete(priv), NEW c
  PROVE  /\ Wanted(c) <=> label_present(c) /\ ~Skipped(c)
         /\ Names = {} <=> classes_count = 0
<1>1. Names = {} <=> classes_count = 0
  <2>1. /\ Len(priv.classes) \in Nat /\ DOMAIN priv.classes = 1..Len(priv.classes)
    BY ConfigsAssumption DEF Complete
  <2>2. CASE Len(priv.classes) = 0
    BY <2>1, <2>2 DEF Names, classes_count
  <2>3. CASE Len(priv.classes) # 0
    <3>1. 1 \in DOMAIN priv.classes
      BY <2>1, <2>3
    <3>2. priv.classes[1].name \in Names
      BY <3>1 DEF Names
    <3> QED BY <2>3, <3>2 DEF classes_count
  <2> QED BY <2>2, <2>3
<1>2. ASSUME label_present(c), classes_count # 0
      PROVE  c.label \in Names <=> vvas_classification_is_allowed(c.label) # -1
  <2>1. c.label \notin {NULL, Empty}
    BY <1>2 DEF label_present
  <2>2. vvas_classification_is_allowed(c.label) \in 0..(Len(priv.classes) - 1)
          => vvas_classification_is_allowed(c.label) # -1
    OBVIOUS
  <2> QED BY <2>1, <2>2, SearchFinds
<1> QED BY <1>1, <1>2 DEF Wanted, Skipped

------------------------------------------------------------------------------
(***************************************************************************)
(* The text of a label.                                                    *)
(***************************************************************************)

\* The array before the first part, after one more entry, and when it is read.
Start == [buf |-> [i \in 0..(MAX_LABEL_LEN - 1) |-> Uninitialised], buffIdx |-> 0]
Then(st, entry, label) == IF entry \in Known THEN AddPart(st, entry, label) ELSE st
Contents(buf) == [i \in 1..strlen(buf) |-> buf[i - 1]]

PartOf(entry, label) == IF entry \in Known THEN Part(entry, label) ELSE <<>>

\* A text without a NUL.
IsText(s) ==
  /\ Len(s) \in Nat /\ s \in Seq({s[i] : i \in DOMAIN s})
  /\ \A i \in 1..Len(s) : s[i] # NUL

\* buf holds the text s, and a NUL behind it.
Holds(buf, s) ==
  /\ DOMAIN buf = 0..(MAX_LABEL_LEN - 1)
  /\ Len(s) < MAX_LABEL_LEN
  /\ \A i \in 1..Len(s) : buf[i - 1] = s[i]
  /\ buf[Len(s)] = NUL

\* The parts of one or two entries, one after the other.
Joined(filter, label) ==
  IF Len(filter) = 1 THEN PartOf(filter[1], label)
  ELSE PartOf(filter[1], label) \o PartOf(filter[2], label)

\* A function on 1..n is a sequence of its values.
LEMMA TextOfLength ==
  ASSUME NEW n \in Nat, NEW s, s = [i \in 1..n |-> s[i]]
  PROVE  Len(s) = n /\ s \in Seq({s[i] : i \in DOMAIN s})
<1>1. DOMAIN s = 1..n
  OBVIOUS
<1> DEFINE S == {s[i] : i \in DOMAIN s}
<1>2. \A i \in 1..n : s[i] \in S
  BY <1>1
<1> HIDE DEF S
<1>3. s \in [1..n -> S]
  BY <1>2
<1>4. s \in Seq(S) /\ Len(s) = n
  BY <1>3
<1> QED BY <1>4 DEF S

\* What is read from an array that holds a text.
LEMMA HeldText ==
  ASSUME NEW buf, NEW s, IsText(s), Holds(buf, s)
  PROVE  strlen(buf) = Len(s) /\ Contents(buf) = s
<1> DEFINE n == Len(s)
           OK(k) == /\ \A i \in 0..(k - 1) : buf[i] # NUL
                    /\ k < MAX_LABEL_LEN => buf[k] = NUL
<1>1. n \in 0..MAX_LABEL_LEN /\ n < MAX_LABEL_LEN /\ MAX_LABEL_LEN \in Nat
  BY LabelAssumption DEF IsText, Holds
<1>2. \A i \in 0..(n - 1) : buf[i] = s[i + 1] /\ buf[i] # NUL
  <2>1. \A i \in 0..(n - 1) : i + 1 \in 1..n /\ (i + 1) - 1 = i
    BY <1>1
  <2> QED BY <2>1 DEF IsText, Holds
<1>3. buf[n] = NUL
  BY DEF Holds
<1> HIDE DEF n
<1>4. OK(n)
  BY <1>1, <1>2, <1>3
<1>5. ASSUME NEW k \in 0..MAX_LABEL_LEN, OK(k) PROVE k = n
  <2>1. CASE k < n
    BY <1>1, <1>2, <1>5, <2>1
  <2>2. CASE n < k
    BY <1>1, <1>3, <1>5, <2>2
  <2> QED BY <1>1, <2>1, <2>2
<1>6. strlen(buf) = n
  <2>1. strlen(buf) = CHOOSE k \in 0..MAX_LABEL_LEN : OK(k)
    BY DEF strlen
  <2> QED BY <1>1, <1>4, <1>5, <2>1
<1>7. Contents(buf) = s
  <2>1. DOMAIN s = 1..n /\ s = [i \in 1..n |-> s[i]]
    BY DEF IsText, n
  <2>2. \A i \in 1..n : buf[i - 1] = s[i]
    BY DEF Holds, n
  <2> QED BY <1>6, <2>1, <2>2 DEF Contents
<1> QED BY <1>6, <1>7 DEF n

\* A part has no NUL, and the length of the label or of the probability.
LEMMA PartIsText ==
  ASSUME NEW entry \in Known, NEW label \in DOMAIN LabelLen
  PROVE  /\ IsText(Part(entry, label))
         /\ Len(Part(entry, label)) \in {LabelLen[label], ProbLen}
<1>1. ASSUME NEW name, NEW len \in Nat
      PROVE  IsText(Chars(name, len)) /\ Len(Chars(name, len)) = len
  <2>1. DOMAIN Chars(name, len) = 1..len /\ \A k \in 1..len : Chars(name, len)[k] = <<name, k>>
    BY DEF Chars
  <2>2. Chars(name, len) = [k \in 1..len |-> Chars(name, len)[k]]
    BY DEF Chars
  <2>3. \A k \in 1..len : <<name, k>> # NUL
    BY DEF NUL
  <2>4. /\ Len(Chars(name, len)) = len
        /\ Chars(name, len) \in Seq({Chars(name, len)[i] : i \in DOMAIN Chars(name, len)})
    <3>1. PICK s : s = Chars(name, len)
      OBVIOUS
    <3> QED BY <2>1, <2>2, <3>1, TextOfLength
  <2> QED BY <2>1, <2>3, <2>4 DEF IsText
<1> QED BY <1>1, LabelAssumption DEF Part

\* sprintf behind the text so far, or at the start of any buffer.
LEMMA PrintedBehind ==
  ASSUME NEW buf, NEW s, NEW t, IsText(s), IsText(t),
         DOMAIN buf = 0..(MAX_LABEL_LEN - 1),
         \A i \in 1..Len(s) : buf[i - 1] = s[i],
         Len(s) + Len(t) < MAX_LABEL_LEN
  PROVE  Holds(Printed(buf, Len(s), t), s \o t) /\ IsText(s \o t)
<1> DEFINE n == Len(s)
           m == Len(t)
           u == s \o t
           p == Printed(buf, n, t)
<1>1. /\ n \in Nat /\ m \in Nat /\ n + m < MAX_LABEL_LEN /\ MAX_LABEL_LEN \in Nat
      /\ DOMAIN s = 1..n /\ DOMAIN t = 1..m
  BY LabelAssumption DEF IsText
<1>2. /\ DOMAIN u = 1..(n + m) /\ Len(u) = n + m
      /\ \A i \in 1..n : u[i] = s[i]
      /\ \A i \in 1..m : u[n + i] = t[i]
      /\ u = [i \in 1..(n + m) |-> u[i]]
  <2> DEFINE S == {s[i] : i \in DOMAIN s} \cup {t[i] : i \in DOMAIN t}
  <2>1. s \in Seq(S) /\ t \in Seq(S)
    BY SeqMonotonic DEF IsText
  <2> HIDE DEF S
  <2>2. u \in Seq(S) /\ Len(u) = n + m
    BY <2>1, ConcatProperties
  <2>3. \A i \in 1..(n + m) : u[i] = IF i <= n THEN s[i] ELSE t[i - n]
    BY <2>1, ConcatProperties
  <2>4. DOMAIN u = 1..(n + m) /\ u = [i \in 1..(n + m) |-> u[i]]
    <3>1. PICK v : v = u
      OBVIOUS
    <3> HIDE DEF u
    <3> QED BY <2>2, <3>1, LenProperties
  <2>5. \A i \in 1..n : i \in 1..(n + m) /\ i <= n
    BY <1>1
  <2>6. \A i \in 1..m : n + i \in 1..(n + m) /\ ~(n + i <= n) /\ (n + i) - n = i
    BY <1>1
  <2> HIDE DEF u, n, m
  <2> QED BY <2>2, <2>3, <2>4, <2>5, <2>6
<1>3. /\ DOMAIN p = 0..(MAX_LABEL_LEN - 1)
      /\ \A i \in 0..(MAX_LABEL_LEN - 1) :
           p[i] = IF i \in n..(n + m - 1) THEN t[i - n + 1]
                  ELSE IF i = n + m THEN NUL ELSE buf[i]
  BY DEF Printed
<1>n. /\ \A i \in 1..n : s[i] # NUL
      /\ \A i \in 1..m : t[i] # NUL
      /\ \A i \in 1..n : buf[i - 1] = s[i]
  BY DEF IsText
<1> HIDE DEF n, m, u, p
<1>4. ASSUME NEW i \in 1..(n + m) PROVE p[i - 1] = u[i] /\ u[i] # NUL
  <2>1. CASE i \in 1..n
    <3>1. i - 1 \in 0..(MAX_LABEL_LEN - 1) /\ i - 1 \notin n..(n + m - 1) /\ i - 1 # n + m
      BY <1>1, <2>1
    <3> QED BY <1>2, <1>3, <1>n, <2>1, <3>1
  <2>2. CASE i \notin 1..n
    <3>1. /\ i - 1 \in 0..(MAX_LABEL_LEN - 1) /\ i - 1 \in n..(n + m - 1)
          /\ i - n \in 1..m /\ n + (i - n) = i /\ (i - 1) - n + 1 = i - n
      BY <1>1, <2>2
    <3>2. u[i] = t[i - n] /\ p[i - 1] = t[i - n]
      BY <1>2, <1>3, <3>1
    <3> QED BY <1>n, <3>1, <3>2
  <2> QED BY <2>1, <2>2
<1>5. p[n + m] = NUL
  <2>1. n + m \in 0..(MAX_LABEL_LEN - 1) /\ n + m \notin n..(n + m - 1)
    BY <1>1
  <2> QED BY <1>3, <2>1
<1>6. IsText(u)
  <2>1. u \in Seq({u[i] : i \in DOMAIN u})
    <3>1. n + m \in Nat
      BY <1>1
    <3> QED BY <1>2, <3>1, TextOfLength
  <2> QED BY <1>1, <1>2, <1>4, <2>1 DEF IsText
<1>7. Holds(p, u)
  BY <1>1, <1>2, <1>3, <1>4, <1>5 DEF Holds
<1> QED BY <1>6, <1>7 DEF n, m, u, p

\* The text after the last entry.
LEMMA TextOf ==
  ASSUME NEW f, NEW label, DOMAIN f \in {{}, {1}, {1, 2}}
  PROVE  get_label_text(f, label) =
           Contents((IF DOMAIN f = {} THEN Start
                     ELSE IF DOMAIN f = {1} THEN Then(Start, f[1], label)
                     ELSE Then(Then(Start, f[1], label), f[2], label)).buf)
<1> DEFINE D == DOMAIN f
           G(g) == [s \in SUBSET D |->
                      IF s = {} THEN Start
                      ELSE Then(g[s \ {Max(s)}], f[Max(s)], label)]
           iter == CHOOSE g : g = G(g)
           w == [s \in SUBSET D |->
                   IF s = {} THEN Start
                   ELSE IF s = {1} THEN Then(Start, f[1], label)
                   ELSE IF s = {2} THEN Then(Start, f[2], label)
                   ELSE Then(Then(Start, f[1], label), f[2], label)]
<1>1. get_label_text(f, label) = Contents(iter[D].buf)
  BY DEF get_label_text, FoldLeft, MapThenFoldSet, Start, Then, Contents
<1>2. Max({1}) = 1 /\ Max({2}) = 2 /\ Max({1, 2}) = 2
  <2>1. \A x \in {1, 2} : (\A y \in {1, 2} : x >= y) <=> x = 2
    OBVIOUS
  <2>2. \A n \in {1, 2} : \A x \in {n} : (\A y \in {n} : x >= y)
    OBVIOUS
  <2> QED BY <2>1, <2>2 DEF Max
<1>3. \A s \in SUBSET D : s \in {{}, {1}, {2}, {1, 2}}
  OBVIOUS
<1>4. w = G(w)
  <2>1. ASSUME NEW s \in SUBSET D
        PROVE  w[s] = IF s = {} THEN Start ELSE Then(w[s \ {Max(s)}], f[Max(s)], label)
    <3>1. CASE s = {}
      BY <3>1
    <3>2. CASE s = {1}
      <4>1. {1} \ {Max({1})} = {} /\ w[{}] = Start
        BY <1>2
      <4> QED BY <1>2, <3>2, <4>1
    <3>3. CASE s = {2}
      <4>1. {2} \ {Max({2})} = {} /\ w[{}] = Start
        BY <1>2
      <4> QED BY <1>2, <3>3, <4>1
    <3>4. CASE s = {1, 2}
      <4>1. {1, 2} \ {Max({1, 2})} = {1} /\ {1} \in SUBSET D
        BY <1>2, <3>4
      <4>2. w[{1}] = Then(Start, f[1], label)
        BY <4>1
      <4>3. s # {} /\ s # {1} /\ s # {2}
        BY <3>4
      <4> QED BY <1>2, <3>4, <4>1, <4>2, <4>3
    <3> QED BY <1>3, <3>1, <3>2, <3>3, <3>4
  <2> QED BY <2>1
<1>5. iter = G(iter)
  BY <1>4
<1>6. iter[D] = w[D]
  <2> HIDE DEF w, iter
  <2>1. /\ \A s \in SUBSET D :
             iter[s] = IF s = {} THEN Start ELSE Then(iter[s \ {Max(s)}], f[Max(s)], label)
        /\ \A s \in SUBSET D :
             w[s] = IF s = {} THEN Start ELSE Then(w[s \ {Max(s)}], f[Max(s)], label)
    BY <1>4, <1>5
  <2>2. iter[{}] = w[{}]
    BY <2>1
  <2>3. CASE D = {1}
    <3>1. {1} \ {Max({1})} = {} /\ {1} \in SUBSET D /\ {1} # {}
      BY <1>2, <2>3
    <3> QED BY <2>1, <2>2, <2>3, <3>1
  <2>4. CASE D = {1, 2}
    <3>1. {1} \ {Max({1})} = {} /\ {1} \in SUBSET D /\ {1} # {}
      BY <1>2, <2>4
    <3>2. iter[{1}] = w[{1}]
      BY <2>1, <2>2, <3>1
    <3>3. {1, 2} \ {Max({1, 2})} = {1} /\ {1, 2} \in SUBSET D /\ {1, 2} # {}
      BY <1>2, <2>4
    <3> QED BY <2>1, <2>4, <3>2, <3>3
  <2> QED BY <2>2, <2>3, <2>4
<1>7. w[D] = IF D = {} THEN Start
             ELSE IF D = {1} THEN Then(Start, f[1], label)
             ELSE Then(Then(Start, f[1], label), f[2], label)
  BY DEF w
<1> QED BY <1>1, <1>6, <1>7

\* The first part goes to the start of the array.
LEMMA FirstPart ==
  ASSUME NEW entry \in Known, NEW label \in DOMAIN LabelLen,
         LabelLen[label] < IndexRange, ProbLen < IndexRange
  PROVE  LET st == AddPart(Start, entry, label)
             s == Part(entry, label)
         IN  IsText(s) /\ Holds(st.buf, s) /\ st.buffIdx = Len(s)
<1> DEFINE s == Part(entry, label)
           st == AddPart(Start, entry, label)
           none == Chars(entry, 0)
<1>1. IsText(s) /\ Len(s) < IndexRange /\ Len(s) \in Nat
  BY PartIsText, LabelAssumption DEF IsText
<1>2. IsText(none) /\ Len(none) = 0
  <2>1. 0 \in Nat /\ none = [i \in 1..0 |-> none[i]] /\ DOMAIN none = 1..0
    BY DEF Chars
  <2>2. PICK v : v = none
    OBVIOUS
  <2> HIDE DEF none
  <2>3. Len(v) = 0 /\ v \in Seq({v[i] : i \in DOMAIN v})
    BY <2>1, <2>2, TextOfLength
  <2> QED BY <2>2, <2>3 DEF IsText
<1>3. /\ Start.buffIdx = 0
      /\ DOMAIN Start.buf = 0..(MAX_LABEL_LEN - 1)
  BY DEF Start
<1>4. none \o s = s
  <2>1. s \in Seq({s[i] : i \in DOMAIN s}) /\ none = <<>>
    <3>1. none = <<>>
      BY DEF Chars
    <3> QED BY <1>1, <3>1 DEF IsText
  <2> QED BY <2>1, ConcatEmptySeq
<1>5. PICK p : p = Printed(Start.buf, 0, s)
  OBVIOUS
<1>6. Holds(p, s)
  <2>1. Len(none) + Len(s) < MAX_LABEL_LEN
    BY <1>1, <1>2, LabelAssumption
  <2>2. \A i \in 1..Len(none) : Start.buf[i - 1] = none[i]
    BY <1>2
  <2> HIDE DEF none, s
  <2>3. Holds(Printed(Start.buf, Len(none), s), none \o s)
    BY <1>1, <1>2, <1>3, <2>1, <2>2, PrintedBehind
  <2> QED BY <1>2, <1>4, <1>5, <2>3
<1>7. strlen(p) = Len(s)
  BY <1>1, <1>6, HeldText
<1>8. st = [buf |-> p, buffIdx |-> (0 + Len(s)) % IndexRange]
  BY <1>3, <1>5, <1>7 DEF AddPart
<1>9. (0 + Len(s)) % IndexRange = Len(s)
  <2> HIDE DEF s
  <2> QED BY <1>1, LabelAssumption
<1> QED BY <1>1, <1>6, <1>8, <1>9

\* Another part goes behind the text so far.
LEMMA SecondPart ==
  ASSUME NEW st, NEW s, NEW entry \in Known, NEW label \in DOMAIN LabelLen,
         IsText(s), Holds(st.buf, s), st.buffIdx = Len(s),
         Len(s) + Len(Part(entry, label)) < MAX_LABEL_LEN
  PROVE  LET t == Part(entry, label)
         IN  IsText(s \o t) /\ Holds(AddPart(st, entry, label).buf, s \o t)
<1> DEFINE t == Part(entry, label)
<1>1. IsText(t)
  BY PartIsText
<1>2. AddPart(st, entry, label).buf = Printed(st.buf, Len(s), t)
  BY DEF AddPart
<1>3. DOMAIN st.buf = 0..(MAX_LABEL_LEN - 1) /\ \A i \in 1..Len(s) : st.buf[i - 1] = s[i]
  BY DEF Holds
<1> HIDE DEF t
<1>4. Len(s) + Len(t) < MAX_LABEL_LEN
  BY DEF t
<1>5. Holds(Printed(st.buf, Len(s), t), s \o t) /\ IsText(s \o t)
  BY <1>1, <1>3, <1>4, PrintedBehind
<1> QED BY <1>2, <1>5 DEF t

\* The text asked for.
LEMMA AskedFor ==
  ASSUME NEW filter, NEW label, OneOrTwo(filter)
  PROVE  LabelAskedFor(filter, label) = Joined(filter, label)
<1>0. Len(filter) \in {1, 2} /\ DOMAIN filter = 1..Len(filter)
  BY DEF OneOrTwo
<1> DEFINE n == Len(filter)
           parts == [i \in DOMAIN filter |-> PartOf(filter[i], label)]
<1>1. LabelAskedFor(filter, label) = FlattenSeq(parts)
  BY DEF LabelAskedFor, PartOf
<1>2. DOMAIN parts = 1..n /\ \A i \in 1..n : parts[i] = PartOf(filter[i], label)
  OBVIOUS
<1>3. Len(parts) = n
  <2>1. parts = [i \in 1..n |-> parts[i]]
    BY <1>2
  <2>2. PICK v : v = parts
    OBVIOUS
  <2>3. n \in Nat
    OBVIOUS
  <2> HIDE DEF parts, n
  <2> QED BY <2>1, <2>2, <2>3, TextOfLength
<1> HIDE DEF parts
<1> DEFINE G(g) == [i \in 1..n |-> IF i = 1 THEN parts[i] ELSE g[i - 1] \o parts[i]]
           flatten == CHOOSE g : g = G(g)
           w == [i \in 1..n |-> IF i = 1 THEN parts[i] ELSE parts[i - 1] \o parts[i]]
<1>4. FlattenSeq(parts) = flatten[n]
  BY <1>0, <1>3 DEF FlattenSeq
<1>5. w = G(w)
  <2>1. ASSUME NEW i \in 1..n
        PROVE  w[i] = IF i = 1 THEN parts[i] ELSE w[i - 1] \o parts[i]
    <3>1. i = 1 \/ i = 2
      BY <1>0
    <3>2. 1 \in 1..n /\ w[1] = parts[1]
      BY <1>0
    <3> QED BY <3>1, <3>2
  <2> QED BY <2>1
<1>6. flatten = G(flatten)
  BY <1>5
<1>7. flatten[1] = parts[1] /\ (n = 2 => flatten[2] = parts[1] \o parts[2])
  <2> HIDE DEF flatten
  <2>1. \A i \in 1..n : flatten[i] = IF i = 1 THEN parts[i] ELSE flatten[i - 1] \o parts[i]
    BY <1>6
  <2>2. 1 \in 1..n /\ (n = 2 => 2 \in 1..n)
    BY <1>0
  <2>3. flatten[1] = parts[1]
    BY <2>1, <2>2
  <2>4. CASE n = 2
    <3>1. 2 \in 1..n /\ 2 - 1 = 1 /\ 2 # 1
      BY <2>4
    <3> HIDE DEF n
    <3> QED BY <2>1, <2>3, <3>1
  <2> QED BY <2>3, <2>4
<1>8. CASE n = 1
  <2>1. 1 \in 1..n
    BY <1>8
  <2> QED BY <1>1, <1>2, <1>4, <1>7, <1>8, <2>1 DEF Joined
<1>9. CASE n = 2
  <2>1. 1 \in 1..n /\ 2 \in 1..n /\ n # 1
    BY <1>9
  <2> QED BY <1>1, <1>2, <1>4, <1>7, <1>9, <2>1 DEF Joined
<1> QED BY <1>0, <1>8, <1>9

\* The text drawn is the text asked for.
LEMMA LabelTextOf ==
  ASSUME NEW filter, NEW label, Fits(filter, label)
  PROVE  get_label_text(filter, label) = LabelAskedFor(filter, label)
<1> DEFINE P(i) == PartOf(filter[i], label)
           first == Then(Start, filter[1], label)
           end == IF Len(filter) = 1 THEN first ELSE Then(first, filter[2], label)
           asked == IF Len(filter) = 1 THEN P(1) ELSE P(1) \o P(2)
<1>1. LabelAskedFor(filter, label) = asked
  BY AskedFor DEF Fits, Joined
<1>2. get_label_text(filter, label) = Contents(end.buf)
  <2>1. CASE Len(filter) = 1
    <3>1. DOMAIN filter = {1}
      BY <2>1 DEF Fits, OneOrTwo
    <3> QED BY <2>1, <3>1, TextOf
  <2>2. CASE Len(filter) = 2
    <3>1. DOMAIN filter = {1, 2} /\ Len(filter) # 1
      BY <2>2 DEF Fits, OneOrTwo
    <3> QED BY <2>2, <3>1, TextOf
  <2> QED BY <2>1, <2>2 DEF Fits, OneOrTwo
<1>3. ASSUME NEW entry \in Known
      PROVE  LET st == Then(Start, entry, label)
                 s == PartOf(entry, label)
             IN  IsText(s) /\ Holds(st.buf, s) /\ st.buffIdx = Len(s)
  BY <1>3, FirstPart DEF Fits, Then, PartOf
<1>4. \A entry : entry \notin Known =>
        PartOf(entry, label) = <<>> /\ \A st : Then(st, entry, label) = st
  BY DEF PartOf, Then
<1>5. IsText(asked) /\ Holds(end.buf, asked)
  <2>1. CASE Len(filter) = 1
    <3>1. filter[1] \in Known
      BY <2>1 DEF Fits, OneOrTwo
    <3> QED BY <1>3, <2>1, <3>1
  <2>2. CASE Len(filter) = 2 /\ filter[1] \notin Known
    <3>1. filter[2] \in Known
      BY <2>2 DEF Fits, OneOrTwo
    <3>2. PICK s : s = PartOf(filter[2], label)
      OBVIOUS
    <3>3. IsText(s) /\ Holds(Then(Start, filter[2], label).buf, s)
      BY <1>3, <3>1, <3>2
    <3>4. <<>> \o s = s
      BY <3>3, ConcatEmptySeq DEF IsText
    <3>5. asked = s /\ end = Then(Start, filter[2], label)
      BY <1>4, <2>2, <3>2, <3>4
    <3> QED BY <3>3, <3>5
  <2>3. CASE Len(filter) = 2 /\ filter[1] \in Known /\ filter[2] \notin Known
    <3>2. PICK s : s = PartOf(filter[1], label)
      OBVIOUS
    <3>3. IsText(s) /\ Holds(Then(Start, filter[1], label).buf, s)
      BY <1>3, <2>3, <3>2
    <3>4. s \o <<>> = s
      BY <3>3, ConcatEmptySeq DEF IsText
    <3>5. asked = s /\ end = Then(Start, filter[1], label)
      BY <1>4, <2>3, <3>2, <3>4
    <3> QED BY <3>3, <3>5
  <2>4. CASE Len(filter) = 2 /\ filter[1] \in Known /\ filter[2] \in Known
    <3>1. PICK s : s = PartOf(filter[1], label)
      OBVIOUS
    <3>2. PICK t : t = PartOf(filter[2], label)
      OBVIOUS
    <3>3. IsText(s) /\ Holds(first.buf, s) /\ first.buffIdx = Len(s)
      BY <1>3, <2>4, <3>1
    <3>4. t = Part(filter[2], label) /\ IsText(t)
      BY <2>4, <3>2, PartIsText DEF PartOf, Fits
    <3>5. asked = s \o t /\ Len(s \o t) = Len(s) + Len(t)
      <4>1. s \in Seq({s[i] : i \in DOMAIN s} \cup {t[i] : i \in DOMAIN t})
            /\ t \in Seq({s[i] : i \in DOMAIN s} \cup {t[i] : i \in DOMAIN t})
        BY <3>3, <3>4, SeqMonotonic DEF IsText
      <4> QED BY <2>4, <3>1, <3>2, <4>1, ConcatProperties
    <3>6. Len(s) + Len(t) < MAX_LABEL_LEN
      BY <1>1, <3>5 DEF Fits
    <3>7. end = AddPart(first, filter[2], label)
      BY <2>4 DEF Then
    <3> HIDE DEF first, end, asked
    <3>8. label \in DOMAIN LabelLen
      BY DEF Fits
    <3> QED BY <2>4, <3>3, <3>4, <3>5, <3>6, <3>7, <3>8, SecondPart
  <2> QED BY <2>1, <2>2, <2>3, <2>4 DEF Fits, OneOrTwo
<1>6. Contents(end.buf) = asked
  <2>1. PICK buf, s : buf = end.buf /\ s = asked
    OBVIOUS
  <2> HIDE DEF end, asked
  <2> QED BY <1>5, <2>1, HeldText
<1> QED BY <1>1, <1>2, <1>6

------------------------------------------------------------------------------
(***************************************************************************)
(* The steps.                                                              *)
(***************************************************************************)

\* The invariant holds at first.
LEMMA InitRenderInv == Init => RenderInv
<1> SUFFICES ASSUME Init PROVE RenderInv
  OBVIOUS
<1>1. TypeOK
  BY FramesAssumption DEF Init, TypeOK
<1>2. PrivInv /\ CursorInv /\ DrawnInv /\ OffsetInv
  BY DEF Init, PrivInv, CursorInv, DrawnInv, OffsetInv
<1>3. ClockInv
  BY DEF Init, ClockInv, FpsIsMean
<1>4. IsSeq
  BY DEF Init, IsSeq
<1> QED BY <1>1, <1>2, <1>3, <1>4 DEF RenderInv

\* Whether a classification is skipped, and its colour, depend on the
\* configuration alone.
LEMMA OperatorsKept ==
  ASSUME UNCHANGED priv
  PROVE  \A c : (Skipped(c) <=> Skipped(c)') /\ Color(c) = Color(c)'
BY DEF Skipped, Color, classes_count, class_list, vvas_classification_is_allowed

\* What a step that leaves the frame and its drawings alone keeps.
LEMMA DrawingKept ==
  ASSUME RenderInv, UNCHANGED <<priv, frame, visit, class, y_offset, drawn>>,
         status' = "rendering" => status = "rendering"
  PROVE  CursorInv' /\ DrawnInv' /\ OffsetInv' /\ IsSeq'
<1>1. \A d : DrawingOK(d) <=> DrawingOK(d)'
  BY OperatorsKept DEF DrawingOK, InFrame, Passed, Source
<1>2. \A c : Skipped(c) <=> Skipped(c)'
  BY OperatorsKept
<1>3. /\ \A m : MovesDown(m) <=> MovesDown(m)'
      /\ \A i, j : Passed(i, j) <=> Passed(i, j)'
      /\ \A m, i, j : DrawnAt(m, i, j) <=> DrawnAt(m, i, j)'
  BY DEF MovesDown, Passed, DrawnAt
<1>4. CursorInv' /\ IsSeq'
  BY DEF RenderInv, CursorInv, IsSeq
<1>5. DrawnInv'
  BY <1>1, <1>2, <1>3 DEF RenderInv, DrawnInv
<1>6. OffsetInv'
  BY <1>3 DEF RenderInv, OffsetInv
<1> QED BY <1>4, <1>5, <1>6

\* What a step that counts no frame keeps.
LEMMA ClockKept ==
  ASSUME RenderInv, UNCHANGED <<framecount, startClk, fps, times>>,
         now' = now \/ now' = now + 1,
         UNCHANGED priv \/ framecount = 0,
         status' = "created" => status = "created"
  PROVE  ClockInv' /\ \A i \in DOMAIN times' : times'[i] <= now'
<1>1. FpsIsMean'
  <2>1. CASE framecount = 0
    BY <2>1 DEF FpsIsMean
  <2>2. CASE framecount # 0
    BY <2>2 DEF RenderInv, ClockInv, FpsIsMean
  <2> QED BY <2>1, <2>2
<1>2. \A i \in DOMAIN times : times[i] \in Nat
  BY DEF RenderInv, ClockInv
<1> QED BY <1>1, <1>2 DEF RenderInv, ClockInv, TypeOK

\* A configuration is read.
LEMMA InitStep ==
  ASSUME RenderInv, NEW c \in Configs, xlnx_kernel_init(c)
  PROVE  RenderInv'
<1> USE DEF xlnx_kernel_init
<1>1. framecount = 0 /\ frame = NULL
  BY DEF RenderInv, ClockInv, TypeOK
<1>2. ClockInv' /\ \A i \in DOMAIN times' : times'[i] <= now'
  BY <1>1, ClockKept
<1>3. PrivInv'
  BY DEF PrivInv, RenderInv
<1>4. TypeOK'
  BY <1>1, <1>2 DEF TypeOK, RenderInv
<1>5. CursorInv' /\ DrawnInv' /\ OffsetInv' /\ IsSeq'
  BY DEF CursorInv, DrawnInv, OffsetInv, IsSeq, RenderInv
<1> QED BY <1>2, <1>3, <1>4, <1>5 DEF RenderInv

\* The kernel is closed.
LEMMA DeinitStep ==
  ASSUME RenderInv, xlnx_kernel_deinit
  PROVE  RenderInv'
<1> USE DEF xlnx_kernel_deinit
<1>1. ClockInv' /\ \A i \in DOMAIN times' : times'[i] <= now'
  BY ClockKept
<1>2. PrivInv' /\ TypeOK'
  BY <1>1 DEF PrivInv, TypeOK, RenderInv
<1>3. CursorInv' /\ DrawnInv' /\ OffsetInv' /\ IsSeq'
  BY DEF CursorInv, DrawnInv, OffsetInv, IsSeq, RenderInv
<1> QED BY <1>1, <1>2, <1>3 DEF RenderInv

\* Time passes.
LEMMA TickStep ==
  ASSUME RenderInv, Tick
  PROVE  RenderInv'
<1> USE DEF Tick
<1>1. ClockInv' /\ \A i \in DOMAIN times' : times'[i] <= now'
  BY ClockKept
<1>2. PrivInv' /\ TypeOK'
  BY <1>1 DEF PrivInv, TypeOK, RenderInv
<1>3. CursorInv' /\ DrawnInv' /\ OffsetInv' /\ IsSeq'
  BY DrawingKept
<1> QED BY <1>1, <1>2, <1>3 DEF RenderInv

\* A frame is taken, with nothing drawn on it and no offset.
LEMMA StartStep ==
  ASSUME RenderInv, NEW f \in Frames, xlnx_kernel_start(f)
  PROVE  RenderInv'
<1> USE DEF xlnx_kernel_start
<1>1. ClockInv' /\ \A i \in DOMAIN times' : times'[i] <= now'
  BY ClockKept
<1>2. PrivInv' /\ TypeOK' /\ CursorInv'
  BY <1>1, FramesAssumption DEF PrivInv, TypeOK, RenderInv, CursorInv
<1>3. DrawnInv' /\ OffsetInv'
  <2>1. ASSUME status' = "rendering", NEW i \in DOMAIN f.nodes,
               NEW j \in DOMAIN f.nodes[i].classes
        PROVE  ~Passed(i, j)'
    <3>1. i \in Nat /\ i >= 1 /\ j \in Nat /\ j >= 1
      BY FramesAssumption
    <3> QED BY <3>1 DEF Passed, Before
  <2>2. status' = "rendering" => frame' = f
    BY DEF RenderInv, TypeOK
  <2>3. drawn' = <<>> /\ DOMAIN drawn' = {} /\ y_offset' = 0
    OBVIOUS
  <2> QED BY <2>1, <2>2, <2>3 DEF DrawnInv, OffsetInv
<1>4. IsSeq'
  BY DEF IsSeq
<1> QED BY <1>1, <1>2, <1>3, <1>4 DEF RenderInv

\* The callback returns: the cursor goes to the next prediction.
LEMMA NodeStep ==
  ASSUME RenderInv, overlay_node_foreach
  PROVE  RenderInv'
<1> USE DEF overlay_node_foreach, Visiting, Prediction
<1>1. ClockInv' /\ \A i \in DOMAIN times' : times'[i] <= now'
  BY ClockKept
<1>2. PrivInv' /\ TypeOK' /\ CursorInv'
  BY <1>1 DEF PrivInv, TypeOK, RenderInv, CursorInv
<1>3. /\ visit \in Nat /\ class \in Nat /\ frame \in Frames
      /\ visit >= 1 /\ class >= 1
  BY DEF RenderInv, TypeOK, CursorInv
<1>4. ASSUME NEW i \in DOMAIN frame.nodes, NEW j \in DOMAIN frame.nodes[i].classes
      PROVE  Passed(i, j)' <=> Passed(i, j)
  <2>1. /\ i \in Nat /\ j \in Nat /\ j >= 1 /\ j <= Len(frame.nodes[i].classes)
        /\ Len(frame.nodes[i].classes) \in Nat
    BY <1>3, FramesAssumption
  <2>2. i = visit => j < class
    BY <1>3, <2>1
  <2> QED BY <1>3, <2>1, <2>2 DEF Passed, Before
<1>5. ASSUME NEW d, DrawingOK(d) PROVE DrawingOK(d)'
  <2>1. Passed(d.node, d.class)'
    BY <1>4, <1>5 DEF DrawingOK, InFrame
  <2> QED BY <1>5, <2>1, OperatorsKept DEF DrawingOK, InFrame, Source
<1>6. \A c : Skipped(c) <=> Skipped(c)'
  BY OperatorsKept
<1>7. DrawnInv'
  BY <1>4, <1>5, <1>6 DEF DrawnInv, RenderInv, DrawnAt
<1>8. OffsetInv' /\ IsSeq'
  BY DEF OffsetInv, RenderInv, MovesDown, IsSeq
<1> QED BY <1>1, <1>2, <1>7, <1>8 DEF RenderInv

\* The rate is that of the frames counted.
LEMMA RateStep ==
  ASSUME RenderInv, status = "rendering", fps_overlay,
         UNCHANGED <<priv, now>>, status' = "ready"
  PROVE  /\ ClockInv'
         /\ \A i \in DOMAIN times' : times'[i] <= now'
<1>1. CASE ~priv.drawfps
  BY <1>1, ClockKept DEF fps_overlay
<1>2. CASE priv.drawfps
  <2> DEFINE F == framecount
             by == priv.fps_interval
             m == {k \in 1..(F - 1) : k % by = 0}
  <2>1. /\ framecount' = F + 1 /\ times' = Append(times, now)
        /\ startClk' = (IF F = 0 THEN now ELSE startClk)
        /\ fps' = IF F # 0 /\ F % by = 0 THEN [frames |-> F, ms |-> now - startClk]
                  ELSE fps
    BY <1>2 DEF fps_overlay, Rate
  <2>2. /\ now \in Nat /\ times \in Seq(Nat) /\ F = Len(times) /\ F \in Nat
        /\ DOMAIN times = 1..F
        /\ F = 0 => fps.frames = 0
        /\ F > 0 => startClk = times[1]
    BY LenProperties DEF RenderInv, ClockInv
  <2>3. /\ times' \in Seq(Nat) /\ Len(times') = F + 1 /\ DOMAIN times' = 1..(F + 1)
        /\ \A i \in 1..F : times'[i] = times[i]
        /\ times'[F + 1] = now
    BY <2>1, <2>2, AppendProperties
  <2>4. \A i \in DOMAIN times' : times'[i] <= now'
    <3>1. \A i \in 1..F : times[i] <= now
      BY <2>2 DEF RenderInv, TypeOK
    <3>2. \A i \in 1..(F + 1) : i \in 1..F \/ i = F + 1
      BY <2>2
    <3> QED BY <2>2, <2>3, <3>1, <3>2
  <2>5. startClk' = times'[1]
    BY <2>1, <2>2, <2>3
  <2> DEFINE m1 == {k \in 1..F : k % by = 0}
  <2>6. F > 0 => IF m = {} THEN fps.frames = 0
                 ELSE fps = [frames |-> Max(m), ms |-> times[Max(m) + 1] - times[1]]
    BY DEF RenderInv, ClockInv, FpsIsMean
  <2>7. IF m1 = {} THEN fps'.frames = 0
        ELSE fps' = [frames |-> Max(m1), ms |-> times'[Max(m1) + 1] - times'[1]]
    <3>1. CASE F # 0 /\ F % by = 0
      <4>1. F \in m1 /\ \A k \in m1 : F >= k /\ k \in Nat
        BY <2>2, <3>1
      <4>2. Max(m1) = F
        <5> HIDE DEF m1, F
        <5>1. \A x \in m1 : (\A k \in m1 : x >= k) => x = F
          BY <4>1
        <5> QED BY <4>1, <5>1 DEF Max
      <4>3. fps' = [frames |-> F, ms |-> now - times[1]] /\ times'[1] = times[1]
        BY <2>1, <2>2, <2>3, <3>1
      <4> QED BY <2>3, <4>1, <4>2, <4>3
    <3>2. CASE F = 0
      BY <2>1, <2>2, <3>2
    <3>3. CASE F # 0 /\ F % by # 0
      <4>1. m1 = m
        <5>1. \A k \in 1..F : k \in 1..(F - 1) \/ k = F
          BY <2>2
        <5>2. \A k \in 1..(F - 1) : k \in 1..F
          BY <2>2
        <5> QED BY <3>3, <5>1, <5>2
      <4>2. CASE m # {}
        <5>1. Max(m) \in m
          <6>1. PICK x \in m : \A y \in m : x >= y
            <7> DEFINE S == {F - k : k \in m}
            <7>1. S \in SUBSET Nat /\ S # {}
              BY <2>2, <4>2
            <7>2. PICK s \in S : \A k \in S : s <= k
              <8> HIDE DEF S
              <8> QED BY <7>1, SmallestOf
            <7>3. PICK x \in m : s = F - x
              BY <7>2
            <7>4. ASSUME NEW y \in m PROVE x >= y
              <8>1. F - y \in S
                OBVIOUS
              <8>2. F - x <= F - y
                BY <7>2, <7>3, <8>1
              <8> QED BY <2>2, <8>2
            <7> QED BY <7>4
          <6> HIDE DEF m
          <6> QED BY <6>1 DEF Max
        <5>2. Max(m) + 1 \in 1..F /\ 1 \in 1..F
          BY <2>2, <5>1
        <5>3. fps' = fps
          BY <2>1, <3>3
        <5>4. times'[Max(m) + 1] = times[Max(m) + 1] /\ times'[1] = times[1]
          BY <2>3, <5>2
        <5> HIDE DEF m, m1
        <5> QED BY <2>2, <2>6, <3>3, <4>1, <4>2, <5>3, <5>4
      <4>3. CASE m = {}
        BY <2>1, <2>2, <2>6, <3>3, <4>1, <4>3
      <4> QED BY <4>2, <4>3
    <3> QED BY <3>1, <3>2, <3>3
  <2>8. FpsIsMean'
    <3>1. framecount' - 1 = F /\ priv' = priv
      BY <2>1, <2>2
    <3> QED BY <2>7, <3>1 DEF FpsIsMean
  <2> QED BY <2>1, <2>2, <2>3, <2>4, <2>5, <2>8 DEF ClockInv
<1> QED BY <1>1, <1>2

\* A frame is finished and counted.
LEMMA ReturnStep ==
  ASSUME RenderInv, Return
  PROVE  RenderInv'
<1> USE DEF Return
<1>1. ClockInv' /\ \A i \in DOMAIN times' : times'[i] <= now'
  BY RateStep
<1>2. PrivInv' /\ CursorInv' /\ DrawnInv' /\ OffsetInv' /\ IsSeq'
  BY DEF RenderInv, PrivInv, CursorInv, DrawnInv, OffsetInv, IsSeq
<1>3. TypeOK'
  <2>1. framecount' = Len(times)'
    BY <1>1 DEF ClockInv
  <2> QED BY <1>1, <2>1 DEF RenderInv, TypeOK
<1> QED BY <1>1, <1>2, <1>3 DEF RenderInv

\* One classification.
LEMMA ClassificationStep ==
  ASSUME RenderInv, overlay_classification
  PROVE  RenderInv'
<1> USE DEF overlay_classification, Visiting
<1> DEFINE c == Prediction.classes[class]
           bbox == Prediction.bbox
<1>1. ClockInv' /\ \A i \in DOMAIN times' : times'[i] <= now'
  BY ClockKept
<1>2. /\ visit \in Nat /\ class \in Nat /\ visit >= 1 /\ class >= 1
      /\ frame \in Frames /\ priv \in Configs /\ Complete(priv)
  BY DEF RenderInv, TypeOK, CursorInv, PrivInv
<1>3. InFrame(visit, class) /\ frame.nodes[visit].classes[class] = c
      /\ frame.nodes[visit].bbox = bbox
  BY <1>2, FramesAssumption DEF InFrame, Prediction
<1>4. NewOffset(c, bbox, y_offset) =
        IF label_present(c) /\ WholeFrame(bbox)
          THEN IF priv.y_offset # 0 THEN priv.y_offset ELSE frame.height \div 10
          ELSE y_offset
  BY DEF NewOffset
<1>5. /\ priv.y_offset \in Int
      /\ frame.height \div 10 \in Int /\ frame.height \div 10 # 0
  BY <1>2, ConfigsAssumption, FramesAssumption
<1> HIDE DEF c, bbox
<1>6. y_offset' \in Int
  BY <1>4, <1>5 DEF c, bbox, RenderInv, TypeOK
<1>7. PrivInv' /\ TypeOK' /\ CursorInv'
  BY <1>1, <1>2, <1>6 DEF PrivInv, TypeOK, RenderInv, CursorInv
<1>8. ASSUME NEW i \in Nat, NEW j \in Nat
      PROVE  Passed(i, j)' <=> Passed(i, j) \/ (i = visit /\ j = class)
  BY <1>2 DEF Passed, Before
<1>9. \A i \in DOMAIN frame.nodes : \A j \in DOMAIN frame.nodes[i].classes :
         i \in Nat /\ j \in Nat
  BY <1>2, FramesAssumption
<1>10. ASSUME NEW d, DrawingOK(d) PROVE DrawingOK(d)'
  <2>1. Passed(d.node, d.class)'
    BY <1>8, <1>9, <1>10 DEF DrawingOK, InFrame
  <2> QED BY <1>10, <2>1, OperatorsKept DEF DrawingOK, InFrame, Source
<1>11. \A k : Skipped(k) <=> Skipped(k)'
  BY OperatorsKept
<1>12. CASE Skipped(c) /\ UNCHANGED <<y_offset, drawn>>
  <2>1. DrawnInv'
    <3>1. ASSUME NEW i \in DOMAIN frame.nodes, NEW j \in DOMAIN frame.nodes[i].classes,
                 Passed(i, j)', ~Skipped(frame.nodes[i].classes[j])
          PROVE  Passed(i, j)
      BY <1>3, <1>8, <1>9, <1>12, <3>1
    <3> QED BY <1>10, <1>11, <1>12, <3>1 DEF DrawnInv, RenderInv, DrawnAt
  <2>2. OffsetInv' /\ IsSeq'
    BY <1>12 DEF OffsetInv, RenderInv, MovesDown, IsSeq
  <2> QED BY <1>1, <1>7, <2>1, <2>2 DEF RenderInv
<1>13. CASE /\ ~Skipped(c)
            /\ y_offset' = NewOffset(c, bbox, y_offset)
            /\ drawn' = Append(drawn, Drawing(visit, class, y_offset'))
  <2>0. PICK e, n : e = Drawing(visit, class, y_offset') /\ n = Len(drawn)
    OBVIOUS
  <2>1. /\ IsSeq' /\ n \in Nat /\ DOMAIN drawn = 1..n /\ DOMAIN drawn' = 1..(n + 1)
        /\ \A m \in 1..n : drawn'[m] = drawn[m]
        /\ drawn'[n + 1] = e
    BY <1>13, <2>0, DrawnAppend DEF RenderInv
  <2>2. /\ e.node = visit /\ e.class = class /\ e.color = Color(c)
        /\ e.box <=> ~AtOrigin(bbox)
        /\ e.label <=> label_present(c)
        /\ e.offset = y_offset'
    BY <1>3, <2>0 DEF Drawing
  <2>3. DrawingOK(e)'
    <3>1. Passed(e.node, e.class)'
      BY <1>2, <1>8, <2>2
    <3>2. Source(e) = c
      BY <1>3, <2>2 DEF Source
    <3>3. e.label => e.text = get_label_text(priv.label_filter, c.label)
      BY <1>3, <2>0 DEF Drawing
    <3> QED BY <1>3, <1>13, <2>2, <3>1, <3>2, <3>3, OperatorsKept
            DEF DrawingOK, InFrame, Source
  <2>4. /\ n + 1 \in 1..(n + 1)
        /\ \A m \in 1..(n + 1) : m \in 1..n \/ m = n + 1
        /\ \A m \in 1..n : m \in 1..(n + 1)
    BY <2>1
  <2>5. \A m \in 1..n : m \in Nat /\ m < n + 1 /\ m # n + 1 /\ ~(n + 1 < m)
    BY <2>1
  <2>6. \A m \in 1..n : Before(drawn[m].node, drawn[m].class, visit, class)
    BY <2>1 DEF RenderInv, DrawnInv, DrawingOK, Passed
  <2>7. DrawnInv'
    <3>1. ASSUME NEW m \in 1..(n + 1) PROVE DrawingOK(drawn[m])'
      <4>1. PICK d : d = drawn'[m]
        OBVIOUS
      <4>2. DrawingOK(d)'
        <5>1. CASE m = n + 1
          BY <2>1, <2>3, <4>1, <5>1
        <5>2. CASE m \in 1..n
          <6>1. d = drawn[m] /\ DrawingOK(drawn[m])
            BY <2>1, <4>1, <5>2 DEF RenderInv, DrawnInv
          <6>2. DrawingOK(d)
            BY <6>1
          <6> QED BY <1>10, <6>2
        <5> QED BY <2>4, <5>1, <5>2
      <4> QED BY <4>1, <4>2
    <3>2. ASSUME NEW m \in 1..(n + 1), NEW k \in 1..(n + 1), m < k
          PROVE  Before(drawn'[m].node, drawn'[m].class, drawn'[k].node, drawn'[k].class)
      <4>1. m \in 1..n
        BY <2>1, <3>2
      <4>2. CASE k \in 1..n
        BY <2>1, <3>2, <4>1, <4>2 DEF RenderInv, DrawnInv
      <4>3. CASE k = n + 1
        BY <2>1, <2>2, <2>6, <4>1, <4>3
      <4> QED BY <2>4, <4>2, <4>3
    <3>3. ASSUME NEW i \in DOMAIN frame.nodes, NEW j \in DOMAIN frame.nodes[i].classes,
                 Passed(i, j)', ~Skipped(frame.nodes[i].classes[j])
          PROVE  \E m \in 1..(n + 1) : drawn'[m].node = i /\ drawn'[m].class = j
      <4>1. CASE Passed(i, j)
        <5>1. PICK m \in 1..n : DrawnAt(m, i, j)
          BY <2>1, <3>3, <4>1 DEF RenderInv, DrawnInv
        <5> QED BY <2>1, <5>1 DEF DrawnAt
      <4>2. CASE i = visit /\ j = class
        BY <2>1, <2>2, <4>2
      <4> QED BY <1>8, <1>9, <3>3, <4>1, <4>2
    <3> QED BY <1>11, <2>1, <3>1, <3>2, <3>3 DEF DrawnInv, DrawnAt
  <2>8. OffsetInv'
    <3>1. \A m \in 1..n : MovesDown(m)' <=> MovesDown(m)
      BY <2>1 DEF MovesDown
    <3>2. MovesDown(n + 1)' <=> label_present(c) /\ WholeFrame(bbox)
      <4>1. /\ drawn'[n + 1].label <=> label_present(c)
            /\ frame'.nodes[drawn'[n + 1].node].bbox = bbox
        BY <1>3, <2>1, <2>2
      <4> QED BY <4>1 DEF MovesDown
    <3>3. y_offset' # 0 <=> y_offset # 0 \/ MovesDown(n + 1)'
      BY <1>4, <1>5, <1>13, <3>2
    <3>4. y_offset # 0 <=> \E m \in 1..n : MovesDown(m)
      BY <2>1 DEF RenderInv, OffsetInv
    <3>5. y_offset' # 0 <=> \E m \in 1..(n + 1) : MovesDown(m)'
      BY <2>1, <2>4, <3>1, <3>3, <3>4
    <3>6. ASSUME NEW m \in 1..n
          PROVE  drawn'[m].offset # 0 <=> \E k \in 1..(n + 1) : k <= m /\ MovesDown(k)'
      <4>1. drawn[m].offset # 0 <=> \E k \in 1..n : k <= m /\ MovesDown(k)
        BY <2>1 DEF RenderInv, OffsetInv
      <4>2. \A k \in 1..(n + 1) : k <= m => k \in 1..n
        BY <2>1
      <4>3. \A k \in 1..n : k \in 1..(n + 1)
        BY <2>1
      <4> QED BY <2>1, <3>1, <4>1, <4>2, <4>3
    <3>7. drawn'[n + 1].offset # 0
            <=> \E k \in 1..(n + 1) : k <= n + 1 /\ MovesDown(k)'
      <4>1. \A k \in 1..(n + 1) : k <= n + 1
        BY <2>1
      <4> QED BY <2>1, <2>2, <3>5, <4>1
    <3> QED BY <2>1, <2>4, <3>5, <3>6, <3>7 DEF OffsetInv
  <2> QED BY <1>1, <1>7, <2>1, <2>7, <2>8 DEF RenderInv
<1> QED BY <1>12, <1>13 DEF c, bbox

------------------------------------------------------------------------------
\* RenderInv is inductive.
THEOREM RenderInvariant == Spec => []RenderInv
<1>1. ASSUME RenderInv, UNCHANGED vars PROVE RenderInv'
  <2>1. ClockInv'
    BY <1>1, ClockKept DEF vars
  <2>2. CursorInv' /\ DrawnInv' /\ OffsetInv' /\ IsSeq'
    BY <1>1, DrawingKept DEF vars
  <2> QED BY <1>1, <2>1, <2>2 DEF vars, RenderInv, TypeOK, PrivInv
<1>2. RenderInv /\ [Next]_vars => RenderInv'
  BY <1>1, InitStep, StartStep, ClassificationStep, NodeStep, ReturnStep, TickStep,
     DeinitStep DEF Next
<1> QED BY <1>2, InitRenderInv, PTL DEF Spec

\* The state of the kernel stays well typed, for every configuration and every
\* frame (vvas_airender.cpp:341-558).
THEOREM RenderTypeCorrect == Spec => []TypeOK
BY RenderInvariant, PTL DEF RenderInv

\* The rate shown is a mean over all frames counted, however many they are and
\* however long each took (vvas_airender.cpp:277-337).
THEOREM RateIsMean == Spec => []FpsIsMean
BY RenderInvariant, PTL DEF RenderInv, ClockInv

\* For every tree of predictions and every list of classes, exactly the
\* classifications of a configured class are labelled, in order and in the
\* colour of their class (vvas_airender.cpp:150-270).
THEOREM LabelsAreComplete == Spec => []LabelsComplete
<1>1. ASSUME RenderInv, Visited PROVE LabelsComplete
  <2>1. /\ visit \in Nat /\ frame \in Frames
        /\ priv \in Configs /\ Complete(priv) /\ status = "rendering"
        /\ visit > Len(frame.nodes)
    BY <1>1 DEF RenderInv, TypeOK, PrivInv, Visited
  <2>2. \A m \in Labels : m \in DOMAIN drawn /\ DrawingOK(drawn[m]) /\ drawn[m].label
    BY <1>1, <2>1 DEF RenderInv, DrawnInv, Labels
  <2>3. \A c : Wanted(c) <=> label_present(c) /\ ~Skipped(c)
    BY <2>1, WantedIsDrawn
  <2>4. ASSUME NEW i \in DOMAIN frame.nodes, NEW j \in DOMAIN frame.nodes[i].classes
        PROVE  Labelled(i, j) <=> Wanted(frame.nodes[i].classes[j])
    <3>1. Passed(i, j)
      <4>1. i \in Nat /\ i <= Len(frame.nodes) /\ Len(frame.nodes) \in Nat
        BY <2>1, FramesAssumption
      <4> QED BY <2>1, <4>1 DEF Passed, Before
    <3>2. ASSUME NEW m \in DOMAIN drawn, DrawnAt(m, i, j)
          PROVE  /\ drawn[m].label <=> label_present(frame.nodes[i].classes[j])
                 /\ ~Skipped(frame.nodes[i].classes[j])
      BY <1>1, <2>1, <3>2 DEF RenderInv, DrawnInv, DrawingOK, DrawnAt, Source
    <3>3. ~Skipped(frame.nodes[i].classes[j]) =>
            \E m \in DOMAIN drawn : DrawnAt(m, i, j)
      BY <1>1, <2>1, <3>1 DEF RenderInv, DrawnInv
    <3> QED BY <2>3, <3>2, <3>3 DEF Labelled, Labels, DrawnAt
  <2>5. \A m, n \in Labels :
          m < n => Before(drawn[m].node, drawn[m].class, drawn[n].node, drawn[n].class)
    BY <1>1, <2>1, <2>2 DEF RenderInv, DrawnInv
  <2>6. ASSUME NEW m \in Labels
        PROVE  LET d == drawn[m]
               IN  /\ d.node \in DOMAIN frame.nodes
                   /\ d.class \in DOMAIN frame.nodes[d.node].classes
                   /\ d.box <=> frame.nodes[d.node].bbox.x # 0
                               \/ frame.nodes[d.node].bbox.y # 0
    BY <2>2 DEF DrawingOK, InFrame, AtOrigin
  <2>7. ASSUME NEW m \in Labels
        PROVE  LET d == drawn[m]
               IN  IF Names = {} THEN d.color = "blue"
                   ELSE \E i \in DOMAIN priv.classes :
                     /\ priv.classes[i] = [name |-> Source(d).label, color |-> d.color]
                     /\ \A k \in 1..(i - 1) : priv.classes[k].name # Source(d).label
    <3> DEFINE d == drawn[m]
               name == Source(d).label
               idx == vvas_classification_is_allowed(name)
    <3>1. /\ d.color = Color(Source(d)) /\ ~Skipped(Source(d))
          /\ label_present(Source(d)) /\ Wanted(Source(d))
      BY <2>2, <2>3 DEF DrawingOK
    <3>2. Names = {} <=> classes_count = 0
      BY <2>1, WantedIsDrawn
    <3>3. CASE Names = {}
      BY <3>1, <3>2, <3>3 DEF Color
    <3>4. CASE Names # {}
      <4>1. name \in Names /\ name \notin {NULL, Empty}
        BY <3>1, <3>4 DEF Wanted, label_present
      <4>2. /\ idx \in 0..(Len(priv.classes) - 1)
            /\ class_list[idx] = priv.classes[idx + 1]
            /\ priv.classes[idx + 1].name = name
            /\ \A k \in 1..idx : priv.classes[k].name # name
        BY <2>1, <4>1, SearchFinds
      <4>3. d.color = class_list[idx].color
        BY <3>1, <3>2, <3>4 DEF Color
      <4>4. /\ DOMAIN priv.classes = 1..Len(priv.classes) /\ Len(priv.classes) \in Nat
            /\ \A i \in DOMAIN priv.classes :
                 priv.classes[i] = [name |-> priv.classes[i].name,
                                    color |-> priv.classes[i].color]
        BY <2>1, ConfigsAssumption DEF Complete
      <4> HIDE DEF idx, name, d
      <4>5. idx + 1 \in DOMAIN priv.classes /\ (idx + 1) - 1 = idx
        BY <4>2, <4>4
      <4>6. priv.classes[idx + 1] = [name |-> name, color |-> d.color]
        BY <4>2, <4>3, <4>4, <4>5
      <4> QED BY <3>4, <4>2, <4>5, <4>6 DEF d, name
    <3> QED BY <3>3, <3>4
  <2> QED BY <2>4, <2>5, <2>6, <2>7 DEF LabelsComplete
<1>2. RenderInv => LabelsComplete
  BY <1>1 DEF LabelsComplete
<1> QED BY <1>2, RenderInvariant, PTL

\* The offset of a text is due to the labels of its own frame, whatever frames
\* came before (vvas_airender.cpp:181-188, 513).
THEOREM OffsetIsOfThisFrame == Spec => []OffsetOfThisFrame
<1>1. ASSUME RenderInv, Visited, NEW m \in Labels
      PROVE  drawn[m].offset # 0 <=>
               \E n \in Labels :
                 /\ WholeFrame(frame.nodes[drawn[n].node].bbox)
                 /\ ~Before(drawn[m].node, drawn[m].class, drawn[n].node, drawn[n].class)
  <2>1. /\ status = "rendering" /\ frame \in Frames /\ m \in DOMAIN drawn
        /\ \A n \in Labels : n \in DOMAIN drawn /\ drawn[n].label
        /\ \A n \in DOMAIN drawn : n \in Nat
    <3>1. \A n \in DOMAIN drawn : n \in Nat
      BY <1>1 DEF RenderInv, IsSeq
    <3> QED BY <1>1, <3>1 DEF RenderInv, TypeOK, Visited, Labels
  <2>2. drawn[m].offset # 0 <=> \E n \in DOMAIN drawn : n <= m /\ MovesDown(n)
    BY <1>1, <2>1 DEF RenderInv, OffsetInv
  <2>3. \A n \in DOMAIN drawn :
          MovesDown(n) <=> n \in Labels /\ WholeFrame(frame.nodes[drawn[n].node].bbox)
    BY DEF MovesDown, Labels
  <2>4. \A n \in DOMAIN drawn : InFrame(drawn[n].node, drawn[n].class)
    BY <1>1, <2>1 DEF RenderInv, DrawnInv, DrawingOK
  <2>5. ASSUME NEW n \in DOMAIN drawn
        PROVE  n <= m <=> ~Before(drawn[m].node, drawn[m].class,
                                  drawn[n].node, drawn[n].class)
    <3>1. /\ drawn[m].node \in Nat /\ drawn[m].class \in Nat
          /\ drawn[n].node \in Nat /\ drawn[n].class \in Nat
      <4>1. ASSUME NEW i, NEW j, InFrame(i, j) PROVE i \in Nat /\ j \in Nat
        <5>1. i \in Nat
          BY <2>1, <4>1, FramesAssumption DEF InFrame
        <5>2. j \in Nat
          BY <2>1, <4>1, FramesAssumption DEF InFrame
        <5> QED BY <5>1, <5>2
      <4> QED BY <2>1, <2>4, <4>1
    <3>2. m < n => Before(drawn[m].node, drawn[m].class, drawn[n].node, drawn[n].class)
      BY <1>1, <2>1 DEF RenderInv, DrawnInv
    <3>3. n < m => Before(drawn[n].node, drawn[n].class, drawn[m].node, drawn[m].class)
      BY <1>1, <2>1 DEF RenderInv, DrawnInv
    <3>4. m < n \/ n < m \/ m = n
      BY <2>1
    <3>5. m < n => ~(n <= m)
      BY <2>1
    <3>6. n < m \/ m = n => n <= m
      BY <2>1
    <3> QED BY <3>1, <3>2, <3>3, <3>4, <3>5, <3>6 DEF Before
  <2> QED BY <2>1, <2>2, <2>3, <2>5
<1>2. RenderInv => OffsetOfThisFrame
  BY <1>1 DEF OffsetOfThisFrame
<1> QED BY <1>2, RenderInvariant, PTL

\* For every configuration and every frame that fit together, the text drawn
\* for a label is the one its configuration asks for (vvas_airender.cpp:118-137).
THEOREM LabelTextsAreExact ==
  ASSUME LabelsFit
  PROVE  Spec => []LabelTextExact
<1>1. ASSUME RenderInv, Visited, NEW m \in Labels
      PROVE  drawn[m].text = LabelAskedFor(priv.label_filter, Source(drawn[m]).label)
  <2>1. /\ priv \in Configs /\ Complete(priv) /\ frame \in Frames
        /\ DrawingOK(drawn[m]) /\ drawn[m].label
    BY <1>1 DEF RenderInv, TypeOK, PrivInv, DrawnInv, Visited, Labels
  <2>2. PICK d : d = drawn[m]
    OBVIOUS
  <2>3. label_present(Source(d)) /\ InFrame(d.node, d.class)
    BY <2>1, <2>2 DEF DrawingOK
  <2>4. Fits(priv.label_filter, Source(d).label)
    BY <2>1, <2>3 DEF LabelsFit, InFrame, Source
  <2>5. d.text = get_label_text(priv.label_filter, Source(d).label)
    BY <2>1, <2>2 DEF DrawingOK
  <2> QED BY <2>2, <2>4, <2>5, LabelTextOf
<1>2. RenderInv => LabelTextExact
  BY <1>1 DEF LabelTextExact
<1> QED BY <1>2, RenderInvariant, PTL

===============================================================================
