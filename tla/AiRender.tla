------------------------------- MODULE AiRender -------------------------------
(***************************************************************************)
(* The kernel that draws the results of the inference on each frame,       *)
(* vvas_airender.cpp.  The VVAS framework calls init once, start for one   *)
(* frame after another and deinit in the end, all from one thread; start   *)
(* walks the prediction tree of the frame, draws what belongs to each      *)
(* classification of each prediction, and adds the frame rate.             *)
(*                                                                         *)
(* A frame carries its predictions in the pre-order in which               *)
(* g_node_traverse visits them, or no metadata.  A drawing is recorded     *)
(* instead of painted: one entry for each classification that is not       *)
(* skipped.                                                                *)
(***************************************************************************)
EXTENDS Integers, LabelText

CONSTANTS
  Configs,            \* kernel configurations
  Frames,             \* frames as the pipeline may deliver them
  MAX_ALLOWED_CLASS,  \* entries of class_list
  Absent,             \* a key the configuration lacks
  NULL,               \* no class label, no kernel_priv, no frame
  MaxFrames, MaxTime  \* bounds of the model

ASSUME ConfigsAssumption ==
  /\ MAX_ALLOWED_CLASS \in Nat
  /\ NULL \notin Configs
  /\ \A c \in Configs :
       /\ c.y_offset \in Int
       /\ c.fps_interval \in Int \ {0}
       /\ c.classes # Absent =>
            /\ Len(c.classes) \in 0..MAX_ALLOWED_CLASS
            /\ DOMAIN c.classes = 1..Len(c.classes)
            /\ \A i \in DOMAIN c.classes :
                 c.classes[i] = [name |-> c.classes[i].name,
                                 color |-> c.classes[i].color]

\* A tenth of the height is the offset of a text, so frames of fewer than ten
\* lines are left out.
ASSUME FramesAssumption ==
  /\ NULL \notin Frames
  /\ \A f \in Frames :
       /\ f.height \in Nat /\ f.height >= 10
       /\ Len(f.nodes) \in Nat /\ DOMAIN f.nodes = 1..Len(f.nodes)
       /\ \A i \in DOMAIN f.nodes :
            /\ Len(f.nodes[i].classes) \in Nat
            /\ DOMAIN f.nodes[i].classes = 1..Len(f.nodes[i].classes)

VARIABLES
  priv,        \* handle->kernel_priv
  status,      \* what the framework has called, and what it returned
  frame,       \* frameinfo->inframe
  visit,       \* the prediction being visited
  class,       \* its next classification
  y_offset,    \* frameinfo->y_offset
  drawn,       \* what was drawn on the frame
  framecount, startClk, fps,
  now,         \* the clock, in ms
  times        \* history: when each frame was counted

vars == <<priv, status, frame, visit, class, y_offset, drawn, framecount, startClk,
          fps, now, times>>

Empty == ""

Unused == [name |-> Empty, color |-> "black"]

Formats == {"NV12", "BGR", "other"}

TypeOK ==
  /\ priv = NULL \/ \E c \in Configs : priv = c
  /\ status \in {"created", "ready", "rendering", "failed", "closed"}
  /\ frame \in Frames \cup {NULL}
  /\ (status = "rendering") = (frame # NULL)
  /\ visit \in Nat /\ class \in Nat
  /\ y_offset \in Int
  /\ framecount = Len(times)
  /\ \A i \in DOMAIN times : times[i] <= now

Init ==
  /\ priv = NULL
  /\ status = "created"
  /\ frame = NULL
  /\ visit = 0 /\ class = 0
  /\ y_offset = 0
  /\ drawn = <<>>
  /\ framecount = 0
  /\ startClk = 0
  /\ fps = [frames |-> 0, ms |-> 1]
  /\ now = 0
  /\ times = <<>>

------------------------------------------------------------------------------
\* Configuration.  A missing number has a default, which the configurations
\* of the model already contain.

Complete(c) ==
  /\ c.label_color # Absent
  /\ c.label_filter # Absent
  /\ c.classes # Absent
  /\ \A i \in DOMAIN c.classes : c.classes[i].name # Absent

xlnx_kernel_init(c) ==
  /\ status = "created"
  /\ \/ Complete(c) /\ priv' = c /\ status' = "ready"
     \/ ~Complete(c) /\ priv' = priv /\ status' = "failed"
  /\ UNCHANGED <<frame, visit, class, y_offset, drawn, framecount, startClk, fps,
                 now, times>>

xlnx_kernel_deinit ==
  /\ status \in {"ready", "failed"}
  /\ status' = "closed"
  /\ UNCHANGED <<priv, frame, visit, class, y_offset, drawn, framecount, startClk,
                 fps, now, times>>

------------------------------------------------------------------------------
\* One classification of one prediction.

\* Mutant: the last entry is not searched.
class_listShort ==
  [i \in 0..(MAX_ALLOWED_CLASS - 2) |->
     IF i < Len(priv.classes) THEN priv.classes[i + 1] ELSE Unused]

\* class_list is zeroed when it is allocated, and searched to its end.
class_list ==
  [i \in 0..(MAX_ALLOWED_CLASS - 1) |->
     IF i < Len(priv.classes) THEN priv.classes[i + 1] ELSE Unused]

vvas_classification_is_allowed(cls_name) ==
  LET found == {i \in DOMAIN class_list : class_list[i].name = cls_name}
  IN  IF cls_name = NULL \/ found = {} THEN -1
      ELSE CHOOSE i \in found : \A j \in found : i <= j

classes_count == Len(priv.classes)

Skipped(c) == classes_count # 0 /\ vvas_classification_is_allowed(c.label) = -1

Color(c) ==
  IF classes_count = 0 THEN "blue"
  ELSE class_list[vvas_classification_is_allowed(c.label)].color

label_present(c) == c.label \notin {NULL, Empty}

AtOrigin(bbox) == bbox.x = 0 /\ bbox.y = 0

WholeFrame(bbox) == bbox.width < 1 /\ bbox.height < 1

\* The offset after classification c of a prediction, if it was y before.
NewOffset(c, bbox, y) ==
  IF label_present(c) /\ WholeFrame(bbox)
    THEN IF priv.y_offset # 0 THEN priv.y_offset ELSE frame.height \div 10
    ELSE y

Drawing(i, j, y) ==
  LET p == frame.nodes[i]
      c == p.classes[j]
  IN  [node |-> i, class |-> j, color |-> Color(c),
       box |-> ~AtOrigin(p.bbox), label |-> label_present(c), offset |-> y,
       text |-> IF label_present(c)
                  THEN get_label_text(priv.label_filter, c.label) ELSE <<>>]

------------------------------------------------------------------------------

\* Mutant: the offset of the last frame is kept.
xlnx_kernel_startKeepOffset(f) ==
  /\ status = "ready"
  /\ framecount < MaxFrames
  /\ drawn' = <<>>
  /\ visit' = 1 /\ class' = 1
  /\ IF f.fmt = "other" THEN frame' = NULL /\ status' = status
                        ELSE frame' = f /\ status' = "rendering"
  /\ UNCHANGED <<priv, y_offset, framecount, startClk, fps, now, times>>

\* Mutant: a frame is rendered although its format is not supported.
xlnx_kernel_startAny(f) ==
  /\ status = "ready"
  /\ framecount < MaxFrames
  /\ y_offset' = 0
  /\ drawn' = <<>>
  /\ visit' = 1 /\ class' = 1
  /\ frame' = f
  /\ UNCHANGED <<priv, status, framecount, startClk, fps, now, times>>

\* start takes a frame.  One of another format is returned as it is.
xlnx_kernel_start(f) ==
  /\ status = "ready"
  /\ framecount < MaxFrames
  /\ y_offset' = 0
  /\ drawn' = <<>>
  /\ visit' = 1 /\ class' = 1
  /\ IF f.fmt = "other" THEN frame' = NULL /\ status' = status
                        ELSE frame' = f /\ status' = "rendering"
  /\ UNCHANGED <<priv, framecount, startClk, fps, now, times>>

Visiting == status = "rendering" /\ visit <= Len(frame.nodes)

Prediction == frame.nodes[visit]

\* One turn of the loop over the classifications of a prediction.
overlay_classification ==
  /\ Visiting
  /\ class <= Len(Prediction.classes)
  /\ LET c == Prediction.classes[class]
     IN  \/ /\ Skipped(c)
            /\ UNCHANGED <<y_offset, drawn>>
         \/ /\ ~Skipped(c)
            /\ y_offset' = NewOffset(c, Prediction.bbox, y_offset)
            /\ drawn' = Append(drawn, Drawing(visit, class, y_offset'))
  /\ class' = class + 1
  /\ UNCHANGED <<priv, status, frame, visit, framecount, startClk, fps, now,
                 times>>

\* The callback for a prediction returns, and the traversal goes on.
overlay_node_foreach ==
  /\ Visiting
  /\ class > Len(Prediction.classes)
  /\ visit' = visit + 1
  /\ class' = 1
  /\ UNCHANGED <<priv, status, frame, y_offset, drawn, framecount, startClk, fps,
                 now, times>>

\* Mutant: the frame being drawn is counted too.
RateOneMore == [frames |-> framecount + 1, ms |-> now - startClk]

\* The rate is that of all frames counted since the first one.
Rate ==
  [frames |-> framecount, ms |-> now - startClk]

fps_overlay ==
  IF priv.drawfps
    THEN /\ framecount' = framecount + 1
         /\ times' = Append(times, now)
         /\ startClk' = IF framecount = 0 THEN now ELSE startClk
         /\ fps' = IF framecount # 0 /\ framecount % priv.fps_interval = 0
                     THEN Rate ELSE fps
    ELSE UNCHANGED <<framecount, times, startClk, fps>>

\* After the last prediction, or without any.
Return ==
  /\ status = "rendering"
  /\ visit > Len(frame.nodes)
  /\ fps_overlay
  /\ status' = "ready"
  /\ frame' = NULL
  /\ UNCHANGED <<priv, visit, class, y_offset, drawn, now>>

Tick ==
  /\ now < MaxTime
  /\ now' = now + 1
  /\ UNCHANGED <<priv, status, frame, visit, class, y_offset, drawn, framecount,
                 startClk, fps, times>>

Next ==
  \/ \E c \in Configs : xlnx_kernel_init(c)
  \/ \E f \in Frames : xlnx_kernel_start(f)
  \/ overlay_classification
  \/ overlay_node_foreach
  \/ Return
  \/ Tick
  \/ xlnx_kernel_deinit

Spec == Init /\ [][Next]_vars

------------------------------------------------------------------------------
(***************************************************************************)
(* Properties of a frame whose predictions have all been visited.          *)
(***************************************************************************)

Visited == status = "rendering" /\ visit > Len(frame.nodes)

Source(d) == frame.nodes[d.node].classes[d.class]

Names == {priv.classes[i].name : i \in DOMAIN priv.classes}

Before(i, j, k, l) == i < k \/ (i = k /\ j < l)

\* The drawings that have a text.
Labels == {m \in DOMAIN drawn : drawn[m].label}

Wanted(c) == label_present(c) /\ (Names = {} \/ c.label \in Names)

Labelled(i, j) == \E m \in Labels : drawn[m].node = i /\ drawn[m].class = j

\* Every classification that has a label and one of the configured classes is
\* labelled, once, in the order of the tree, in the colour configured for its
\* class, and no other is; it has a rectangle unless its box is at the origin
\* (airender.cpp:151-170, 247).
LabelsComplete ==
  Visited =>
    /\ \A i \in DOMAIN frame.nodes : \A j \in DOMAIN frame.nodes[i].classes :
         Labelled(i, j) <=> Wanted(frame.nodes[i].classes[j])
    /\ \A m, n \in Labels :
         m < n => Before(drawn[m].node, drawn[m].class,
                         drawn[n].node, drawn[n].class)
    /\ \A m \in Labels :
         LET d == drawn[m]
         IN  /\ d.node \in DOMAIN frame.nodes
             /\ d.class \in DOMAIN frame.nodes[d.node].classes
             /\ d.box <=> frame.nodes[d.node].bbox.x # 0
                         \/ frame.nodes[d.node].bbox.y # 0
             /\ IF Names = {} THEN d.color = "blue"
                ELSE \E i \in DOMAIN priv.classes :
                       /\ priv.classes[i] = [name |-> Source(d).label, color |-> d.color]
                       /\ \A k \in 1..(i - 1) : priv.classes[k].name # Source(d).label

\* The configurations and the labels of the frames fit together.
LabelsFit ==
  \A k \in Configs : Complete(k) =>
    \A f \in Frames : \A i \in DOMAIN f.nodes : \A j \in DOMAIN f.nodes[i].classes :
      LET c == f.nodes[i].classes[j]
      IN  label_present(c) => Fits(k.label_filter, c.label)

\* The text of a label is what label_filter asks for ("Compose label text
\* based on config json", airender.cpp:118).
LabelTextExact ==
  Visited =>
    \A m \in Labels :
      drawn[m].text = LabelAskedFor(priv.label_filter, Source(drawn[m]).label)

\* A text is moved down exactly if a labelled classification of the whole
\* frame came before it, or is it, in the same frame; nothing is carried over
\* from an earlier frame (airender.cpp:181-188, 513).
OffsetOfThisFrame ==
  Visited =>
    \A m \in Labels :
      drawn[m].offset # 0 <=>
        \E n \in Labels :
          /\ WholeFrame(frame.nodes[drawn[n].node].bbox)
          /\ ~Before(drawn[m].node, drawn[m].class, drawn[n].node, drawn[n].class)

\* The frame rate shown is the mean over the frames counted up to the last
\* one that is a multiple of fps_interval, from the time the first of them
\* was drawn to the time of that one; frames that were returned undrawn do
\* not count (airender.cpp:287-299).
FpsIsMean ==
  LET m == {k \in 1..(framecount - 1) : k % priv.fps_interval = 0}
  IN  framecount > 0 =>
        IF m = {} THEN fps.frames = 0
        ELSE LET k == Max(m)
             IN  fps = [frames |-> k, ms |-> times[k + 1] - times[1]]

===============================================================================
