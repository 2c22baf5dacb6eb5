------------------------------ MODULE MCAiRender ------------------------------
(***************************************************************************)
(* Configurations like the three shipped ones (no classes, or a list of    *)
(* classes; class and probability in the label; no y_offset; a rate every  *)
(* few frames), others the code accepts, and incomplete ones.  Lengths are *)
(* scaled down: an index of 3 bits for 8, and "person" is as long as a     *)
(* label can be before the index of the probability wraps around.          *)
(***************************************************************************)
EXTENDS AiRender, TLC

MCLabelLen == [car |-> 2, person |-> 7, bicycle |-> 4]

Class(name, color) == [name |-> name, color |-> color]

Classes == << Class("person", "red"), Class("car", "green"),
              Class("bicycle", "white") >>

Config(classes, label_filter, offset, drawfps, fps_interval) ==
  [label_color |-> "red", label_filter |-> label_filter, classes |-> classes,
   y_offset |-> offset, drawfps |-> drawfps, fps_interval |-> fps_interval]

Shipped == <<"class", "probability">>

Accepted ==
  { Config(<<>>, Shipped, 0, TRUE, 2),
    Config(Classes, Shipped, 0, FALSE, 2),
    Config(SubSeq(Classes, 1, 2), <<"probability">>, 3, TRUE, 1),
    Config(<<Class("car", "red"), Class("car", "white")>>, <<"class">>, 0,
           FALSE, 1) }

Broken ==
  { [Config(<<>>, Shipped, 0, TRUE, 2) EXCEPT !.label_color = Absent],
    [Config(<<>>, Shipped, 0, TRUE, 2) EXCEPT !.label_filter = Absent],
    [Config(<<>>, Shipped, 0, TRUE, 2) EXCEPT !.classes = Absent],
    Config(<<Class("car", "red"), Class(Absent, "red")>>, Shipped, 0, TRUE, 2) }

MCConfigs == Accepted \cup Broken

C(label) == [label |-> label]

Box(x, y, width, height) ==
  [x |-> x, y |-> y, width |-> width, height |-> height]

P(bbox, labels) ==
  [bbox |-> bbox, classes |-> [i \in DOMAIN labels |-> C(labels[i])]]

F(fmt, nodes) == [fmt |-> fmt, height |-> 20, nodes |-> nodes]

MCFrames ==
  { F("NV12", <<>>),
    F("other", <<P(Box(0, 0, 0, 0), <<"car">>)>>),
    F("NV12", <<P(Box(0, 0, 0, 0), <<>>), P(Box(4, 4, 5, 5), <<"car", "person">>)>>),
    F("BGR", <<P(Box(2, 2, 5, 5), <<"person">>), P(Box(0, 0, 0, 0), <<"person", "car">>),
               P(Box(4, 4, 5, 5), <<"bicycle">>)>>),
    F("BGR", <<P(Box(0, 0, 0, 0), <<"", NULL>>), P(Box(0, 0, 5, 5), <<"car">>),
               P(Box(4, 4, 5, 5), <<"">>)>>) }

ASSUME FitAssumption == LabelsFit

===============================================================================
