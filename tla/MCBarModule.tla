----------------------------- MODULE MCBarModule -----------------------------
(***************************************************************************)
(* Three outputs with a CRTC each.  The scenes ask different questions: all *)
(* compose graphs over three aliases, loaded and applied once; cables and  *)
(* reloads among four configurations; icons, one of them too large, while  *)
(* a cable is pulled and plugged.                                          *)
(***************************************************************************)
EXTENDS BarModule

CONSTANTS i1, i2

MCPossible == [o \in Outputs |-> IF o = "C" THEN <<3, 2, 1>> ELSE <<1, 2, 3>>]
MCModes == [o \in Outputs |-> IF o = "A" THEN {<<4, 3>>, <<3, 2>>} ELSE {<<3, 4>>}]
MCFirstScreen == <<4, 4>>

bar_set == [default |-> [top |-> 1, bottom |-> 0],
            per_monitor |-> [a \in {"b"} |-> [top |-> -1, bottom |-> 1]]]

monitor(a, o, on, w, h, r) ==
  [alias |-> a, output |-> o, enabled |-> on, w |-> w, h |-> h, rotated |-> r]

link(a, rel, side) ==
  [monitor |-> a, relative_to |-> rel, side |-> side, shift |-> IF side = "left" THEN -1 ELSE 0]

settings(mons, primary, links) ==
  [monitors |-> mons, primary |-> primary, layout |-> links, workspaces |-> <<NoName, "a">>,
   bars |-> bar_set, themed |-> TRUE]

three(on) == <<monitor("a", "A", "a" \in on, 4, 3, FALSE), monitor("b", "B", "b" \in on, 3, 4, TRUE),
               monitor("c", "C", "c" \in on, 3, 4, FALSE)>>

Names == {"a", "b", "c"}

choices(a) ==
  {<<>>} \cup {<<link(a, rel, side)>> : rel \in Names \cup {NoName},
                 side \in CASE a = "a" -> {"left"} [] a = "b" -> {"left", "top"} [] a = "c" -> {"bottom"}}

Graphs == {settings(three(on), p, la \o lb \o lc) : on \in SUBSET Names, p \in {"a", "b"},
             la \in choices("a"), lb \in choices("b"), lc \in choices("c")}

Broken == {settings(three(Names), "a", <<link("b", "a", "left"), link("b", "a", "top"), link("c", "a", "right")>>),
           [settings(three({"a"}), "a", <<>>) EXCEPT !.workspaces = <<"d">>],
           [settings(three({"a"}), "a", <<>>) EXCEPT !.themed = FALSE],
           settings(<<monitor("a", "A", TRUE, 4, 3, FALSE), monitor("b", "A", FALSE, 4, 3, FALSE)>>, "a", <<>>)}

two(r, p, side) ==
  settings(<<monitor("a", "A", TRUE, 4, 3, FALSE), monitor("b", "B", TRUE, 3, 4, r)>>, p,
           IF p = "a" THEN <<link("b", "a", side)>> ELSE <<link("a", "b", side)>>)

Beside  == two(FALSE, "a", "right")
Stacked == two(TRUE, "b", "bottom")
Lone    == settings(<<monitor("a", "A", TRUE, 3, 2, FALSE), monitor("b", "B", FALSE, 3, 4, FALSE)>>, "a", <<>>)
NoMode  == settings(<<monitor("a", "A", TRUE, 2, 2, FALSE), monitor("b", "B", TRUE, 3, 4, FALSE)>>, "a",
                    <<link("b", "a", "left")>>)

MCSettings == {Beside, Stacked, Lone, NoMode}

\* The server shows the connected outputs over each other, as it does by itself.
server(connected) ==
  [crtc |-> [k \in Crtcs |->
      IF k = 1 /\ "A" \in connected
      THEN [output |-> "A", x |-> 0, y |-> 0, mode |-> <<4, 3>>, rotated |-> FALSE]
      ELSE IF k = 2 /\ "B" \in connected
      THEN [output |-> "B", x |-> 0, y |-> 0, mode |-> <<3, 4>>, rotated |-> FALSE]
      ELSE Off],
   screen |-> FirstScreen, connected |-> connected, primary |-> NoName, changed |-> FALSE]

nowhere == [i \in Icons |-> NoName]

Scene(c, on, icons, at, plugs, reloads, acts) ==
  [config |-> c, x |-> server(on), icons |-> icons, large |-> {}, home |-> at,
   plugs |-> plugs, reloads |-> reloads, acts |-> acts]

MCScenes ==
  {Scene(c, Outputs, <<>>, nowhere, 0, 0, 0) : c \in Graphs \cup Broken} \cup
  {Scene(c, on, <<>>, nowhere, 2, 1, 0) : c \in MCSettings, on \in {{"A"}, {"A", "B"}}} \cup
  {Scene(Beside, {"A", "B"}, [i \in {i1} |-> info], [nowhere EXCEPT ![i1] = "B"], 1, 0, 2) :
     info \in {"none", "mapped", "unmapped"}} \cup
  {Scene(Beside, {"A", "B"}, [i \in {i1} |-> "none"], nowhere, 2, 0, 0),
   Scene(Beside, {"A", "B"}, [i \in {i1, i2} |-> IF i = i1 THEN "mapped" ELSE "none"],
         [nowhere EXCEPT ![i1] = "B", ![i2] = "A"], 1, 0, 0)} \cup
  {[Scene(Beside, {"A", "B"}, [i \in {i1, i2} |-> IF i = i1 THEN info ELSE "mapped"],
          nowhere, 1, 0, 0) EXCEPT !.large = {i1}] : info \in {"none", "mapped"}}
==============================================================================
