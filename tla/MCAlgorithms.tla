---------------------------- MODULE MCAlgorithms ----------------------------
(* Small inputs of the parts without state, for TLC.                        *)
EXTENDS Algorithms

At(n) == [h |-> 0, m |-> n, s |-> (n + 1) % 60]

(* Steps of a tool: trims with and without a number and times, one whose    *)
(* range is backward, one that is not a time; a step that is not a trim, a  *)
(* watermark step with something to tell and one with nothing.              *)
Trims == [action : {"trim"}, number : {0, 2}, start : {At(1), Missing}, end : {At(2)}, note : {""}]
         \cup [action : {"trim"}, number : {0}, start : {At(1)}, end : {At(0), Malformed}, note : {""}]
Others == {[action |-> "resize", number |-> 0, start |-> At(1), end |-> At(2), note |-> "ignored"],
           [action |-> "handle_watermark", number |-> 0, start |-> Missing, end |-> Missing, note |-> "overlay"],
           [action |-> "handle_watermark", number |-> 0, start |-> Missing, end |-> Missing, note |-> ""]}
SomeSteps == Trims \cup Others

SomeClips == [id : {1, 2}, rank : {1}, notes : {<<>>}, complete : BOOLEAN, typed : BOOLEAN,
              start : {At(0), At(1), Malformed}, end : {At(1), At(59), [h |-> 1, m |-> 1, s |-> 1]}]

(* Around the ends of the clips. *)
SomeLengths == {0, 619, 620, 36609, 36610}
SomeWanted == {{1}, {1, 2}}
=============================================================================
