------------------------------ MODULE MCParts -------------------------------
(* Small instances of the parts: four courses of two departments, a search  *)
(* with clear relevance, one with a tie and one with no match; two readers  *)
(* of the cache; two seats against three students in the seed.              *)
EXTENDS Parts

CONSTANTS r1, r2, k1, k2, k3, t1, t2, w1, w2, p1, p2, p3

CodePrefixes == <<"CS", "CS", "CS", "MATH">>
TitleOrder == <<2, 4, 1, 3>>
Ranks ==
    [s \in {"algo", "the", "zzz"} |->
        CASE s = "algo" -> <<1, 3, 2, 4>> [] s = "the" -> <<2, 2, 1, 0>>
          [] OTHER -> <<0, 0, 0, 0>>]
Outlooks ==
    [c \in {k1, k2, k3} |->
        [unprepared |-> c = k3, tooMany |-> FALSE, collides |-> c = k3,
         full |-> c = k2, waitlistFull |-> FALSE]]
Students == <<p1, p2, p3>>
SmallAndLarge == <<1, 2>>
FirstSection == <<1>>
=============================================================================
