------------------------------ MODULE MCRules ------------------------------
(* The registration rules for TLC: four sections with meeting patterns, two *)
(* of one course.                                                           *)
EXTENDS MCEnrollment, Timetable

MWF == {"M", "W", "F"}
TR == {"T", "R"}

\* Sections 1 and 3 overlap on two days; 2 and 4 touch.
FourMeetings ==
    <<[days |-> MWF, from |-> <<9, 0>>,  to |-> <<9, 50>>],
      [days |-> TR, from |-> <<9, 30>>, to |-> <<10, 45>>],
      [days |-> {"M", "W"}, from |-> <<9, 30>>, to |-> <<10, 45>>],
      [days |-> TR, from |-> <<10, 45>>, to |-> <<12, 0>>]>>

\* The patterns of the seed, and three that reach over others.
SeedMeetings ==
    {[days |-> MWF, from |-> <<8, 0>>, to |-> <<8, 50>>],
     [days |-> MWF, from |-> <<11, 0>>, to |-> <<11, 50>>],
     [days |-> MWF, from |-> <<1, 0>>, to |-> <<1, 50>>],
     [days |-> TR, from |-> <<8, 0>>, to |-> <<9, 15>>],
     [days |-> TR, from |-> <<1, 30>>, to |-> <<2, 45>>],
     [days |-> TR, from |-> <<3, 0>>, to |-> <<4, 15>>],
     [days |-> {"M", "T"}, from |-> <<8, 0>>, to |-> <<12, 0>>],
     [days |-> {"W", "R"}, from |-> <<8, 30>>, to |-> <<9, 30>>],
     [days |-> {"T"}, from |-> <<2, 0>>, to |-> <<3, 0>>],
     Unsplit}
=============================================================================
