---------------------------- MODULE MCTouchWindows ----------------------------
(***************************************************************************)
(* A phone of 720 x 1280 with one output, or a second one of the same size  *)
(* to its right, and one window.                                            *)
(***************************************************************************)
EXTENDS TouchWindows

MCModes == {Size(720, 1280)}

MCTurns == {"Normal", "Rotate90"}

MCScales == {1, 2}

\* The first output begins at 0, any other to its right.
MCLeft == LET first == CHOOSE d \in Outputs : TRUE IN [d \in Outputs |-> IF d = first THEN 0 ELSE 720]

MCInch == [d \in Outputs |-> NoSize]

MCSafeArea == [left |-> 0, top |-> 30, right |-> 0, bottom |-> 0]

At(x, y) == [x |-> x, y |-> y]

\* Two opposite corners that are on the screen at either scale and orientation.
MCPoints == {At(5, 5), At(355, 350)}

\* A place low on the screen at scale 1, far below it at scale 2.
MCLowPoints == {At(5, 5), At(600, 1000)}

MCClientSizes == {NoSize, Size(300, 300)}

MCClientRects == {Rect(0, 0, 400, 300)}

===============================================================================
