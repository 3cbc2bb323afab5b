------------------------------ MODULE MCPrimitives ------------------------------
(***************************************************************************)
(* One run for components that share no state: a behaviour is one of the   *)
(* first that takes a step.                                                *)
(***************************************************************************)
EXTENDS Griffin, R1CS, Pedersen, Points, Polynomials

Shape(t, d, rounds, debug) == [t |-> t, d |-> d, rounds |-> rounds, debug |-> debug]

\* Every width with its own affine layer, with and without debug assertions where pairs may be
\* drawn again, and arguments that new refuses
MCShapes ==
  {Shape(3, 3, 2, FALSE), Shape(3, 5, 2, TRUE), Shape(4, 3, 2, TRUE),
   Shape(4, 3, 1, FALSE), Shape(8, 3, 1, TRUE), Shape(8, 5, 1, FALSE),
   Shape(0, 3, 1, TRUE), Shape(6, 3, 1, TRUE), Shape(3, 4, 1, TRUE), Shape(3, 3, 0, TRUE)}

ARows == {<<>>, <<<<1, 0>>>>, <<<<2, 1>>, <<1, 2>>>>}
BRows == {<<<<1, 1>>>>, <<<<2, 2>>>>}

\* Matrices of a row each, the last perhaps of none, and of two rows each
Matrices1 == {<<<<a>>, <<b>>, c>> : a \in ARows, b \in BRows, c \in {<<>>} \cup {<<r>> : r \in ARows}}
Matrices2 == {[i \in 1 .. 3 |-> <<a[i], a[4 - i]>>] : a \in [1 .. 3 -> ARows]}

\* Dimensions that fit, that are too small or too large, and with no room for the constant
MCLoaded ==
  [m : {1}, n : {0, 2, 3}, l : 0 .. 2, matrices : Matrices1]
    \cup [m : {0, 2}, n : {3}, l : {1}, matrices : Matrices1]
    \cup [m : {2}, n : {3}, l : {0, 1}, matrices : Matrices2]

Init == GriffinInit /\ R1CSInit /\ PedersenInit /\ PointsInit /\ PolynomialsInit

GriffinStarted == stage # "new"
R1CSStarted == built # "none" \/ cs # EmptySystem
PedersenStarted == key # NoKey
PointsStarted == Allocated
PolynomialsStarted == domain # NoDomain \/ tables # <<>>

Next ==
  \/ /\ ~R1CSStarted /\ ~PedersenStarted /\ ~PointsStarted /\ ~PolynomialsStarted
     /\ GriffinNext
     /\ UNCHANGED <<rvars, pvars, ptvars, plvars>>
  \/ /\ ~GriffinStarted /\ ~PedersenStarted /\ ~PointsStarted /\ ~PolynomialsStarted
     /\ R1CSNext
     /\ UNCHANGED <<gvars, pvars, ptvars, plvars>>
  \/ /\ ~GriffinStarted /\ ~R1CSStarted /\ ~PointsStarted /\ ~PolynomialsStarted
     /\ PedersenNext
     /\ UNCHANGED <<gvars, rvars, ptvars, plvars>>
  \/ /\ ~GriffinStarted /\ ~R1CSStarted /\ ~PedersenStarted /\ ~PolynomialsStarted
     /\ PointsNext
     /\ UNCHANGED <<gvars, rvars, pvars, plvars>>
  \/ /\ ~GriffinStarted /\ ~R1CSStarted /\ ~PedersenStarted /\ ~PointsStarted
     /\ PolynomialsNext
     /\ UNCHANGED <<gvars, rvars, pvars, ptvars>>

Spec == Init /\ [][Next]_<<gvars, rvars, pvars, ptvars, plvars>>
=============================================================================
