------------------------------ MODULE MCMotion ------------------------------
(* Machines of two joints for the configurations of module Motion. *)
EXTENDS MotionProperties

AllJoints == Joint
First(v, w) == [j \in Joint |-> IF j = 0 THEN v ELSE w]

NoFlags == [j \in Joint |-> {}]
IndexFirst == First({"USE_INDEX"}, {})
IndexAndShared == First({"USE_INDEX"}, {"IS_SHARED"})
LockAndAbsolute == First({"UNLOCK_FIRST", "USE_INDEX"},
                         {"ABSOLUTE_ENCODER", "NO_FINAL_MOVE", "IS_SHARED"})
AbsoluteSecond == First({"IS_SHARED"}, {"ABSOLUTE_ENCODER", "NO_REHOME"})

OneByOne == [j \in Joint |-> j]
Together == [j \in Joint |-> 0]
Gantry == First(-1, 1)

Ones == [j \in Joint |-> 1]
Zeros == [j \in Joint |-> 0]
OnlyFirst == First(1, 0)
Opposite == First(-1, 1)
=============================================================================
