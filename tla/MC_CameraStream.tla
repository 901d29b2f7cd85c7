--------------------------- MODULE MC_CameraStream ---------------------------
EXTENDS CameraStream

\* Any one fault, or two lost commands.
AnyFault == {<<f>> : f \in FaultKinds} \union {<<"lose", "lose">>}
=============================================================================
