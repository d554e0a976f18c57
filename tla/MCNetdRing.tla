------------------------------ MODULE MCNetdRing ------------------------------
EXTENDS NetdRing

\* Frames for RX, the empty one and one whose length needs both bytes included.
RxFrames == {<<>>, <<2>>, <<1, 1>>, <<0, 2>>, <<1, 0, 2, 1>>}
=============================================================================
