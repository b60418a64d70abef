----------------------------- MODULE MCPrintPath -----------------------------
\* A scene of three columns and eight rows, no two parts of which look alike, frames
\* of two columns and four rows, and two rows of minutiae.
EXTENDS PrintPath

MCScene == [p \in (0 .. 2) \X (0 .. 7) |-> 
    (p[1] * (p[2] + 1) * 10 + p[2] * p[2] * 9 + p[1] * p[1] * 10 + p[1] * p[2] * p[2]) % 13]
MCPlain == {0, 12}
MCNrLines == 3 .. 7
Minutia(x, theta) == [x |-> x, y |-> 1, theta |-> theta]
MCMinutiae ==
    {<<>>, <<Minutia(1, 90)>>, <<Minutia(1, 90), Minutia(2, 270)>>,
     <<Minutia(2, 270), Minutia(1, 90), Minutia(3, 0)>>}
MCDevices == {[driver |-> "d", id |-> "1"], [driver |-> "d", id |-> "2"]}
MCMetadata ==
    {[finger |-> 1, username |-> "u", enroll_date |-> 2],
     [finger |-> 0, username |-> None, enroll_date |-> None]}
=============================================================================
