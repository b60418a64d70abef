--------------------------- MODULE MCVirtualDevice ---------------------------
\* The virtual device with two enroll stages and two prints.
EXTENDS VirtualDevice

CONSTANTS a, b

MCIds == {a, b}
MCCommands ==
    [cmd : {"SCAN"}, id : MCIds, synthetic : {FALSE}]
    \union [cmd : {"SLEEP", "RETRY", "ERROR", "CONT", "FINGER"}, id : {NoId}, synthetic : {FALSE}]
    \union [cmd : {"INSERT", "REMOVE"}, id : {a}, synthetic : {FALSE}]
MCNrStages == 2
MCMaxCommands == 4
=============================================================================
