------------------------------- MODULE FpPrint -------------------------------
(***************************************************************************)
(* Prints and their storage (fp-print.c, fpi-print.c), as operators.  A    *)
(* print holds the minutiae of the enroll stages (NBIS) or data of its     *)
(* driver (RAW), and what is known of it.  It is written to permanent      *)
(* storage and read back, and some devices keep a user id that stands for  *)
(* it.  An operator named Bad... is a wrong form of the one after it; the  *)
(* specification does not use it.                                          *)
(***************************************************************************)
EXTENDS Integers, Sequences, FiniteSetsExt, SequencesExt

CONSTANTS
    MaxRows,        \* MAX_BOZORTH_MINUTIAE, 200: the rows of struct xyt_struct
    None            \* NULL

ASSUME MaxRowsAssumption == MaxRows \in Nat \ {0}

-----------------------------------------------------------------------------
(* Minutiae *)

Zeros == [r \in 1 .. MaxRows |-> 0]

\* The first MaxRows minutiae in the order that qsort gives them by sort_x_y: none comes
\* after one that it is before, and of those at one place nothing is known.
Earlier(m, n) == m.x < n.x \/ (m.x = n.x /\ m.y < n.y)
NMin(minutiae) == Min({Len(minutiae), MaxRows})
SortXY(minutiae) ==
    LET rows == 1 .. NMin(minutiae)
        order == CHOOSE p \in Bijection(rows, rows) :
                     \A i, j \in rows : i < j => ~Earlier(minutiae[p[j]], minutiae[p[i]])
    IN [r \in rows |-> minutiae[order[r]]]

\* minutiae_to_xyt, into a structure that fpi_print_add_from_image filled with zeros.
Signed(theta) == IF theta > 180 THEN theta - 360 ELSE theta
MinutiaeToXyt(minutiae) ==
    LET nmin == NMin(minutiae)
        c == SortXY(minutiae)
    IN [nrows |-> nmin,
        xcol |-> [r \in DOMAIN Zeros |-> IF r <= nmin THEN c[r].x ELSE 0],
        ycol |-> [r \in DOMAIN Zeros |-> IF r <= nmin THEN c[r].y ELSE 0],
        thetacol |-> [r \in DOMAIN Zeros |-> IF r <= nmin THEN Signed(c[r].theta) ELSE 0]]

-----------------------------------------------------------------------------
(* A print *)

\* fp_print_new
NewPrint(device) ==
    [type |-> "UNDEFINED", driver |-> device.driver, device_id |-> device.id,
     device_stored |-> FALSE, finger |-> 0, username |-> None, enroll_date |-> None,
     data |-> None, prints |-> <<>>]

\* fpi_print_set_type, which is only allowed once.
SetType(print, type) ==
    IF print.type = "UNDEFINED" THEN [print EXCEPT !.type = type] ELSE print

\* fpi_print_add_from_image, of an image that has minutiae.
AddFromImage(print, minutiae) ==
    [print EXCEPT !.prints = Append(@, MinutiaeToXyt(minutiae))]

\* fpi_print_add_print, of the one print of another.
BadAddPrint(print, add) == [print EXCEPT !.prints = add.prints]
AddPrint(print, add) == [print EXCEPT !.prints = Append(@, add.prints[1])]

\* fp_print_compatible
Compatible(print, device) == print.driver = device.driver /\ print.device_id = device.id

\* fp_print_equal: the print, not what is known of it.  The structures of the
\* minutiae are compared as a whole, the unused rows included.
Equal(print, other) ==
    /\ print.type = other.type
    /\ print.driver = other.driver
    /\ print.device_id = other.device_id
    /\ IF print.type = "RAW" THEN print.data = other.data
       ELSE print.prints = other.prints

\* bozorth_to_gallery against the threshold: the same minutiae are the same finger.
Score(probe, gallery) == probe = gallery

\* fpi_print_bz3_match
Bz3Match(template, print) ==
    IF template.type # "NBIS" \/ print.type # "NBIS" \/ Len(print.prints) # 1 THEN "ERROR"
    ELSE IF \E i \in DOMAIN template.prints : Score(print.prints[1], template.prints[i])
         THEN "SUCCESS" ELSE "FAIL"

-----------------------------------------------------------------------------
(* Storage *)

\* What stands for no date in storage, G_MININT32, and the date that is made of it:
\* its bits are a day far in the future.
NoDate == -1
FarDate == 99

Used(xyt) ==
    [x |-> SubSeq(xyt.xcol, 1, xyt.nrows), y |-> SubSeq(xyt.ycol, 1, xyt.nrows),
     theta |-> SubSeq(xyt.thetacol, 1, xyt.nrows)]

\* fp_print_serialize
Serialize(print) ==
    [header |-> "FP3", type |-> print.type, driver |-> print.driver,
     device_id |-> print.device_id, device_stored |-> print.device_stored,
     finger |-> print.finger, username |-> print.username,
     date |-> IF print.enroll_date = None THEN NoDate ELSE print.enroll_date,
     data |-> print.data,
     prints |-> [i \in DOMAIN print.prints |-> Used(print.prints[i])]]

\* The arrays are copied into a structure of zeros.
BadRestored(column) == [r \in DOMAIN Zeros |-> IF r <= Len(column) THEN column[r] ELSE 1]
Restored(column) == [r \in DOMAIN Zeros |-> IF r <= Len(column) THEN column[r] ELSE 0]
XytOf(columns) ==
    [nrows |-> Len(columns.x), xcol |-> Restored(columns.x),
     ycol |-> Restored(columns.y), thetacol |-> Restored(columns.theta)]

WellFormed(columns) ==
    /\ Len(columns.x) = Len(columns.y) /\ Len(columns.x) = Len(columns.theta)
    /\ Len(columns.x) <= MaxRows

\* g_assert (length > 3) of fp_print_deserialize fails.
TooShort(stored) == stored.header = "short"

\* The switch on the stored type has a case for each member of FpiPrintType and no
\* default, though the value in storage may be any.
UnknownType(stored) == stored.type \notin {"UNDEFINED", "RAW", "NBIS"}

Readable(stored) ==
    /\ stored.header = "FP3"
    /\ \/ stored.type = "NBIS" /\ \A i \in DOMAIN stored.prints : WellFormed(stored.prints[i])
       \/ stored.type = "RAW"

\* fp_print_deserialize of data that is not too short: a print, or None and an error.
\* For a type it does not know it gives neither.
Deserialize(stored) ==
    IF ~Readable(stored)
    THEN [print |-> None,
          error |-> IF stored.header = "FP3" /\ UnknownType(stored) THEN None ELSE "INVALID_DATA"]
    ELSE [print |->
            [type |-> stored.type, driver |-> stored.driver,
             device_id |-> stored.device_id, device_stored |-> stored.device_stored,
             finger |-> stored.finger, username |-> stored.username,
             enroll_date |-> IF stored.date = NoDate THEN FarDate ELSE stored.date,
             data |-> IF stored.type = "RAW" THEN stored.data ELSE None,
             prints |-> IF stored.type = "NBIS"
                        THEN [i \in DOMAIN stored.prints |-> XytOf(stored.prints[i])]
                        ELSE <<>>],
          error |-> None]

-----------------------------------------------------------------------------
(* User ids *)

Nobody == "nobody"

\* fpi_print_generate_user_id: the date, zero when there is none, the finger and the
\* user's name.
GenerateUserId(print) ==
    [date |-> IF print.enroll_date = None THEN 0 ELSE print.enroll_date,
     finger |-> print.finger,
     name |-> IF print.username = None THEN Nobody ELSE print.username]

\* fpi_print_fill_from_user_id: a date of zero gives one that is not valid, which is
\* as good as none.
FillFromUserId(print, id) ==
    [print EXCEPT !.enroll_date = IF id.date > 0 THEN id.date ELSE None,
                  !.finger = id.finger,
                  !.username = IF id.name # Nobody THEN id.name ELSE @]
=============================================================================
