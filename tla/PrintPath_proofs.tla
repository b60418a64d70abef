--------------------------- MODULE PrintPath_proofs ---------------------------
(***************************************************************************)
(* Proofs about prints and their storage, for all minutiae, devices,       *)
(* metadata and numbers of stages: what was stored is read back, what was  *)
(* damaged is not, and a finger is recognised when it was enrolled.        *)
(***************************************************************************)
EXTENDS PrintPath, FiniteSetTheorems, TLAPS

Xyts == {MinutiaeToXyt(m) : m \in Minutiae \ {<<>>}}

\* A print is enrolled with minutiae of an image or stored in the device.
PathInv ==
    /\ template \in Prints \union {None}
    /\ kept \in Prints \union {None}
    /\ template # None /\ template.type = "RAW" => template.prints = <<>>
    /\ kept # None => /\ storage = Serialize(kept)
                      /\ kept.type = "RAW" => kept.prints = <<>>
    /\ storage # None /\ kept = None => ~Readable(storage)
    /\ StoredPrintIsKept

-----------------------------------------------------------------------------
(* Minutiae *)

\* The number of the minutiae of a print.
LEMMA NMinOfTwo ==
    ASSUME NEW m \in Minutiae \ {<<>>}
    PROVE  /\ Len(m) \in Nat \ {0} /\ MaxRows \in Nat \ {0}
           /\ NMin(m) = IF Len(m) <= MaxRows THEN Len(m) ELSE MaxRows
<1>1. Len(m) \in Nat \ {0} /\ MaxRows \in Nat \ {0}
    BY MinutiaeAssumption, MaxRowsAssumption
<1> DEFINE n == IF Len(m) <= MaxRows THEN Len(m) ELSE MaxRows
<1>2. n \in {Len(m), MaxRows} /\ \A y \in {Len(m), MaxRows} : n <= y
    BY <1>1
<1>3. \A x \in {Len(m), MaxRows} : (\A y \in {Len(m), MaxRows} : x <= y) => x = n
    BY <1>1
<1>4. NMin(m) = n
    BY <1>2, <1>3 DEF NMin, Min
<1> QED
    BY <1>1, <1>4

LEMMA MinIsBounded ==
    ASSUME NEW m \in Minutiae \ {<<>>}
    PROVE  NMin(m) \in 1 .. MaxRows
BY NMinOfTwo

\* The structure of the minutiae of an image: rows that are used, and zeros.
IsXyt(xyt) ==
    /\ xyt = [nrows |-> xyt.nrows, xcol |-> xyt.xcol, ycol |-> xyt.ycol, thetacol |-> xyt.thetacol]
    /\ xyt.nrows \in 1 .. MaxRows
    /\ xyt.xcol = [r \in 1 .. MaxRows |-> xyt.xcol[r]]
    /\ xyt.ycol = [r \in 1 .. MaxRows |-> xyt.ycol[r]]
    /\ xyt.thetacol = [r \in 1 .. MaxRows |-> xyt.thetacol[r]]
    /\ \A r \in 1 .. MaxRows :
           r > xyt.nrows => xyt.xcol[r] = 0 /\ xyt.ycol[r] = 0 /\ xyt.thetacol[r] = 0

\* minutiae_to_xyt makes one.
LEMMA MinutiaeMakeXyt ==
    ASSUME NEW m \in Minutiae \ {<<>>}
    PROVE  IsXyt(MinutiaeToXyt(m))
<1> DEFINE n == NMin(m)
           c == SortXY(m)
           x == [r \in 1 .. MaxRows |-> IF r <= n THEN c[r].x ELSE 0]
           y == [r \in 1 .. MaxRows |-> IF r <= n THEN c[r].y ELSE 0]
           theta == [r \in 1 .. MaxRows |-> IF r <= n THEN Signed(c[r].theta) ELSE 0]
<1>1. MinutiaeToXyt(m) = [nrows |-> n, xcol |-> x, ycol |-> y, thetacol |-> theta]
    BY DEF MinutiaeToXyt, Zeros
<1>2. n \in 1 .. MaxRows
    BY MinIsBounded
<1>3. /\ x = [r \in 1 .. MaxRows |-> x[r]] /\ y = [r \in 1 .. MaxRows |-> y[r]]
      /\ theta = [r \in 1 .. MaxRows |-> theta[r]]
    OBVIOUS
<1>4. \A r \in 1 .. MaxRows : r > n => x[r] = 0 /\ y[r] = 0 /\ theta[r] = 0
    BY <1>2, MaxRowsAssumption
<1> HIDE DEF n, x, y, theta
<1> DEFINE xyt == MinutiaeToXyt(m)
<1>5. xyt.nrows = n /\ xyt.xcol = x /\ xyt.ycol = y /\ xyt.thetacol = theta
    BY <1>1
<1> HIDE DEF xyt
<1>6. IsXyt(xyt)
    BY <1>1, <1>2, <1>3, <1>4, <1>5 DEF IsXyt, xyt
<1> QED
    BY <1>6 DEF xyt

\* A column is read back as it was.
LEMMA ColumnIsRestored ==
    ASSUME NEW n \in 1 .. MaxRows, NEW column,
           column = [r \in 1 .. MaxRows |-> column[r]],
           \A r \in 1 .. MaxRows : r > n => column[r] = 0
    PROVE  /\ Len(SubSeq(column, 1, n)) = n
           /\ Restored(SubSeq(column, 1, n)) = column
<1> DEFINE used == SubSeq(column, 1, n)
<1>0. n \in Nat /\ MaxRows \in Nat /\ n <= MaxRows /\ n >= 1
    BY MaxRowsAssumption
<1>1. used = [r \in 1 .. n |-> column[r]]
    BY <1>0
<1>2. Len(used) = n
    BY <1>0, <1>1
<1>3. \A r \in 1 .. MaxRows : r <= n => used[r] = column[r]
    BY <1>0, <1>1
<1> HIDE DEF used
<1>4. Restored(used) = [r \in 1 .. MaxRows |-> IF r <= n THEN used[r] ELSE 0]
    BY <1>2 DEF Restored, Zeros
<1>5. \A r \in 1 .. MaxRows : (IF r <= n THEN used[r] ELSE 0) = column[r]
    BY <1>0, <1>3
<1>6. Restored(used) = [r \in 1 .. MaxRows |-> column[r]]
    BY <1>4, <1>5
<1> QED
    BY <1>2, <1>6 DEF used

\* What is stored of the first column.
LEMMA UsedColumns ==
    ASSUME NEW xyt, IsXyt(xyt)
    PROVE  LET used == Used(xyt).x
           IN  Len(used) = xyt.nrows /\ Len(Append(used, 1)) = xyt.nrows + 1
<1> DEFINE n == xyt.nrows
           column == xyt.xcol
           used == SubSeq(column, 1, n)
           S == {column[r] : r \in 1 .. n} \union {1}
<1>1. n \in Nat
    BY MaxRowsAssumption DEF IsXyt
<1>2. used = [r \in 1 .. n |-> column[r]]
    BY <1>1
<1>3. used \in Seq(S) /\ Len(used) = n
    BY <1>1, <1>2
<1>4. Len(Append(used, 1)) = n + 1
    BY <1>3
<1> QED
    BY <1>3, <1>4 DEF Used

\* A structure is read back as it was.
LEMMA XytIsRestored ==
    ASSUME NEW xyt, IsXyt(xyt)
    PROVE  XytOf(Used(xyt)) = xyt /\ WellFormed(Used(xyt))
<1> DEFINE n == xyt.nrows
<1>1. n \in 1 .. MaxRows
    BY DEF IsXyt
<1>2. Len(Used(xyt).x) = n /\ Restored(Used(xyt).x) = xyt.xcol
    <2>1. /\ xyt.xcol = [r \in 1 .. MaxRows |-> xyt.xcol[r]]
          /\ \A r \in 1 .. MaxRows : r > n => xyt.xcol[r] = 0
        BY DEF IsXyt
    <2>2. Used(xyt).x = SubSeq(xyt.xcol, 1, n)
        BY DEF Used
    <2> QED
        BY <1>1, <2>1, <2>2, ColumnIsRestored
<1>3. Len(Used(xyt).y) = n /\ Restored(Used(xyt).y) = xyt.ycol
    <2>1. /\ xyt.ycol = [r \in 1 .. MaxRows |-> xyt.ycol[r]]
          /\ \A r \in 1 .. MaxRows : r > n => xyt.ycol[r] = 0
        BY DEF IsXyt
    <2>2. Used(xyt).y = SubSeq(xyt.ycol, 1, n)
        BY DEF Used
    <2> QED
        BY <1>1, <2>1, <2>2, ColumnIsRestored
<1>4. Len(Used(xyt).theta) = n /\ Restored(Used(xyt).theta) = xyt.thetacol
    <2>1. /\ xyt.thetacol = [r \in 1 .. MaxRows |-> xyt.thetacol[r]]
          /\ \A r \in 1 .. MaxRows : r > n => xyt.thetacol[r] = 0
        BY DEF IsXyt
    <2>2. Used(xyt).theta = SubSeq(xyt.thetacol, 1, n)
        BY DEF Used
    <2> QED
        BY <1>1, <2>1, <2>2, ColumnIsRestored
<1>5. n <= MaxRows
    BY <1>1, MaxRowsAssumption
<1> QED
    BY <1>2, <1>3, <1>4, <1>5 DEF IsXyt, XytOf, WellFormed

-----------------------------------------------------------------------------
(* Prints *)

\* The structures of a print are those of images.
LEMMA XytsAreXyts == \A xyt \in Xyts : IsXyt(xyt)
BY MinutiaeMakeXyt DEF Xyts

\* No date of a print is taken for none.
LEMMA DatesAreKnown == \A date \in 1 .. FarDate : date # NoDate
BY DEF NoDate, FarDate

\* A print that is read back is the one that was stored, but for the date.
LEMMA PrintIsRestored ==
    ASSUME NEW print \in Prints, print.type = "RAW" => print.prints = <<>>
    PROVE  LET read == Deserialize(Serialize(print))
           IN  /\ read.error = None
               /\ read.print \in Prints
               /\ Equal(read.print, print) /\ SameMetadata(print, read.print)
               /\ read.print.prints = print.prints
               /\ read.print.type = print.type
<1> DEFINE stored == Serialize(print)
           read == Deserialize(stored)
           back == [i \in DOMAIN stored.prints |-> XytOf(stored.prints[i])]
<1>1. print.prints \in Seq(Xyts) /\ print.type \in {"NBIS", "RAW"}
    BY DEF Prints, Xyts
<1>2. \A i \in DOMAIN print.prints : IsXyt(print.prints[i])
    BY <1>1, XytsAreXyts
<1>3. /\ stored.header = "FP3" /\ stored.type = print.type /\ stored.driver = print.driver
      /\ stored.device_id = print.device_id /\ stored.device_stored = print.device_stored
      /\ stored.finger = print.finger /\ stored.username = print.username
      /\ stored.data = print.data
      /\ stored.date = (IF print.enroll_date = None THEN NoDate ELSE print.enroll_date)
      /\ stored.prints = [i \in DOMAIN print.prints |-> Used(print.prints[i])]
    BY DEF Serialize
<1> HIDE DEF stored
<1>4. \A i \in DOMAIN print.prints :
          XytOf(stored.prints[i]) = print.prints[i] /\ WellFormed(stored.prints[i])
    BY <1>2, <1>3, XytIsRestored
<1>5. Readable(stored)
    BY <1>1, <1>3, <1>4 DEF Readable
<1>6. back = print.prints
    <2>1. DOMAIN stored.prints = DOMAIN print.prints
        BY <1>3
    <2>2. print.prints = [i \in DOMAIN print.prints |-> print.prints[i]]
        BY <1>1
    <2>3. back = [i \in DOMAIN print.prints |-> XytOf(stored.prints[i])]
        BY <2>1
    <2>4. back = [i \in DOMAIN print.prints |-> print.prints[i]]
        BY <1>4, <2>3
    <2> QED
        BY <2>2, <2>4
<1> DEFINE date == IF stored.date = NoDate THEN FarDate ELSE stored.date
           data == IF stored.type = "RAW" THEN stored.data ELSE None
           prints == IF stored.type = "NBIS" THEN back ELSE <<>>
           made == [type |-> stored.type, driver |-> stored.driver,
                    device_id |-> stored.device_id, device_stored |-> stored.device_stored,
                    finger |-> stored.finger, username |-> stored.username,
                    enroll_date |-> date, data |-> data, prints |-> prints]
<1>7. read = [print |-> made, error |-> None]
    BY <1>5 DEF Deserialize
<1>8. prints = print.prints
    BY <1>1, <1>3, <1>6
<1>9. /\ date \in 1 .. FarDate
      /\ print.enroll_date # None => date = print.enroll_date
    <2>1. print.enroll_date \in {None} \union (1 .. FarDate)
        BY DEF Prints
    <2>2. CASE print.enroll_date = None
        BY <1>3, <2>2 DEF NoDate, FarDate
    <2>3. CASE print.enroll_date # None
        <3>1. stored.date = print.enroll_date /\ stored.date \in 1 .. FarDate
            BY <1>3, <2>1, <2>3
        <3>2. stored.date # NoDate
            BY <3>1, DatesAreKnown
        <3>3. date = (IF stored.date = NoDate THEN FarDate ELSE stored.date)
            BY Zenon
        <3>4. date = stored.date
            BY <3>2, <3>3
        <3> HIDE DEF date
        <3> QED
            BY <3>1, <3>4
    <2> QED
        BY <2>2, <2>3
<1>10. /\ data \in {None} \union {GenerateUserId(m) : m \in Metadata}
       /\ print.type = "RAW" => data = print.data
    BY <1>3 DEF Prints
<1> HIDE DEF date, data, prints, back
<1>11. made \in Prints
    BY <1>3, <1>8, <1>9, <1>10 DEF Prints
<1>12. Equal(made, print)
    BY <1>1, <1>3, <1>8, <1>10 DEF Equal
<1>13. SameMetadata(print, made)
    BY <1>3, <1>9 DEF SameMetadata
<1>14. made.prints = print.prints /\ made.type = print.type
    BY <1>3, <1>8
<1> HIDE DEF made
<1> QED
    BY <1>7, <1>11, <1>12, <1>13, <1>14 DEF stored

-----------------------------------------------------------------------------
(* Damaged storage *)

\* None of the damages leaves anything that can be read.
LEMMA DamagesAreFound ==
    ASSUME NEW print \in Prints, print.type = "RAW" => print.prints = <<>>,
           storage = Serialize(print), NEW data \in Damages
    PROVE  ~Readable(data)
<1>1. /\ storage.type = print.type
      /\ storage.prints = [i \in DOMAIN print.prints |-> Used(print.prints[i])]
      /\ storage = [f \in DOMAIN storage |-> storage[f]]
      /\ {"header", "type", "prints"} \subseteq DOMAIN storage
    BY DEF Serialize
<1>2. print.prints \in Seq(Xyts) /\ print.type \in {"NBIS", "RAW"}
    BY DEF Prints, Xyts
<1>3. \A i \in DOMAIN print.prints : IsXyt(print.prints[i])
    BY <1>2, XytsAreXyts
<1>4. ASSUME NEW header \in {"short", "FP2"}, data = [storage EXCEPT !.header = header]
      PROVE  ~Readable(data)
    BY <1>1, <1>4 DEF Readable
<1>5. ASSUME NEW type \in {"UNDEFINED", "UNKNOWN"}, data = [storage EXCEPT !.type = type]
      PROVE  ~Readable(data)
    BY <1>1, <1>5 DEF Readable
<1>6. ASSUME NEW i \in DOMAIN storage.prints,
             \/ data = [storage EXCEPT !.prints[i].x = Append(@, 1)]
             \/ data = [storage EXCEPT !.prints[i].theta = <<>>]
             \/ data = [storage EXCEPT !.prints[i] = [c \in DOMAIN @ |->
                                                         [r \in 1 .. MaxRows + 1 |-> 1]]]
      PROVE  ~Readable(data)
    <2> DEFINE used == storage.prints[i]
               n == print.prints[i].nrows
    <2>1. /\ i \in DOMAIN print.prints /\ used = Used(print.prints[i])
          /\ storage.type = "NBIS"
        BY <1>1, <1>2, <1>6
    <2>2. n \in 1 .. MaxRows /\ WellFormed(used) /\ Len(used.x) = n
        BY <1>3, <2>1, XytIsRestored, UsedColumns DEF IsXyt
    <2>3. /\ DOMAIN used = {"x", "y", "theta"}
          /\ Len(Append(used.x, 1)) = n + 1
        BY <2>1, <2>2, UsedColumns DEF Used
    <2>4. Len(used.y) = n /\ Len(used.theta) = n
        BY <2>2 DEF WellFormed
    <2> HIDE DEF used, n
    <2>5. ASSUME NEW e, data = [storage EXCEPT !.prints = [storage.prints EXCEPT ![i] = e]],
                 ~WellFormed(e)
          PROVE  ~Readable(data)
        <3>1. data.type = "NBIS" /\ data.prints = [storage.prints EXCEPT ![i] = e]
            BY <1>1, <2>1, <2>5
        <3>2. i \in DOMAIN data.prints /\ data.prints[i] = e
            BY <1>1, <1>6, <3>1
        <3> QED
            BY <2>5, <3>1, <3>2 DEF Readable
    <2>6. CASE data = [storage EXCEPT !.prints[i].x = Append(@, 1)]
        <3> DEFINE e == [used EXCEPT !.x = Append(used.x, 1)]
        <3>1. e.x = Append(used.x, 1) /\ e.y = used.y
            BY <2>3
        <3>2. n + 1 # n
            BY <2>2
        <3>3. ~WellFormed(e)
            BY <2>3, <2>4, <3>1, <3>2 DEF WellFormed
        <3>4. data = [storage EXCEPT !.prints = [storage.prints EXCEPT ![i] = e]]
            BY <2>6 DEF used
        <3> QED
            BY <2>5, <3>3, <3>4
    <2>7. CASE data = [storage EXCEPT !.prints[i].theta = <<>>]
        <3> DEFINE e == [used EXCEPT !.theta = <<>>]
        <3>1. e.theta = <<>> /\ e.x = used.x /\ Len(<<>>) = 0
            BY <2>3
        <3>2. n # 0
            BY <2>2
        <3>3. ~WellFormed(e)
            BY <2>2, <3>1, <3>2 DEF WellFormed
        <3>4. data = [storage EXCEPT !.prints = [storage.prints EXCEPT ![i] = e]]
            BY <2>7 DEF used
        <3> QED
            BY <2>5, <3>3, <3>4
    <2>8. CASE data = [storage EXCEPT !.prints[i] = [c \in DOMAIN @ |->
                                                        [r \in 1 .. MaxRows + 1 |-> 1]]]
        <3> DEFINE e == [c \in DOMAIN used |-> [r \in 1 .. MaxRows + 1 |-> 1]]
        <3>1. e.x = [r \in 1 .. MaxRows + 1 |-> 1]
            BY <2>3
        <3>2. Len(e.x) = MaxRows + 1 /\ ~(MaxRows + 1 <= MaxRows)
            BY <3>1, MaxRowsAssumption
        <3>3. ~WellFormed(e)
            BY <3>2 DEF WellFormed
        <3>4. data = [storage EXCEPT !.prints = [storage.prints EXCEPT ![i] = e]]
            BY <2>8 DEF used
        <3> QED
            BY <2>5, <3>3, <3>4
    <2> QED
        BY <1>6, <2>6, <2>7, <2>8
<1> QED
    BY <1>4, <1>5, <1>6 DEF Damages

-----------------------------------------------------------------------------
(* Steps *)

\* What a user prepares for a device is a print.
LEMMA DescribedPrint ==
    ASSUME NEW device \in Devices, NEW m \in Metadata
    PROVE  LET print == Described(NewPrint(device), m)
               described ==
                   [type |-> "UNDEFINED", driver |-> device.driver, device_id |-> device.id,
                    device_stored |-> FALSE, finger |-> m.finger, username |-> m.username,
                    enroll_date |-> m.enroll_date, data |-> None, prints |-> <<>>]
           IN  print = described /\ GenerateUserId(print) = GenerateUserId(m)
<1> DEFINE new == NewPrint(device)
           f == m.finger
           u == m.username
           d == m.enroll_date
           described == [type |-> "UNDEFINED", driver |-> device.driver, device_id |-> device.id,
                         device_stored |-> FALSE, finger |-> f, username |-> u,
                         enroll_date |-> d, data |-> None, prints |-> <<>>]
<1>1. Described(new, m) = [new EXCEPT !.finger = f, !.username = u, !.enroll_date = d]
    BY DEF Described
<1> HIDE DEF f, u, d
<1>2. [new EXCEPT !.finger = f, !.username = u, !.enroll_date = d] = described
    <2> DEFINE zero == 0
               no == FALSE
               fresh == [type |-> "UNDEFINED", driver |-> device.driver,
                         device_id |-> device.id, device_stored |-> no, finger |-> zero,
                         username |-> None, enroll_date |-> None, data |-> None,
                         prints |-> <<>>]
    <2>1. new = fresh
        BY DEF NewPrint
    <2> HIDE DEF zero, no, new
    <2> DEFINE a == [new EXCEPT !.finger = f]
               b == [a EXCEPT !.username = u]
               c == [b EXCEPT !.enroll_date = d]
    <2>2. a = [fresh EXCEPT !.finger = f]
        BY <2>1
    <2>3. a = [type |-> "UNDEFINED", driver |-> device.driver,
               device_id |-> device.id, device_stored |-> no, finger |-> f,
               username |-> None, enroll_date |-> None, data |-> None, prints |-> <<>>]
        BY <2>2
    <2> HIDE DEF a
    <2>4. b = [type |-> "UNDEFINED", driver |-> device.driver,
               device_id |-> device.id, device_stored |-> no, finger |-> f,
               username |-> u, enroll_date |-> None, data |-> None, prints |-> <<>>]
        BY <2>3
    <2> HIDE DEF b
    <2>5. c = [type |-> "UNDEFINED", driver |-> device.driver,
               device_id |-> device.id, device_stored |-> no, finger |-> f,
               username |-> u, enroll_date |-> d, data |-> None, prints |-> <<>>]
        BY <2>4
    <2> HIDE DEF c
    <2>6. c = described
        BY <2>5 DEF no
    <2> QED
        BY <2>6 DEF a, b, c
<1>3. described.finger = f /\ described.username = u /\ described.enroll_date = d
    OBVIOUS
<1> HIDE DEF new, described
<1>4. GenerateUserId(described) = GenerateUserId(m)
    BY <1>3 DEF GenerateUserId, f, u, d
<1> QED
    BY <1>1, <1>2, <1>4 DEF new, described, f, u, d

\* The date a user gives is one of a print.
LEMMA DateOfUser == \A m \in Metadata : m.enroll_date \in {None} \union (1 .. FarDate)
BY MetadataAssumption DEF FarDate

\* An enroll operation starts with a print of no stage.
LEMMA StartIsPrint ==
    ASSUME NEW device \in Devices, NEW m \in Metadata
    PROVE  LET print == SetType(Described(NewPrint(device), m), "NBIS")
           IN  print \in Prints /\ print.type = "NBIS"
<1> DEFINE print == SetType(Described(NewPrint(device), m), "NBIS")
           made == [type |-> "NBIS", driver |-> device.driver, device_id |-> device.id,
                    device_stored |-> FALSE, finger |-> m.finger, username |-> m.username,
                    enroll_date |-> m.enroll_date, data |-> None, prints |-> <<>>]
           new == Described(NewPrint(device), m)
<1>0. new = [type |-> "UNDEFINED", driver |-> device.driver, device_id |-> device.id,
             device_stored |-> FALSE, finger |-> m.finger, username |-> m.username,
             enroll_date |-> m.enroll_date, data |-> None, prints |-> <<>>]
    BY DescribedPrint
<1> HIDE DEF new
<1>1. SetType(new, "NBIS") = made
    BY <1>0 DEF SetType
<1>2. made \in Prints
    BY DateOfUser DEF Prints
<1>3. made.type = "NBIS"
    OBVIOUS
<1> HIDE DEF made
<1> QED
    BY <1>1, <1>2, <1>3 DEF new

\* A device enrolls a print without minutiae.
LEMMA DevicePrint ==
    ASSUME NEW device \in Devices, NEW m \in Metadata, EnrollOnDevice(device, m)
    PROVE  template' \in Prints /\ template'.type = "RAW" /\ template'.prints = <<>>
<1> DEFINE made == [type |-> "RAW", driver |-> device.driver, device_id |-> device.id,
                    device_stored |-> TRUE, finger |-> m.finger, username |-> m.username,
                    enroll_date |-> m.enroll_date, data |-> GenerateUserId(m), prints |-> <<>>]
           new == Described(NewPrint(device), m)
<1>0. /\ new = [type |-> "UNDEFINED", driver |-> device.driver, device_id |-> device.id,
                device_stored |-> FALSE, finger |-> m.finger, username |-> m.username,
                enroll_date |-> m.enroll_date, data |-> None, prints |-> <<>>]
      /\ GenerateUserId(new) = GenerateUserId(m)
    BY DescribedPrint
<1>a. template' = [SetType(new, "RAW") EXCEPT !.device_stored = TRUE, !.data = GenerateUserId(new)]
    BY DEF EnrollOnDevice
<1> HIDE DEF new
<1> DEFINE id == GenerateUserId(m)
           raw == [type |-> "RAW", driver |-> device.driver, device_id |-> device.id,
                   device_stored |-> FALSE, finger |-> m.finger, username |-> m.username,
                   enroll_date |-> m.enroll_date, data |-> None, prints |-> <<>>]
<1>b. SetType(new, "RAW") = raw
    BY <1>0 DEF SetType
<1>c. template' = [raw EXCEPT !.device_stored = TRUE, !.data = id]
    BY <1>0, <1>a, <1>b
<1> HIDE DEF id
<1>1. template' = made
    BY <1>c DEF id
<1>2. made \in Prints
    BY DateOfUser DEF Prints
<1> QED
    BY <1>1, <1>2

\* A stage adds the minutiae of its image.
LEMMA StageIsAdded ==
    ASSUME template \in Prints, template.type = "NBIS", NEW minutiae \in Minutiae \ {<<>>}
    PROVE  LET print == AddPrint(template, ScanOf(minutiae))
           IN  print \in Prints /\ print.type = "NBIS"
<1> DEFINE xyt == MinutiaeToXyt(minutiae)
           more == Append(template.prints, xyt)
<1>1. ScanOf(minutiae).prints = <<xyt>>
    BY DEF ScanOf, AddFromImage, SetType, NewPrint
<1>2. AddPrint(template, ScanOf(minutiae)) = [template EXCEPT !.prints = more]
    BY <1>1 DEF AddPrint
<1>3. xyt \in Xyts /\ template.prints \in Seq(Xyts)
    BY DEF Xyts, Prints
<1> HIDE DEF xyt
<1>4. more \in Seq(Xyts)
    BY <1>3
<1> HIDE DEF more
<1>5. [template EXCEPT !.prints = more] \in Prints
    BY <1>4 DEF Prints, Xyts
<1>6. [template EXCEPT !.prints = more].type = "NBIS"
    BY DEF Prints
<1> QED
    BY <1>2, <1>5, <1>6

\* NULL is neither a print nor an error.
LEMMA NoneIsNoPrint == None \notin Prints /\ None # "INVALID_DATA"
BY NoneAssumption

-----------------------------------------------------------------------------
(* The invariant *)

\* A step that answers no call to storage keeps the invariant if it keeps storage.
LEMMA OthersKeep ==
    ASSUME PathInv, UNCHANGED <<storage, kept>>, answer'.call \notin {"load", "list", "abort"},
           template' \in Prints \union {None},
           template' # None /\ template'.type = "RAW" => template'.prints = <<>>
    PROVE  PathInv'
<1>1. StoredPrintIsKept'
    BY DEF StoredPrintIsKept
<1> QED
    BY <1>1 DEF PathInv, Serialize, Readable, WellFormed

LEMMA StageKeeps ==
    ASSUME PathInv, NEW minutiae \in Minutiae, EnrollStage(minutiae)
    PROVE  PathInv'
<1>1. /\ UNCHANGED <<storage, kept>> /\ answer' = Idle
      /\ template \in Prints /\ template.type = "NBIS"
    BY DEF EnrollStage, PathInv
<1>2. CASE minutiae # <<>>
    <2>1. template' = AddPrint(template, ScanOf(minutiae))
        BY <1>2 DEF EnrollStage
    <2>2. template' \in Prints /\ template'.type = "NBIS"
        BY <1>1, <1>2, <2>1, StageIsAdded
    <2> QED
        BY <1>1, <2>2, OthersKeep DEF Idle
<1>3. CASE minutiae = <<>>
    <2>1. UNCHANGED template
        BY <1>3 DEF EnrollStage
    <2> QED
        BY <1>1, <2>1, OthersKeep DEF Idle
<1> QED
    BY <1>2, <1>3

LEMMA StoreKeeps == ASSUME PathInv, Store PROVE PathInv'
<1>1. /\ template \in Prints /\ storage' = Serialize(template) /\ kept' = template
      /\ template' = None /\ answer' = Idle
      /\ template.type = "RAW" => template.prints = <<>>
    BY DEF Store, Complete, PathInv
<1>2. StoredPrintIsKept'
    BY <1>1 DEF StoredPrintIsKept, Idle
<1>3. kept' # None /\ storage' = Serialize(kept')
    BY <1>1, NoneIsNoPrint
<1> QED
    BY <1>1, <1>2, <1>3 DEF PathInv, Serialize

LEMMA DamageKeeps ==
    ASSUME PathInv, NEW data \in Damages, Damage(data)
    PROVE  PathInv'
<1>1. /\ kept \in Prints /\ storage = Serialize(kept) /\ template = None
      /\ kept.type = "RAW" => kept.prints = <<>>
    BY DEF Damage, PathInv
<1>2. /\ storage' = data /\ kept' = None /\ answer' = Idle /\ template' = None
    BY <1>1 DEF Damage
<1>3. ~Readable(data)
    BY <1>1, DamagesAreFound
<1>4. ~Readable(storage')
    BY <1>2, <1>3
<1>5. StoredPrintIsKept'
    BY <1>2 DEF StoredPrintIsKept, Idle
<1> QED
    BY <1>2, <1>4, <1>5 DEF PathInv, Readable, WellFormed

LEMMA LoadKeeps == ASSUME PathInv, Load PROVE PathInv'
<1>1. /\ storage # None /\ UNCHANGED <<storage, kept>>
      /\ template' = Deserialize(storage).print
      /\ answer' = [call |-> "load", print |-> Deserialize(storage).print,
                    error |-> Deserialize(storage).error]
    BY DEF Load
<1>2. CASE kept = None
    <2>1. ~Readable(storage)
        BY <1>1, <1>2 DEF PathInv
    <2> DEFINE error == IF storage.header = "FP3" /\ UnknownType(storage) THEN None
                        ELSE "INVALID_DATA"
    <2>2. template' = None /\ answer' = [call |-> "load", print |-> None, error |-> error]
        BY <1>1, <2>1 DEF Deserialize
    <2>3. StoredPrintIsKept'
        <3>1. /\ answer'.call = "load" /\ answer'.print = None /\ kept' = None
              /\ answer'.error = error /\ storage' = storage
            BY <1>1, <1>2, <2>2
        <3>2. error = None <=> storage.header = "FP3" /\ UnknownType(storage)
            BY NoneIsNoPrint
        <3> HIDE DEF error
        <3> QED
            BY <3>1, <3>2 DEF StoredPrintIsKept, UnknownType
    <2>4. ~Readable(storage')
        BY <1>1, <2>1
    <2> QED
        BY <1>1, <1>2, <2>2, <2>3, <2>4 DEF PathInv
<1>3. CASE kept # None
    <2> DEFINE read == Deserialize(storage)
    <2>1. /\ kept \in Prints /\ storage = Serialize(kept)
          /\ kept.type = "RAW" => kept.prints = <<>>
        BY <1>3 DEF PathInv
    <2>2. /\ read.error = None /\ read.print \in Prints
          /\ Equal(read.print, kept) /\ SameMetadata(kept, read.print)
          /\ read.print.prints = kept.prints /\ read.print.type = kept.type
        BY <2>1, PrintIsRestored
    <2>3. read.print # None
        BY <2>2, NoneIsNoPrint
    <2> HIDE DEF read
    <2>4. /\ answer'.call = "load" /\ answer'.print = read.print /\ answer'.error = read.error
          /\ template' = read.print /\ kept' = kept
        BY <1>1 DEF read
    <2>5. StoredPrintIsKept'
        <3>1. Equal(answer'.print, kept') /\ SameMetadata(kept', answer'.print)
            BY <2>2, <2>3, <2>4
        <3>2. answer'.print # None /\ answer'.error = None
            BY <2>2, <2>3, <2>4
        <3> QED
            BY <1>3, <2>4, <3>1, <3>2 DEF StoredPrintIsKept, Equal, SameMetadata
    <2>6. storage' = Serialize(kept')
        BY <1>1, <2>1
    <2> QED
        BY <1>3, <2>1, <2>2, <2>4, <2>5, <2>6 DEF PathInv, Serialize
<1> QED
    BY <1>2, <1>3

LEMMA ListKeeps == ASSUME PathInv, List PROVE PathInv'
<1>1. /\ UNCHANGED <<template, storage, kept>> /\ template.type = "RAW"
      /\ answer' = [call |-> "list", print |-> Listed(template)]
    BY DEF List
<1>2. Equal(Listed(template), template)
    BY <1>1 DEF Listed, FillFromUserId, SetType, NewPrint, Equal
<1>3. answer'.call = "list" /\ answer'.print = Listed(template)
    BY <1>1
<1>4. Equal(answer'.print, template')
    BY <1>1, <1>2, <1>3
<1>5. StoredPrintIsKept'
    BY <1>3, <1>4 DEF StoredPrintIsKept, Equal
<1> QED
    BY <1>1, <1>5 DEF PathInv, Serialize, Readable, WellFormed

\* The program is not ended by data that nobody else wrote.
LEMMA AbortKeeps == ASSUME PathInv, LoadAborts PROVE PathInv'
<1>1. /\ UNCHANGED <<template, storage, kept>> /\ answer' = [call |-> "abort"]
      /\ storage.header = "short"
    BY DEF LoadAborts, TooShort
<1>2. kept = None
    <2>1. SUFFICES ASSUME kept # None PROVE FALSE
        OBVIOUS
    <2>2. storage.header = "FP3"
        BY <2>1 DEF PathInv, Serialize
    <2> QED
        BY <1>1, <2>2
<1>3. StoredPrintIsKept'
    BY <1>1, <1>2 DEF StoredPrintIsKept
<1> QED
    BY <1>1, <1>2, <1>3 DEF PathInv, Readable, WellFormed

LEMMA NextKeepsPathInv == ASSUME PathInv, [Next]_vars PROVE PathInv'
<1>1. ASSUME NEW places, SwipeFrames(places) PROVE PathInv'
    BY <1>1, OthersKeep DEF SwipeFrames, Idle, PathInv
<1>2. ASSUME NEW lines, NEW offsets, SwipeLines(offsets, lines) PROVE PathInv'
    BY <1>2, OthersKeep DEF SwipeLines, Idle, PathInv
<1>3. CASE Touch
    BY <1>3, OthersKeep DEF Touch, Idle, PathInv
<1>4. ASSUME NEW device \in Devices, NEW m \in Metadata, StartEnroll(device, m) PROVE PathInv'
    <2>1. template' \in Prints /\ template'.type = "NBIS"
        BY <1>4, StartIsPrint DEF StartEnroll
    <2> QED
        BY <1>4, <2>1, OthersKeep DEF StartEnroll, Idle
<1>5. ASSUME NEW device \in Devices, NEW m \in Metadata, EnrollOnDevice(device, m) PROVE PathInv'
    <2>1. template' \in Prints /\ template'.prints = <<>>
        BY <1>5, DevicePrint
    <2> QED
        BY <1>5, <2>1, OthersKeep DEF EnrollOnDevice, Idle
<1>6. ASSUME NEW minutiae \in Minutiae, EnrollStage(minutiae) PROVE PathInv'
    BY <1>6, StageKeeps
<1>7. ASSUME NEW minutiae \in Minutiae, Verify(minutiae) PROVE PathInv'
    BY <1>7, OthersKeep DEF Verify, PathInv
<1>8. ASSUME NEW device \in Devices, UpdatePrint(device) PROVE PathInv'
    <2>1. UNCHANGED <<template, storage, kept>> /\ answer'.call \notin {"load", "list", "abort"}
        BY <1>8 DEF UpdatePrint, Idle
    <2> QED
        BY <2>1, OthersKeep DEF PathInv
<1>9. ASSUME NEW data \in Damages, Damage(data) PROVE PathInv'
    BY <1>9, DamageKeeps
<1>10. CASE UNCHANGED vars
    BY <1>10 DEF vars, PathInv, StoredPrintIsKept, Serialize, Readable, WellFormed, Equal,
                 SameMetadata, UnknownType
<1> QED
    BY <1>1, <1>2, <1>3, <1>4, <1>5, <1>6, <1>7, <1>8, <1>9, <1>10, StoreKeeps, LoadKeeps,
       AbortKeeps, ListKeeps DEF Next

LEMMA InitiallyPathInv == Init => PathInv
BY DEF Init, PathInv, StoredPrintIsKept, Idle

\* For all minutiae, devices, metadata and numbers of stages: fp_print_deserialize gives the
\* print that was stored if nobody else wrote there, with what the user said of it, and ends no
\* program then; none of the damages of storage (Damages) is taken for a print, and each that
\* does not end the program is answered with an error, but for an unknown type, for which
\* there is neither a print nor an error; and the prints a device lists
\* (fpi_print_fill_from_user_id) are those it enrolled.
THEOREM StoredPrintIsKeptCorrect == Spec => []StoredPrintIsKept
<1>1. PathInv /\ [Next]_vars => PathInv'
    BY NextKeepsPathInv
<1>2. PathInv => StoredPrintIsKept
    BY DEF PathInv
<1> QED
    BY <1>1, <1>2, InitiallyPathInv, PTL DEF Spec

-----------------------------------------------------------------------------
(* The order of the minutiae *)

Images == Minutiae \ {<<>>}
UsedRows(m) == 1 .. NMin(m)
Part(m) == {m[i] : i \in UsedRows(m)}

\* The rows of a print are those of minutiae of the image.
LEMMA RowsAreMinutiae ==
    ASSUME NEW m \in Images
    PROVE  /\ NMin(m) \in Nat \ {0} /\ UsedRows(m) \subseteq DOMAIN m
           /\ \A i \in UsedRows(m) : m[i] \in [x : Nat, y : Nat, theta : 0 .. 359]
           /\ SubSeq(m, 1, NMin(m)) = [i \in UsedRows(m) |-> m[i]]
<1> DEFINE n == IF Len(m) <= MaxRows THEN Len(m) ELSE MaxRows
<1>1. NMin(m) = n
    BY NMinOfTwo DEF Images
<1>2. n \in Nat \ {0} /\ n <= Len(m)
    BY NMinOfTwo DEF Images
<1> HIDE DEF n
<1>3. m \in Seq([x : Nat, y : Nat, theta : 0 .. 359])
    BY MinutiaeAssumption DEF Images
<1>4. UsedRows(m) = 1 .. n
    BY <1>1 DEF UsedRows
<1>5. 1 .. n \subseteq DOMAIN m
    BY <1>2, <1>3
<1>6. \A i \in 1 .. n : m[i] \in [x : Nat, y : Nat, theta : 0 .. 359]
    <2> DEFINE S == [x : Nat, y : Nat, theta : 0 .. 359]
    <2>1. m \in Seq(S)
        BY <1>3
    <2> HIDE DEF S
    <2>2. \A i \in 1 .. n : m[i] \in S
        BY <1>5, <2>1
    <2> QED
        BY <2>2 DEF S
<1>7. SubSeq(m, 1, n) = [i \in 1 .. n |-> m[i]]
    BY <1>2, <1>3
<1> QED
    BY <1>1, <1>2, <1>4, <1>5, <1>6, <1>7

\* Of two minutiae of an image one is before the other.
LEMMA EarlierIsAnOrder ==
    ASSUME PlacesDiffer, NEW m \in Images
    PROVE  /\ \A i, j \in UsedRows(m) :
                  i # j => Earlier(m[i], m[j]) \/ Earlier(m[j], m[i])
           /\ \A i, j \in UsedRows(m) : ~(Earlier(m[i], m[j]) /\ Earlier(m[j], m[i]))
           /\ \A i, j, k \in UsedRows(m) :
                  Earlier(m[i], m[j]) /\ Earlier(m[j], m[k]) => Earlier(m[i], m[k])
<1>1. \A i \in UsedRows(m) : i \in DOMAIN m /\ m[i].x \in Nat /\ m[i].y \in Nat
    BY RowsAreMinutiae
<1>2. \A i, j \in UsedRows(m) : i # j => m[i].x # m[j].x \/ m[i].y # m[j].y
    BY <1>1 DEF PlacesDiffer, Images
<1> QED
    BY <1>1, <1>2 DEF Earlier

\* The order that SortXY chooses exists: a minutia has as its place the number of those
\* before it.
LEMMA SomeOrderSorts ==
    ASSUME PlacesDiffer, NEW m \in Images
    PROVE  \E p \in Bijection(UsedRows(m), UsedRows(m)) :
               \A i, j \in UsedRows(m) : i < j => ~Earlier(m[p[j]], m[p[i]])
<1> DEFINE n == NMin(m)
           R == UsedRows(m)
           Ahead(i) == {j \in R : Earlier(m[j], m[i])}
           place == [i \in R |-> Cardinality(Ahead(i)) + 1]
<1>1. n \in Nat /\ R = 1 .. n /\ IsFiniteSet(R) /\ Cardinality(R) = n
    <2>1. n \in Nat /\ R = 1 .. n
        BY RowsAreMinutiae DEF UsedRows
    <2> HIDE DEF n, R
    <2> QED
        BY <2>1, FS_Interval
<1>2. \A i \in R : i \notin Ahead(i) /\ Ahead(i) \subseteq R
    BY EarlierIsAnOrder
<1>3. \A i \in R : IsFiniteSet(Ahead(i)) /\ Cardinality(Ahead(i)) \in Nat
                   /\ Cardinality(Ahead(i)) < n
    <2> TAKE i \in R
    <2> HIDE DEF Ahead, R, n
    <2>1. Ahead(i) \subseteq R /\ Ahead(i) # R
        BY <1>2
    <2> QED
        BY <1>1, <2>1, FS_Subset, FS_CardinalityType
<1>4. \A i, j \in R : Earlier(m[i], m[j]) => Cardinality(Ahead(i)) < Cardinality(Ahead(j))
    <2> SUFFICES ASSUME NEW i \in R, NEW j \in R, Earlier(m[i], m[j])
                 PROVE  Cardinality(Ahead(i)) < Cardinality(Ahead(j))
        OBVIOUS
    <2>1. Ahead(i) \subseteq Ahead(j) /\ i \in Ahead(j) /\ i \notin Ahead(i)
        BY <1>2, EarlierIsAnOrder
    <2> HIDE DEF Ahead
    <2> QED
        BY <1>3, <2>1, FS_Subset, FS_CardinalityType
<1>5. place \in [R -> R] /\ \A i \in R : place[i] = Cardinality(Ahead(i)) + 1
    <2> HIDE DEF Ahead
    <2>1. \A i \in R : Cardinality(Ahead(i)) + 1 \in R
        BY <1>1, <1>3
    <2> HIDE DEF R
    <2> QED
        BY <2>1
<1>6. \A i, j \in R : Earlier(m[i], m[j]) => place[i] < place[j]
    <2> HIDE DEF Ahead, place
    <2> QED
        BY <1>3, <1>4, <1>5
<1>7. \A i, j \in R : i # j => place[i] # place[j]
    <2>1. \A i, j \in R : i # j => Earlier(m[i], m[j]) \/ Earlier(m[j], m[i])
        BY EarlierIsAnOrder
    <2>2. \A i \in R : place[i] \in Nat
        BY <1>1, <1>5
    <2> HIDE DEF place, R
    <2> QED
        BY <1>6, <2>1, <2>2
<1> HIDE DEF place, Ahead
<1>8. \A k \in R : \E i \in R : place[i] = k
    <2> DEFINE T == {place[i] : i \in R}
    <2>1. T \subseteq R
        BY <1>5
    <2>2. place \in Injection(R, T) /\ place \in Surjection(R, T)
        BY <1>5, <1>7 DEF Injection, Surjection, IsInjective
    <2> HIDE DEF T, R, n
    <2>3. IsFiniteSet(T) /\ Cardinality(T) = Cardinality(R)
        BY <1>1, <2>2, FS_Surjection
    <2>4. T = R
        BY <1>1, <2>1, <2>3, FS_Subset, FS_CardinalityType
    <2> QED
        BY <2>4 DEF T
<1> DEFINE p == [k \in R |-> CHOOSE i \in R : place[i] = k]
<1>9. \A k \in R : p[k] \in R /\ place[p[k]] = k
    <2> HIDE DEF R
    <2> QED
        BY <1>8
<1>10. \A i \in R : p[place[i]] = i
    <2>1. \A i \in R : place[i] \in R
        BY <1>5
    <2> HIDE DEF p, R
    <2> QED
        BY <1>7, <1>9, <2>1
<1>11. p \in [R -> R]
    <2>1. p = [k \in R |-> p[k]]
        OBVIOUS
    <2> HIDE DEF p, R
    <2> QED
        BY <1>9, <2>1
<1> HIDE DEF p
<1>12. p \in Bijection(R, R)
    <2> HIDE DEF R
    <2>1. \A i, j \in R : p[i] = p[j] => i = j
        BY <1>9
    <2>2. \A i \in R : \E k \in R : p[k] = i
        BY <1>5, <1>10
    <2> QED
        BY <1>11, <2>1, <2>2 DEF Bijection, Injection, Surjection, IsInjective
<1>13. \A i, j \in R : i < j => ~Earlier(m[p[j]], m[p[i]])
    <2> SUFFICES ASSUME NEW i \in R, NEW j \in R, i < j, Earlier(m[p[j]], m[p[i]])
                 PROVE  FALSE
        OBVIOUS
    <2>1. place[p[j]] < place[p[i]]
        <3> HIDE DEF R
        <3> QED
            BY <1>6, <1>9
    <2>2. j < i
        BY <1>9, <2>1
    <2> QED
        BY <1>1, <2>2
<1> QED
    BY <1>12, <1>13

\* The sorted rows hold each minutia once, one after the other in their order.
LEMMA RowsAreSorted ==
    ASSUME PlacesDiffer, NEW m \in Images
    PROVE  LET c == SortXY(m)
           IN  /\ c = [r \in UsedRows(m) |-> c[r]]
               /\ \A r \in UsedRows(m) : c[r] \in Part(m)
               /\ \A e \in Part(m) : \E r \in UsedRows(m) : c[r] = e
               /\ \A r, s \in UsedRows(m) : r < s => Earlier(c[r], c[s]) /\ ~Earlier(c[s], c[r])
<1> DEFINE R == UsedRows(m)
           Sorts(p) == \A i, j \in R : i < j => ~Earlier(m[p[j]], m[p[i]])
           order == CHOOSE p \in Bijection(R, R) : Sorts(p)
           c == [r \in R |-> m[order[r]]]
<1>1. SortXY(m) = c
    BY DEF SortXY, UsedRows
<1>2. order \in Bijection(R, R) /\ Sorts(order)
    <2>1. \E p \in Bijection(R, R) : Sorts(p)
        BY SomeOrderSorts
    <2> HIDE DEF R, Sorts
    <2> QED
        BY <2>1
<1> HIDE DEF order
<1>3. /\ \A r \in R : order[r] \in R
      /\ \A r, s \in R : order[r] = order[s] => r = s
      /\ \A i \in R : \E r \in R : order[r] = i
    <2> HIDE DEF R
    <2> QED
        BY <1>2 DEF Bijection, Injection, Surjection, IsInjective
<1>4. \A r \in R : c[r] = m[order[r]]
    OBVIOUS
<1>5. \A r, s \in R : r < s => ~Earlier(c[s], c[r])
    BY <1>2
<1>6. \A r \in R : r \in Nat
    BY RowsAreMinutiae DEF UsedRows
<1>7. \A i, j \in R : i # j => Earlier(m[i], m[j]) \/ Earlier(m[j], m[i])
    BY EarlierIsAnOrder
<1>8. \A r, s \in R : r < s => Earlier(c[r], c[s])
    <2> SUFFICES ASSUME NEW r \in R, NEW s \in R, r < s
                 PROVE  Earlier(c[r], c[s])
        OBVIOUS
    <2>1. r # s
        BY <1>6
    <2>2. order[r] # order[s] /\ order[r] \in R /\ order[s] \in R
        BY <1>3, <2>1
    <2> HIDE DEF c
    <2> QED
        BY <1>4, <1>5, <1>7, <2>2
<1>9. c = [r \in R |-> c[r]]
    OBVIOUS
<1>10. (\A r \in R : c[r] \in Part(m)) /\ \A e \in Part(m) : \E r \in R : c[r] = e
    <2> HIDE DEF c, R
    <2> QED
        BY <1>3, <1>4 DEF Part, R
<1> HIDE DEF c
<1> QED
    BY <1>1, <1>5, <1>8, <1>9, <1>10

\* The place of a minutia in the rows is the number of those before it.
LEMMA PlaceIsRank ==
    ASSUME PlacesDiffer, NEW m \in Images, NEW r \in UsedRows(m)
    PROVE  Cardinality({e \in Part(m) : Earlier(e, SortXY(m)[r])}) = r - 1
<1> DEFINE c == SortXY(m)
           R == UsedRows(m)
           before == {e \in Part(m) : Earlier(e, c[r])}
           first == 1 .. (r - 1)
           f == [s \in first |-> c[s]]
<1>1. /\ \A s \in R : c[s] \in Part(m)
      /\ \A e \in Part(m) : \E s \in R : c[s] = e
      /\ \A s, t \in R : s < t => Earlier(c[s], c[t]) /\ ~Earlier(c[t], c[s])
    BY RowsAreSorted
<1>2. r \in Nat \ {0} /\ first \subseteq R /\ (\A s \in first : s < r)
         /\ \A s \in R : s \in Nat /\ (s \in first \/ s = r \/ r < s)
    BY RowsAreMinutiae DEF UsedRows
<1>3. ~Earlier(c[r], c[r])
    <2>1. \A i, j \in R : ~(Earlier(m[i], m[j]) /\ Earlier(m[j], m[i]))
        BY EarlierIsAnOrder
    <2>2. \E i \in R : c[r] = m[i]
        BY <1>1 DEF Part
    <2> HIDE DEF c
    <2> QED
        BY <2>1, <2>2
<1> HIDE DEF c
<1>4. \A s \in first : c[s] \in before
    BY <1>1, <1>2
<1>5. \A e \in before : \E s \in first : c[s] = e
    <2> SUFFICES ASSUME NEW e \in before PROVE \E s \in first : c[s] = e
        OBVIOUS
    <2>1. PICK s \in R : c[s] = e
        BY <1>1
    <2>2. Earlier(c[s], c[r])
        BY <2>1
    <2>3. s \in first
        BY <1>1, <1>2, <1>3, <2>2
    <2> QED
        BY <2>1, <2>3
<1>6. \A s, t \in first : c[s] = c[t] => s = t
    <2> SUFFICES ASSUME NEW s \in first, NEW t \in first, c[s] = c[t] PROVE s = t
        OBVIOUS
    <2>1. s \in R /\ t \in R /\ s \in Nat /\ t \in Nat
        BY <1>2
    <2>2. ~(s < t) /\ ~(t < s)
        <3> HIDE DEF R, first
        <3> QED
            BY <1>1, <2>1
    <2> QED
        BY <2>1, <2>2
<1> HIDE DEF before
<1>7. f \in Bijection(first, before)
    <2> HIDE DEF first
    <2> QED
        BY <1>4, <1>5, <1>6 DEF Bijection, Injection, Surjection, IsInjective
<1>8. IsFiniteSet(first) /\ Cardinality(first) = r - 1
    <2>1. r - 1 \in Int /\ 1 \in Int /\ (1 > r - 1 => r - 1 = 0)
        BY <1>2
    <2>2. IsFiniteSet(first) /\ Cardinality(first) = IF 1 > r - 1 THEN 0 ELSE (r - 1) - 1 + 1
        BY <2>1, FS_Interval
    <2> HIDE DEF first
    <2> QED
        BY <1>2, <2>1, <2>2
<1> HIDE DEF first, f
<1>9. Cardinality(before) = Cardinality(first)
    BY <1>7, <1>8, FS_Surjection DEF Bijection
<1> QED
    BY <1>8, <1>9 DEF before, c

\* The same minutiae are sorted into the same rows, in whatever order they were found.
LEMMA SamePartSameRows ==
    ASSUME PlacesDiffer, NEW m \in Images, NEW k \in Images, Part(m) = Part(k)
    PROVE  NMin(m) = NMin(k) /\ SortXY(m) = SortXY(k)
<1> DEFINE c == SortXY(m)
           d == SortXY(k)
           P == Part(m)
           Rank(e) == Cardinality({a \in P : Earlier(a, e)})
<1>1. /\ c = [r \in UsedRows(m) |-> c[r]] /\ d = [r \in UsedRows(k) |-> d[r]]
      /\ \A r \in UsedRows(m) : c[r] \in P
      /\ \A r \in UsedRows(k) : d[r] \in P
      /\ \A e \in P : \E r \in UsedRows(m) : c[r] = e
      /\ \A e \in P : \E r \in UsedRows(k) : d[r] = e
    BY RowsAreSorted
<1>2. \A r \in UsedRows(m) : Rank(c[r]) = r - 1
    BY PlaceIsRank
<1>3. \A r \in UsedRows(k) : Rank(d[r]) = r - 1
    BY PlaceIsRank
<1>4. /\ NMin(m) \in Nat /\ UsedRows(m) = 1 .. NMin(m)
      /\ NMin(k) \in Nat /\ UsedRows(k) = 1 .. NMin(k)
    BY RowsAreMinutiae DEF UsedRows
<1>5. \A r \in UsedRows(m) \union UsedRows(k) : r \in Nat
    BY <1>4
<1> HIDE DEF c, d, P, Rank
<1>6. \A r \in UsedRows(m) : r \in UsedRows(k) /\ d[r] = c[r]
    <2> TAKE r \in UsedRows(m)
    <2>1. PICK s \in UsedRows(k) : d[s] = c[r]
        BY <1>1
    <2>2. r - 1 = s - 1
        BY <1>2, <1>3, <2>1
    <2>3. r = s
        BY <1>5, <2>2
    <2> QED
        BY <2>1, <2>3
<1>7. \A s \in UsedRows(k) : s \in UsedRows(m)
    <2> TAKE s \in UsedRows(k)
    <2>1. PICK r \in UsedRows(m) : c[r] = d[s]
        BY <1>1
    <2>2. r - 1 = s - 1
        BY <1>2, <1>3, <2>1
    <2>3. r = s
        BY <1>5, <2>2
    <2> QED
        BY <2>3
<1>8. UsedRows(m) = UsedRows(k)
    BY <1>6, <1>7
<1>9. NMin(m) = NMin(k)
    <2>1. 1 .. NMin(m) = 1 .. NMin(k)
        BY <1>4, <1>8
    <2>2. NMin(m) \in 1 .. NMin(m) /\ NMin(k) \in 1 .. NMin(k)
        BY RowsAreMinutiae
    <2> QED
        BY <1>4, <2>1, <2>2
<1>10. c = d
    BY <1>1, <1>6, <1>8
<1> QED
    BY <1>9, <1>10 DEF c, d

\* The numbers of degrees are told apart by their signed form.
LEMMA SignedIsInjective ==
    \A a, b \in 0 .. 359 : Signed(a) = Signed(b) => a = b
BY DEF Signed

\* What minutiae_to_xyt makes of two images is the same if and only if the minutiae are.
LEMMA SameStructureSamePart ==
    ASSUME PlacesDiffer, NEW m \in Images, NEW k \in Images
    PROVE  MinutiaeToXyt(m) = MinutiaeToXyt(k) <=> Part(m) = Part(k)
<1> DEFINE RowsOf(n, c) ==
               [nrows |-> n,
                xcol |-> [r \in 1 .. MaxRows |-> IF r <= n THEN c[r].x ELSE 0],
                ycol |-> [r \in 1 .. MaxRows |-> IF r <= n THEN c[r].y ELSE 0],
                thetacol |-> [r \in 1 .. MaxRows |-> IF r <= n THEN Signed(c[r].theta) ELSE 0]]
           c == SortXY(m)
           d == SortXY(k)
<1>1. /\ MinutiaeToXyt(m) = RowsOf(NMin(m), c)
      /\ MinutiaeToXyt(k) = RowsOf(NMin(k), d)
    BY DEF MinutiaeToXyt, Zeros
<1>2. Part(m) = Part(k) => MinutiaeToXyt(m) = MinutiaeToXyt(k)
    <2> SUFFICES ASSUME Part(m) = Part(k) PROVE MinutiaeToXyt(m) = MinutiaeToXyt(k)
        OBVIOUS
    <2>1. NMin(m) = NMin(k) /\ c = d
        BY SamePartSameRows
    <2> HIDE DEF c, d
    <2> QED
        BY <1>1, <2>1
<1>3. ASSUME MinutiaeToXyt(m) = MinutiaeToXyt(k) PROVE Part(m) = Part(k)
    <2> DEFINE n == NMin(m)
    <2>1. /\ c = [r \in UsedRows(m) |-> c[r]] /\ d = [r \in UsedRows(k) |-> d[r]]
          /\ \A r \in UsedRows(m) : c[r] \in Part(m)
          /\ \A r \in UsedRows(k) : d[r] \in Part(k)
          /\ \A e \in Part(m) : \E r \in UsedRows(m) : c[r] = e
          /\ \A e \in Part(k) : \E r \in UsedRows(k) : d[r] = e
        BY RowsAreSorted
    <2>2. n \in 1 .. MaxRows /\ MaxRows \in Nat
        BY MinIsBounded, MaxRowsAssumption DEF Images
    <2>3. /\ \A e \in Part(m) : e \in [x : Nat, y : Nat, theta : 0 .. 359]
          /\ \A e \in Part(k) : e \in [x : Nat, y : Nat, theta : 0 .. 359]
        <3>1. \A i \in UsedRows(m) : m[i] \in [x : Nat, y : Nat, theta : 0 .. 359]
            BY RowsAreMinutiae
        <3>2. \A i \in UsedRows(k) : k[i] \in [x : Nat, y : Nat, theta : 0 .. 359]
            BY RowsAreMinutiae
        <3> QED
            BY <3>1, <3>2 DEF Part
    <2> HIDE DEF c, d
    <2>4. NMin(k) = n
        BY <1>1, <1>3
    <2>5. UsedRows(m) = 1 .. n /\ UsedRows(k) = 1 .. n
        BY <2>4 DEF UsedRows
    <2> HIDE DEF n
    <2>6. \A r \in 1 .. n : r \in 1 .. MaxRows /\ r <= n
        BY <2>2
    <2> DEFINE X(col) == [r \in 1 .. MaxRows |-> IF r <= n THEN col[r].x ELSE 0]
               Y(col) == [r \in 1 .. MaxRows |-> IF r <= n THEN col[r].y ELSE 0]
               T(col) == [r \in 1 .. MaxRows |-> IF r <= n THEN Signed(col[r].theta) ELSE 0]
    <2>7. X(c) = X(d) /\ Y(c) = Y(d) /\ T(c) = T(d)
        <3>1. /\ MinutiaeToXyt(m).xcol = X(c) /\ MinutiaeToXyt(k).xcol = X(d)
              /\ MinutiaeToXyt(m).ycol = Y(c) /\ MinutiaeToXyt(k).ycol = Y(d)
              /\ MinutiaeToXyt(m).thetacol = T(c) /\ MinutiaeToXyt(k).thetacol = T(d)
            BY <1>1, <2>4 DEF n
        <3> HIDE DEF X, Y, T
        <3> QED
            BY <1>3, <3>1
    <2>8. \A r \in 1 .. n : /\ X(c)[r] = c[r].x /\ X(d)[r] = d[r].x
                            /\ Y(c)[r] = c[r].y /\ Y(d)[r] = d[r].y
                            /\ T(c)[r] = Signed(c[r].theta) /\ T(d)[r] = Signed(d[r].theta)
        BY <2>6
    <2> HIDE DEF X, Y, T
    <2>9. \A r \in 1 .. n : /\ c[r].x = d[r].x /\ c[r].y = d[r].y
                            /\ Signed(c[r].theta) = Signed(d[r].theta)
        BY <2>7, <2>8
    <2>10. \A r \in 1 .. n : /\ c[r] \in [x : Nat, y : Nat, theta : 0 .. 359]
                             /\ d[r] \in [x : Nat, y : Nat, theta : 0 .. 359]
        BY <2>1, <2>3, <2>5
    <2>11. \A r \in 1 .. n : c[r] = d[r]
        <3> TAKE r \in 1 .. n
        <3>1. c[r].theta \in 0 .. 359 /\ d[r].theta \in 0 .. 359
            BY <2>10
        <3>2. c[r].theta = d[r].theta
            BY <2>9, <3>1, SignedIsInjective
        <3> QED
            BY <2>9, <2>10, <3>2
    <2> QED
        BY <2>1, <2>5, <2>11
<1> QED
    BY <1>2, <1>3

\* The minutiae found in two images are the same if and only if they are as sets.
LEMMA FoundIsPart ==
    ASSUME PlacesDiffer, NEW m \in Images, NEW k \in Images
    PROVE  Found(m) = Found(k) <=> Part(m) = Part(k)
<1>1. ASSUME NEW image1 \in Images
      PROVE  Found(image1) = [e \in Part(image1) |-> 1]
    <2> DEFINE R == UsedRows(image1)
               s == [i \in R |-> image1[i]]
    <2>1. Found(image1) = ToBag(s)
        BY <1>1, RowsAreMinutiae DEF Found
    <2>2. DOMAIN s = R /\ (\A i \in R : s[i] = image1[i])
        OBVIOUS
    <2>3. Range(s) = Part(image1)
        BY <2>2 DEF Range, Part
    <2>4. \A i, j \in R : s[i] = s[j] => i = j
        <3>1. \A i \in R : i \in DOMAIN image1
            BY <1>1, RowsAreMinutiae
        <3> QED
            BY <1>1, <2>2, <3>1 DEF PlacesDiffer, Images
    <2> HIDE DEF s, R
    <2>5. \A e \in Part(image1) : Cardinality({i \in R : s[i] = e}) = 1
        <3> TAKE e \in Part(image1)
        <3>1. PICK j \in R : s[j] = e
            BY <2>2 DEF Part, R
        <3>2. {i \in R : s[i] = e} = {j}
            BY <2>4, <3>1
        <3> QED
            BY <3>2, FS_Singleton
    <2>6. ToBag(s) = [e \in Part(image1) |-> Cardinality({i \in R : s[i] = e})]
        BY <2>2, <2>3 DEF ToBag
    <2> QED
        BY <2>1, <2>5, <2>6
<1>2. Found(m) = [e \in Part(m) |-> 1] /\ Found(k) = [e \in Part(k) |-> 1]
    BY <1>1
<1>3. Found(m) = Found(k) => Part(m) = Part(k)
    <2>1. DOMAIN Found(m) = Part(m) /\ DOMAIN Found(k) = Part(k)
        BY <1>2
    <2> QED
        BY <2>1
<1> QED
    BY <1>2, <1>3

\* A scan has the minutiae of an image of the template when that image had them.
LEMMA SameFoundSameStructure ==
    ASSUME PlacesDiffer, NEW m \in Images, NEW k \in Images
    PROVE  Found(m) = Found(k) <=> MinutiaeToXyt(m) = MinutiaeToXyt(k)
BY FoundIsPart, SameStructureSamePart

-----------------------------------------------------------------------------
(* The template and what was scanned for it *)

\* A print holds the structures of exactly the minutiae that were scanned.
Holds(print) ==
    \A m \in Images :
        Found(m) \in enrolled <=> \E i \in DOMAIN print.prints : print.prints[i] = MinutiaeToXyt(m)

EnrolledInv ==
    /\ template # None /\ template.type = "NBIS" => Holds(template)
    /\ template = None /\ kept # None /\ kept.type = "NBIS" => Holds(kept)
    /\ EnrolledIsRecognised

\* A step that matches no scan keeps the invariant if it keeps what was enrolled.
LEMMA OthersKeepEnrolled ==
    ASSUME EnrolledInv, UNCHANGED <<template, enrolled, kept>>, answer'.call # "verify"
    PROVE  EnrolledInv'
<1>1. EnrolledIsRecognised'
    BY DEF EnrolledIsRecognised
<1> QED
    BY <1>1 DEF EnrolledInv, Holds

\* A print that holds nothing stands for no scan.
LEMMA NothingIsHeld ==
    ASSUME NEW print, print.prints = <<>>, enrolled = {}
    PROVE  Holds(print)
BY DEF Holds

\* A new operation starts with a print of no stage.
LEMMA StartHolds ==
    ASSUME NEW device \in Devices, NEW m \in Metadata, PathInv,
           StartEnroll(device, m) \/ EnrollOnDevice(device, m)
    PROVE  EnrolledInv'
<1>1. template' # None /\ template'.prints = <<>>
    <2>1. CASE StartEnroll(device, m)
        <3> DEFINE new == Described(NewPrint(device), m)
        <3>1. new.prints = <<>>
            BY DescribedPrint
        <3>2. template' = SetType(new, "NBIS")
            BY <2>1 DEF StartEnroll
        <3>3. template' \in Prints
            BY <3>2, StartIsPrint
        <3> HIDE DEF new
        <3>4. SetType(new, "NBIS").prints = <<>>
            <4>1. CASE new.type = "UNDEFINED"
                <5>1. DOMAIN [new EXCEPT !.type = "NBIS"] = DOMAIN new
                    OBVIOUS
                <5> QED
                    BY <3>1, <4>1 DEF SetType
            <4>2. CASE new.type # "UNDEFINED"
                BY <3>1, <4>2 DEF SetType
            <4> QED
                BY <4>1, <4>2
        <3> QED
            BY <3>2, <3>3, <3>4, NoneIsNoPrint
    <2>2. CASE EnrollOnDevice(device, m)
        BY <2>2, DevicePrint, NoneIsNoPrint
    <2> QED
        BY <2>1, <2>2
<1>2. enrolled' = {} /\ answer' = Idle
    BY DEF StartEnroll, EnrollOnDevice
<1>3. EnrolledIsRecognised'
    BY <1>2 DEF EnrolledIsRecognised, Idle
<1>4. Holds(template)'
    BY <1>1, <1>2 DEF Holds
<1> QED
    BY <1>1, <1>3, <1>4 DEF EnrolledInv

\* A stage adds to the template what it adds to what was scanned.
LEMMA StageIsHeld ==
    ASSUME PlacesDiffer, PathInv, EnrolledInv, NEW minutiae \in Minutiae, EnrollStage(minutiae)
    PROVE  EnrolledInv'
<1>1. /\ answer' = Idle /\ kept' = kept
      /\ template \in Prints /\ template.type = "NBIS" /\ Holds(template)
    BY DEF EnrollStage, PathInv, EnrolledInv
<1>2. CASE minutiae = <<>>
    <2>1. UNCHANGED <<template, enrolled>>
        BY <1>2 DEF EnrollStage
    <2> QED
        BY <1>1, <2>1, OthersKeepEnrolled DEF Idle
<1>3. CASE minutiae # <<>>
    <2> DEFINE xyt == MinutiaeToXyt(minutiae)
               n == Len(template.prints)
    <2>1. minutiae \in Images
        BY <1>3 DEF Images
    <2>2. /\ template' = AddPrint(template, ScanOf(minutiae))
          /\ enrolled' = enrolled \union {Found(minutiae)}
        BY <1>3 DEF EnrollStage
    <2>3. template' # None
        BY <1>1, <1>3, <2>2, StageIsAdded, NoneIsNoPrint
    <2>4. template'.prints = Append(template.prints, xyt)
        <3>1. ScanOf(minutiae).prints = <<xyt>>
            BY DEF ScanOf, AddFromImage, SetType, NewPrint
        <3> HIDE DEF xyt
        <3>2. template' = [template EXCEPT !.prints = Append(template.prints, xyt)]
            BY <2>2, <3>1 DEF AddPrint
        <3> QED
            BY <1>1, <3>2 DEF Prints
    <2>5. template.prints \in Seq(Xyts) /\ xyt \in Xyts
        BY <1>1, <1>3 DEF Prints, Xyts
    <2> HIDE DEF xyt
    <2>6. /\ n \in Nat /\ DOMAIN template.prints = 1 .. n
          /\ DOMAIN template'.prints = 1 .. n + 1
          /\ \A i \in 1 .. n : template'.prints[i] = template.prints[i]
          /\ template'.prints[n + 1] = xyt
        BY <2>4, <2>5
    <2> HIDE DEF n
    <2>7. \A m \in Images :
              Found(m) \in enrolled' <=> \E i \in 1 .. n + 1 : template'.prints[i] = MinutiaeToXyt(m)
        <3> TAKE m \in Images
        <3>1. Found(m) \in enrolled' <=> Found(m) \in enrolled \/ Found(m) = Found(minutiae)
            BY <2>2
        <3>2. Found(m) = Found(minutiae) <=> xyt = MinutiaeToXyt(m)
            BY <2>1, SameFoundSameStructure DEF xyt
        <3>3. Found(m) \in enrolled <=> \E i \in 1 .. n : template.prints[i] = MinutiaeToXyt(m)
            BY <1>1, <2>6 DEF Holds
        <3> DEFINE x == MinutiaeToXyt(m)
        <3> HIDE DEF x
        <3>4. (\E i \in 1 .. n + 1 : template'.prints[i] = x)
                  <=> (\E i \in 1 .. n : template.prints[i] = x) \/ xyt = x
            <4>1. \A i \in 1 .. n + 1 : i \in 1 .. n \/ i = n + 1
                BY <2>6
            <4>2. 1 .. n \subseteq 1 .. n + 1 /\ n + 1 \in 1 .. n + 1
                BY <2>6
            <4> QED
                BY <2>6, <4>1, <4>2
        <3> QED
            BY <3>1, <3>2, <3>3, <3>4 DEF x
    <2>8. Holds(template)'
        BY <2>6, <2>7 DEF Holds, Found, MinutiaeToXyt, SortXY, NMin, Earlier, Images
    <2>9. EnrolledIsRecognised'
        BY <1>1 DEF EnrolledIsRecognised, Idle
    <2> QED
        BY <2>3, <2>8, <2>9 DEF EnrolledInv
<1> QED
    BY <1>2, <1>3

\* What is stored and read back holds what the template did.
LEMMA StoreHolds ==
    ASSUME PathInv, EnrolledInv, Store PROVE EnrolledInv'
<1>1. /\ template # None /\ kept' = template /\ template' = None /\ enrolled' = enrolled
      /\ answer' = Idle
    BY DEF Store, Complete
<1>2. template.type = "NBIS" => Holds(template)
    BY <1>1 DEF EnrolledInv
<1>3. kept'.type = "NBIS" => Holds(kept)'
    BY <1>1, <1>2 DEF Holds
<1>4. EnrolledIsRecognised'
    BY <1>1 DEF EnrolledIsRecognised, Idle
<1> QED
    BY <1>1, <1>3, <1>4 DEF EnrolledInv

LEMMA LoadHolds ==
    ASSUME PathInv, EnrolledInv, Load PROVE EnrolledInv'
<1>1. /\ template = None /\ UNCHANGED <<kept, enrolled>> /\ answer'.call = "load"
      /\ template' = Deserialize(storage).print /\ storage # None
    BY DEF Load
<1>2. EnrolledIsRecognised'
    BY <1>1 DEF EnrolledIsRecognised
<1>3. CASE kept = None
    <2>1. ~Readable(storage)
        BY <1>1, <1>3 DEF PathInv
    <2>2. template' = None
        BY <1>1, <2>1 DEF Deserialize
    <2> QED
        BY <1>1, <1>2, <1>3, <2>2 DEF EnrolledInv
<1>4. CASE kept # None
    <2>1. /\ kept \in Prints /\ storage = Serialize(kept)
          /\ kept.type = "RAW" => kept.prints = <<>>
        BY <1>4 DEF PathInv
    <2>2. /\ template' \in Prints /\ template'.type = kept.type
          /\ template'.prints = kept.prints
        BY <1>1, <2>1, PrintIsRestored
    <2>3. template' # None
        BY <2>2, NoneIsNoPrint
    <2>4. template'.type = "NBIS" => Holds(kept)
        BY <1>1, <1>4, <2>2 DEF EnrolledInv
    <2>5. template'.type = "NBIS" => Holds(template)'
        BY <1>1, <2>2, <2>4 DEF Holds
    <2> QED
        BY <1>2, <2>3, <2>5 DEF EnrolledInv
<1> QED
    BY <1>3, <1>4

\* A scan is matched against each structure of the template.
LEMMA VerifyRecognises ==
    ASSUME PathInv, EnrolledInv, NEW minutiae \in Minutiae, Verify(minutiae)
    PROVE  EnrolledInv'
<1>1. /\ UNCHANGED <<template, enrolled, kept>> /\ template # None /\ template.type = "NBIS"
      /\ answer' = [call |-> "verify", minutiae |-> minutiae,
                    result |-> IF minutiae = <<>> THEN "RETRY"
                               ELSE Bz3Match(template, ScanOf(minutiae))]
    BY DEF Verify, Complete
<1>2. Holds(template)
    BY <1>1 DEF EnrolledInv
<1>3. ASSUME minutiae # <<>>
      PROVE  answer'.result = IF Found(minutiae) \in enrolled THEN "SUCCESS" ELSE "FAIL"
    <2> DEFINE xyt == MinutiaeToXyt(minutiae)
               scan == ScanOf(minutiae)
    <2>1. scan.prints = <<xyt>> /\ scan.type = "NBIS"
        BY DEF ScanOf, AddFromImage, SetType, NewPrint
    <2>2. Found(minutiae) \in enrolled
              <=> \E i \in DOMAIN template.prints : template.prints[i] = xyt
        BY <1>2, <1>3 DEF Holds, Images
    <2> HIDE DEF xyt, scan
    <2>3. Len(scan.prints) = 1 /\ scan.prints[1] = xyt
        BY <2>1
    <2>4. Bz3Match(template, scan) =
              IF \E i \in DOMAIN template.prints : xyt = template.prints[i]
              THEN "SUCCESS" ELSE "FAIL"
        BY <1>1, <2>1, <2>3 DEF Bz3Match, Score
    <2>5. answer'.result = Bz3Match(template, scan)
        BY <1>1, <1>3 DEF scan
    <2> QED
        BY <2>2, <2>4, <2>5
<1>4. EnrolledIsRecognised'
    <2>1. answer'.minutiae = minutiae
        BY <1>1
    <2>2. Found(answer'.minutiae) \in enrolled' <=> Found(minutiae) \in enrolled
        BY <1>1, <2>1
    <2>3. answer'.minutiae # <<>> => answer'.result = IF Found(answer'.minutiae) \in enrolled'
                                                      THEN "SUCCESS" ELSE "FAIL"
        BY <1>3, <2>1, <2>2
    <2> QED
        BY <2>3 DEF EnrolledIsRecognised, Found, NMin
<1> QED
    BY <1>1, <1>4 DEF EnrolledInv, Holds

LEMMA NextKeepsEnrolledInv ==
    ASSUME PlacesDiffer, PathInv, EnrolledInv, [Next]_vars PROVE EnrolledInv'
<1>1. ASSUME NEW places, SwipeFrames(places) PROVE EnrolledInv'
    BY <1>1, OthersKeepEnrolled DEF SwipeFrames, Idle
<1>2. ASSUME NEW lines, NEW offsets, SwipeLines(offsets, lines) PROVE EnrolledInv'
    BY <1>2, OthersKeepEnrolled DEF SwipeLines, Idle
<1>3. CASE Touch
    BY <1>3, OthersKeepEnrolled DEF Touch, Idle
<1>4. ASSUME NEW device \in Devices, NEW m \in Metadata,
             StartEnroll(device, m) \/ EnrollOnDevice(device, m)
      PROVE  EnrolledInv'
    BY <1>4, StartHolds
<1>5. ASSUME NEW minutiae \in Minutiae, EnrollStage(minutiae) \/ Verify(minutiae)
      PROVE  EnrolledInv'
    BY <1>5, StageIsHeld, VerifyRecognises
<1>6. ASSUME NEW device \in Devices, UpdatePrint(device) PROVE EnrolledInv'
    <2>1. UNCHANGED <<template, enrolled, kept>> /\ answer'.call # "verify"
        BY <1>6 DEF UpdatePrint, Idle
    <2> QED
        BY <2>1, OthersKeepEnrolled
<1>7. CASE List
    BY <1>7, OthersKeepEnrolled DEF List
<1>8. ASSUME NEW data \in Damages, Damage(data) PROVE EnrolledInv'
    <2>1. template' = None /\ kept' = None /\ answer' = Idle
        BY <1>8 DEF Damage
    <2> QED
        BY <2>1 DEF EnrolledInv, EnrolledIsRecognised, Idle
<1>9. CASE LoadAborts
    BY <1>9, OthersKeepEnrolled DEF LoadAborts
<1>10. CASE UNCHANGED vars
    BY <1>10 DEF vars, EnrolledInv, EnrolledIsRecognised, Holds, Found, NMin
<1> QED
    BY <1>1, <1>2, <1>3, <1>4, <1>5, <1>6, <1>7, <1>8, <1>9, <1>10, StoreHolds, LoadHolds
    DEF Next

LEMMA InitiallyEnrolledInv == Init => EnrolledInv
BY DEF Init, EnrolledInv, EnrolledIsRecognised, Idle

\* For all minutiae of which no two of an image are at one place, and all devices, metadata
\* and numbers of stages: a scan is recognised by a print that was stored and read back
\* exactly when its minutiae, as many as there is room for and in whatever order they were
\* found, are those of a stage that was enrolled (fpi_print_add_from_image,
\* fpi_print_bz3_match).
THEOREM EnrolledIsRecognisedCorrect == PlacesDiffer => (Spec => []EnrolledIsRecognised)
<1> SUFFICES ASSUME PlacesDiffer PROVE Spec => []EnrolledIsRecognised
    OBVIOUS
<1>1. PathInv /\ EnrolledInv /\ [Next]_vars => PathInv' /\ EnrolledInv'
    BY NextKeepsPathInv, NextKeepsEnrolledInv
<1>2. EnrolledInv => EnrolledIsRecognised
    BY DEF EnrolledInv
<1> QED
    BY <1>1, <1>2, InitiallyPathInv, InitiallyEnrolledInv, PTL DEF Spec
=============================================================================
