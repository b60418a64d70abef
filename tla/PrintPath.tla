------------------------------ MODULE PrintPath ------------------------------
(***************************************************************************)
(* The way of a print through the library: a swipe is assembled into an    *)
(* image, the minutiae of the images of an enroll operation become a       *)
(* print, it is stored, read back and matched against a new scan, or kept  *)
(* by the device under a user id.  Composes FpiAssembling and FpPrint.     *)
(* Of nbis/ the detection of minutiae is left out; comparing is equality.  *)
(***************************************************************************)
EXTENDS FpiAssembling, FpPrint

CONSTANTS
    Scene,          \* what is swiped over the sensor: a pixel for each <<x, y>>
    SceneWidth, SceneHeight,
    Plain,          \* pixel values of frames that show nothing
    SwipeLength,    \* the frames of a swipe
    NrLines,        \* the numbers of lines of a swipe over a line sensor
    MaxOffset,      \* max_search_offset
    Minutiae,       \* the sequences of minutiae images have
    Devices,        \* records of driver and id
    Metadata,       \* what users may say of a print: finger, username and enroll_date
    NrStages        \* nr_enroll_stages

ASSUME SceneAssumption ==
    /\ SceneWidth \in Nat /\ SceneHeight \in Nat
    /\ SceneWidth >= FrameWidth /\ SceneHeight >= FrameHeight
    /\ Scene \in [(0 .. SceneWidth - 1) \X (0 .. SceneHeight - 1) -> Pixels]
    /\ Plain \subseteq Pixels
ASSUME MetadataAssumption ==
    \A m \in Metadata : m.enroll_date \in {None} \union (1 .. FarDate - 1)
ASSUME StagesAssumption == NrStages \in Nat \ {0}
ASSUME MinutiaeAssumption == Minutiae \subseteq Seq([x : Nat, y : Nat, theta : 0 .. 359])

\* The prints that are read, written and enrolled (struct _FpPrint), none of which is NULL.
Prints ==
    [type : {"NBIS", "RAW"}, driver : {d.driver : d \in Devices}, device_id : {d.id : d \in Devices},
     device_stored : BOOLEAN, finger : {m.finger : m \in Metadata},
     username : {m.username : m \in Metadata}, enroll_date : {None} \union (1 .. FarDate),
     data : {None} \union {GenerateUserId(m) : m \in Metadata},
     prints : Seq({MinutiaeToXyt(m) : m \in Minutiae \ {<<>>}})]
ASSUME NoneAssumption == None \notin Prints \union {"INVALID_DATA"}

VARIABLES
    image,      \* what was scanned and assembled and is not yet looked at
    template,   \* the print of the user's finger
    stages,     \* the enroll stages that are done
    storage,    \* a print in permanent storage
    answer,     \* of the last call that reads or matches a print
    enrolled,   \* the minutiae that were scanned for the template
    kept        \* the template when it was stored

vars == <<image, template, stages, storage, answer, enrolled, kept>>

Idle == [call |-> "none"]

Init ==
    /\ image = None /\ template = None /\ stages = 0 /\ storage = None
    /\ answer = Idle /\ enrolled = {} /\ kept = None

-----------------------------------------------------------------------------
(* The sensor *)

\* A frame is a window of the scene at a place, or plain, which the place -1 says.
Windows == (0 .. SceneWidth - FrameWidth) \X (0 .. SceneHeight - FrameHeight)
WindowAt(place) == Frame([p \in Columns \X Rows |-> Scene[<<p[1] + place[1], p[2] + place[2]>>]])
PlainFrame(value) == Frame([p \in Columns \X Rows |-> value])
FrameOf(place) == IF place \in Windows THEN WindowAt(place) ELSE PlainFrame(place[1])
Places == Windows \union (Plain \X {-1})

\* What an image shows does not matter to the prints, nor the prints to an image:
\* swipes are assembled while there are no prints.
NoPrints == template = None /\ storage = None

\* A swipe over an area sensor whose driver estimates the movement (elan_submit_image
\* in elan.c).
SwipeFrames(places) ==
    /\ image = None /\ NoPrints
    /\ \E placed \in {DoMovementEstimation([i \in DOMAIN places |-> FrameOf(places[i])])} :
           image' = [kind |-> "frames", places |-> places, placed |-> Unplaced(placed),
                     assembled |-> AssembleFrames(placed)]
    /\ answer' = Idle
    /\ UNCHANGED <<template, stages, storage, enrolled, kept>>

\* A swipe over a line sensor: get_deviation finds each second line again after one
\* to MaxOffset others, but not behind the last.
Offsets(lines) ==
    {o \in [1 .. lines \div 2 -> 1 .. MaxOffset] : \A k \in DOMAIN o : o[k] <= lines + 1 - 2 * k}
SwipeLines(offsets, lines) ==
    /\ image = None /\ NoPrints
    /\ image' = [kind |-> "lines", offsets |-> offsets, lines |-> lines,
                 assembled |-> AssembleLines(offsets, lines)]
    /\ answer' = Idle
    /\ UNCHANGED <<template, stages, storage, enrolled, kept>>

\* A sensor that sees the whole finger.
Touch ==
    /\ image = None /\ image' = [kind |-> "area"]
    /\ answer' = Idle
    /\ UNCHANGED <<template, stages, storage, enrolled, kept>>

-----------------------------------------------------------------------------
(* The prints *)

\* fp_print_set_finger, fp_print_set_username and fp_print_set_enroll_date.
Described(print, m) ==
    [print EXCEPT !.finger = m.finger, !.username = m.username, !.enroll_date = m.enroll_date]

\* The user prepares a print and an image device enrolls it.
StartEnroll(device, m) ==
    /\ NoPrints
    /\ template' = SetType(Described(NewPrint(device), m), "NBIS")
    /\ stages' = 0 /\ enrolled' = {} /\ answer' = Idle
    /\ UNCHANGED <<image, storage, kept>>

\* fpi_image_device_minutiae_detected for a stage of an enroll operation: an image
\* without minutiae only gives a retry.
ScanOf(minutiae) ==
    AddFromImage(SetType(NewPrint([driver |-> template.driver, id |-> template.device_id]),
                         "NBIS"), minutiae)
Found(minutiae) == ToBag(SubSeq(minutiae, 1, NMin(minutiae)))

EnrollStage(minutiae) ==
    /\ template # None /\ template.type = "NBIS" /\ stages < NrStages
    /\ image # None /\ image' = None
    /\ IF minutiae # <<>>
       THEN /\ template' = AddPrint(template, ScanOf(minutiae))
            /\ stages' = stages + 1
            /\ enrolled' = enrolled \union {Found(minutiae)}
       ELSE UNCHANGED <<template, stages, enrolled>>
    /\ answer' = Idle
    /\ UNCHANGED <<storage, kept>>

\* A device that keeps prints enrolls one: its data is the user id under which it is
\* stored there (synaptics.c enroll, elanmoc.c).
EnrollOnDevice(device, m) ==
    /\ NoPrints
    /\ LET print == Described(NewPrint(device), m)
       IN template' = [SetType(print, "RAW") EXCEPT !.device_stored = TRUE,
                                                    !.data = GenerateUserId(print)]
    /\ stages' = NrStages /\ enrolled' = {} /\ answer' = Idle
    /\ UNCHANGED <<image, storage, kept>>

\* fp_device_list_prints of such a device makes the print anew of its user id.
Listed(print) ==
    FillFromUserId([SetType(NewPrint([driver |-> print.driver, id |-> print.device_id]), "RAW")
                        EXCEPT !.device_stored = TRUE, !.data = print.data], print.data)
List ==
    /\ template # None /\ template.type = "RAW"
    /\ answer' = [call |-> "list", print |-> Listed(template)]
    /\ UNCHANGED <<image, template, stages, storage, enrolled, kept>>

Complete == template # None /\ stages = NrStages

\* The user stores the print and forgets it.
Store ==
    /\ Complete /\ storage = None
    /\ storage' = Serialize(template)
    /\ kept' = template /\ template' = None
    /\ answer' = Idle
    /\ UNCHANGED <<image, stages, enrolled>>

\* Storage holds what another program wrote or a failure left there, by one damage: too
\* little data, another version or type, columns of unequal lengths or with too many rows.
\* Each leaves a variant of the stored shape.  (There is no checksum: other data of the same
\* form is just another print.)
Damages ==
    {[storage EXCEPT !.header = header] : header \in {"short", "FP2"}}
        \union {[storage EXCEPT !.type = type] : type \in {"UNDEFINED", "UNKNOWN"}}
        \union UNION {{[storage EXCEPT !.prints[i].x = Append(@, 1)],
                       [storage EXCEPT !.prints[i].theta = <<>>],
                       [storage EXCEPT !.prints[i] = [c \in DOMAIN @ |->
                                                        [r \in 1 .. MaxRows + 1 |-> 1]]]} :
                      i \in DOMAIN storage.prints}
Damage(data) ==
    /\ kept # None /\ template = None
    /\ storage' = data /\ kept' = None
    /\ answer' = Idle
    /\ UNCHANGED <<image, template, stages, enrolled>>

\* fp_print_deserialize gives the user a print, an error or neither.
Load ==
    /\ storage # None /\ template = None /\ ~TooShort(storage)
    /\ \E read \in {Deserialize(storage)} :
           /\ template' = read.print
           /\ answer' = [call |-> "load", print |-> read.print, error |-> read.error]
    /\ UNCHANGED <<image, stages, storage, enrolled, kept>>

\* It ends the program when there is too little data; a new one finds only what is stored.
LoadAborts ==
    /\ storage # None /\ template = None /\ TooShort(storage)
    /\ image' = None /\ answer' = [call |-> "abort"]
    /\ UNCHANGED <<template, stages, storage, enrolled, kept>>

\* fpi_image_device_minutiae_detected for a verification: a scan without minutiae is
\* a retry.
Verify(minutiae) ==
    /\ Complete /\ template.type = "NBIS"
    /\ image # None /\ image' = None
    /\ answer' = [call |-> "verify", minutiae |-> minutiae,
                  result |-> IF minutiae = <<>> THEN "RETRY"
                             ELSE Bz3Match(template, ScanOf(minutiae))]
    /\ UNCHANGED <<template, stages, storage, enrolled, kept>>

\* fp_device_enroll with a finished print adds to it, on a device of its kind.
UpdatePrint(device) ==
    /\ Complete /\ template.type = "NBIS" /\ Len(template.prints) = NrStages
    /\ IF Compatible(template, device)
       THEN stages' = 0 /\ answer' = Idle
       ELSE stages' = stages /\ answer' = [call |-> "update", result |-> "DATA_INVALID"]
    /\ UNCHANGED <<image, template, storage, enrolled, kept>>

Next ==
    \/ \E places \in [1 .. SwipeLength -> Places] : SwipeFrames(places)
    \/ \E lines \in NrLines : \E offsets \in Offsets(lines) : SwipeLines(offsets, lines)
    \/ Touch
    \/ \E device \in Devices, m \in Metadata : StartEnroll(device, m) \/ EnrollOnDevice(device, m)
    \/ \E minutiae \in Minutiae : EnrollStage(minutiae) \/ Verify(minutiae)
    \/ \E device \in Devices : UpdatePrint(device)
    \/ List
    \/ Store
    \/ storage # None /\ \E data \in Damages : Damage(data)
    \/ Load
    \/ LoadAborts

Spec == Init /\ [][Next]_vars

-----------------------------------------------------------------------------
(* Properties *)

\* A straight swipe over the sensor gives back what was swiped.  When each frame lies
\* two rows or more, but less than a frame, beyond the one before, and as far to the
\* side as the search goes, then the image, whose height is that of the swipe, shows
\* the scene wherever a frame was, in either direction of the swipe.  (It rests on
\* the sign conventions of find_overlap, of the two directions of
\* do_movement_estimation and of fpi_assemble_frames, and on the normalised error.)
Moves(places, axis) ==
    {places[i][axis] - places[i - 1][axis] : i \in 2 .. Len(places)}
Straight(places) ==
    /\ \A i \in DOMAIN places : places[i] \in Windows
    /\ \/ Moves(places, 2) \subseteq 2 .. FrameHeight - 1 /\ Moves(places, 1) \subseteq 1 - MaxDx .. MaxDx
       \/ Moves(places, 2) \subseteq 1 - FrameHeight .. -2 /\ Moves(places, 1) \subseteq -MaxDx .. MaxDx - 1
Topmost(places) == Min({places[i][2] : i \in DOMAIN places})
Shows(assembled, places) ==
    LET left == places[1][1] - (ImageWidth - FrameWidth) \div 2
    IN \A i \in DOMAIN places : \A p \in Columns \X Rows :
           LET x == places[i][1] + p[1]
               y == places[i][2] + p[2]
           IN x - left \in 0 .. ImageWidth - 1
              => assembled.pixel[<<x - left, y - Topmost(places)>>] = Scene[<<x, y>>]
SwipeIsRestored ==
    image # None /\ image.kind = "frames" /\ Straight(image.places)
    => /\ image.assembled.height =
              Abs(image.places[Len(image.places)][2] - image.places[1][2]) + FrameHeight
       /\ Shows(image.assembled, image.places)

\* Each line of an image of lines lies between the two scanned lines it is
\* interpolated of, so that the weights are positive and what is divided by is not
\* zero, the lines are in order and none is left out, and the image is no higher than
\* its buffer.
LinesAreBetween ==
    image # None /\ image.kind = "lines"
    => LET output == image.assembled
       IN /\ Len(output) <= MaxHeight
          /\ \A k \in DOMAIN output :
                 /\ output[k].at = (k - 1) * Fixed
                 /\ output[k].from <= output[k].at /\ output[k].at < output[k].to
                 /\ k > 1 => output[k].line >= output[k - 1].line
          /\ Len(output) > 0

\* An image is put together of what was scanned, all of it and in its place.
ImagesAreAssembled == SwipeIsRestored /\ LinesAreBetween

\* What was stored is read back if nobody else wrote there: without an error it is the same
\* print, with what is known of it.  (The unused rows of the minutiae take part in the
\* comparison, and a print without a date comes back with one.)  Else no print comes of
\* damaged data that cannot be used; that there is no print is said by an error, but not when
\* the stored type is an unknown one: fp_print_deserialize then returns NULL without an error
\* (fp-print.c:907).  A print that a device lists is the one it enrolled.
SameMetadata(print, other) ==
    /\ print.device_stored = other.device_stored /\ print.finger = other.finger
    /\ print.username = other.username
    /\ print.enroll_date # None => print.enroll_date = other.enroll_date
StoredPrintIsKept ==
    /\ answer.call = "load" =>
           /\ answer.print # None =>
                  /\ answer.error = None
                  /\ kept # None /\ Equal(answer.print, kept) /\ SameMetadata(kept, answer.print)
           /\ answer.print = None =>
                  /\ kept = None
                  /\ answer.error = None <=> storage.header = "FP3" /\ UnknownType(storage)
    /\ answer.call = "abort" => kept = None
    /\ answer.call = "list" => Equal(answer.print, template)

\* No two minutiae of an image are at one place.  The detection keeps two of them there only
\* if they differ in kind or direction (update_minutiae in mindtct/minutia.c); then it depends
\* on qsort which comes first.
PlacesDiffer ==
    \A m \in Minutiae : \A i, j \in DOMAIN m :
        i # j => m[i].x # m[j].x \/ m[i].y # m[j].y

\* A finger is recognised when it was enrolled and only then: of all the stages, of a
\* print that was stored and read back, of one that was updated, and of an image with
\* more minutiae than a print has room for.
EnrolledIsRecognised ==
    answer.call = "verify" /\ answer.minutiae # <<>> /\ kept # None
    => answer.result = IF Found(answer.minutiae) \in enrolled THEN "SUCCESS" ELSE "FAIL"

(* Statements of the documentation and comments that the code does not keep *)

\* fp_print_deserialize, "Returns: A newly created #FpPrint on success", and has an error to
\* set when there is none: it sets none for an unknown type (fp-print.c:822, 907).
LoadGivesPrintOrError ==
    answer.call = "load" => (answer.print = None <=> answer.error # None)
=============================================================================
