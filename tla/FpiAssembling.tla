--------------------------- MODULE FpiAssembling ---------------------------
(***************************************************************************)
(* The assembling of a swipe into an image (fpi-assembling.c), as          *)
(* operators.  fpi_do_movement_estimation finds how far each frame lies    *)
(* from the one before, trying both directions of the swipe;               *)
(* fpi_assemble_frames puts the frames into one image; fpi_assemble_lines  *)
(* builds an image of single lines, whose distance varies with the speed.  *)
(* An operator named Bad... is a wrong form of the one after it; the       *)
(* specification does not use it.                                          *)
(***************************************************************************)
EXTENDS Integers, Sequences, FiniteSetsExt, SequencesExt, Functions

CONSTANTS
    FrameWidth, FrameHeight, ImageWidth,   \* of struct fpi_frame_asmbl_ctx
    MaxPixel,           \* 255: the brightest pixel
    MaxDx,              \* 8: the horizontal distances tried are -MaxDx .. MaxDx - 1
    UIntSize,           \* 2^32: the errors are unsigned int
    MaxHeight, Resolution, FilterSize,     \* of struct fpi_line_asmbl_ctx
    Fixed               \* 2^16: the y coordinate is a fixed point number

ASSUME FrameAssumption ==
    /\ FrameWidth \in Nat /\ FrameHeight \in Nat /\ ImageWidth \in Nat
    /\ MaxDx \in Nat /\ MaxDx < FrameWidth /\ FrameHeight > 2
    /\ MaxPixel \in Nat /\ UIntSize \in Nat \ {0}
\* A step of the device, Resolution, is never smaller than one fixed point unit.
ASSUME LineAssumption ==
    /\ MaxHeight \in Nat /\ Resolution \in Nat \ {0} /\ FilterSize \in Nat \ {0}
    /\ Fixed \in Nat \ {0}

Columns == 0 .. FrameWidth - 1
Rows == 0 .. FrameHeight - 1
Pixels == 0 .. MaxPixel

Abs(i) == IF i < 0 THEN -i ELSE i

\* struct fpi_frame: the pixels, which get_pixel reads, and the distance from the
\* frame before.
Frame(pixels) == [pixel |-> pixels, delta_x |-> 0, delta_y |-> 0]

-----------------------------------------------------------------------------
(* Movement estimation *)

Area == FrameWidth * FrameHeight
OverlapArea(dx, dy) == (FrameWidth - Abs(dx)) * (FrameHeight - dy)

\* The difference of two frames where they overlap, the first one dy rows further on.
Difference(first, second, dx, dy) ==
    LET left == IF dx < 0 THEN 0 ELSE dx
        At(p) == Abs(first.pixel[<<p[1], p[2]>>] - second.pixel[<<p[1] - dx, p[2] + dy>>])
    IN MapThenSumSet(At, (left .. left + FrameWidth - Abs(dx) - 1)
                             \X (0 .. FrameHeight - dy - 1))

\* calc_error: the difference as if the whole frame overlapped.  The product is
\* taken in an unsigned int.
CalcError(first, second, dx, dy) ==
    ((Difference(first, second, dx, dy) * Area) % UIntSize) \div OverlapArea(dx, dy)

MaxError == MaxPixel * Area
Distances == (-MaxDx .. MaxDx - 1) \X (2 .. FrameHeight - 1)

\* find_overlap takes the first distance, the rows in the outer loop, of the least
\* error, if that is less than the largest there can be.
Before(d, e) == d[2] < e[2] \/ (d[2] = e[2] /\ d[1] <= e[1])
Best(error) ==
    CHOOSE d \in Distances : \A e \in Distances :
        error[d] < error[e] \/ (error[d] = error[e] /\ Before(d, e))
Overlap(error, best) ==
    [found |-> error[best] < MaxError, delta_x |-> -best[1], delta_y |-> best[2],
     error |-> Min({error[best], MaxError})]
Errors(first, second) == [d \in Distances |-> CalcError(first, second, d[1], d[2])]
Least(error) == Overlap(error, Best(error))
FindOverlap(first, second) == Least(Errors(first, second))

BadMoved(frame, overlap, sign) ==
    [frame |-> [frame EXCEPT !.delta_x = overlap.delta_x, !.delta_y = sign * overlap.delta_y],
     error |-> overlap.error]

\* A distance that was not found is left as it is, and in reverse its sign is changed
\* even so.
Moved(frame, overlap, sign) ==
    LET distance == IF overlap.found THEN overlap ELSE frame
    IN [frame |-> [frame EXCEPT !.delta_x = sign * distance.delta_x,
                                !.delta_y = sign * distance.delta_y],
        error |-> overlap.error]

\* do_movement_estimation, for one frame and its predecessor and for all.
Placed(previous, frame, reverse) ==
    IF reverse THEN Moved(frame, FindOverlap(previous, frame), -1)
    ELSE Moved(frame, FindOverlap(frame, previous), 1)
Estimated(first, placed) ==
    [frames |-> [i \in {1} \union DOMAIN placed |-> IF i = 1 THEN first ELSE placed[i].frame],
     error |-> MapThenSumSet(LAMBDA i : placed[i].error, DOMAIN placed)
                   \div (1 + Cardinality(DOMAIN placed))]
Estimation(frames, reverse) ==
    Estimated(frames[1],
              [i \in 2 .. Len(frames) |-> Placed(frames[i - 1], frames[i], reverse)])

\* fpi_do_movement_estimation: forward, in reverse, and forward again when that was
\* better.
Better(forward, backward) ==
    IF forward.error < backward.error THEN Estimation(backward.frames, FALSE).frames
    ELSE backward.frames
Reversed(forward) == Better(forward, Estimation(forward.frames, TRUE))
DoMovementEstimation(frames) == Reversed(Estimation(frames, FALSE))

-----------------------------------------------------------------------------
(* Frames into an image *)

Unplaced(frames) == [frames EXCEPT ![1].delta_x = 0, ![1].delta_y = 0]

\* Where each frame goes: the deltas are added up, from the top of the image or, in
\* reverse, from the bottom.
Travel(frames) == SumFunction([i \in DOMAIN frames |-> frames[i].delta_y])
Height(frames) == Abs(Travel(frames)) + FrameHeight
FrameTop(frames, i) ==
    SumFunction([j \in 1 .. i |-> frames[j].delta_y])
        + (IF Travel(frames) < 0 THEN Height(frames) - FrameHeight ELSE 0)
FrameLeft(frames, i) ==
    SumFunction([j \in 1 .. i |-> frames[j].delta_x]) + (ImageWidth - FrameWidth) \div 2

\* aes_blit_stripe writes what lies within the image, a later frame over an earlier.
Covers(frames, i, p) ==
    /\ p[1] - FrameLeft(frames, i) \in Columns
    /\ p[2] - FrameTop(frames, i) \in Rows
PixelOf(frames, i, p) ==
    frames[i].pixel[<<p[1] - FrameLeft(frames, i), p[2] - FrameTop(frames, i)>>]
Blit(frames, p) ==
    LET on == {i \in DOMAIN frames : Covers(frames, i, p)}
    IN IF on = {} THEN 0 ELSE PixelOf(frames, Max(on), p)
Assembled(frames) ==
    [width |-> ImageWidth, height |-> Height(frames), flipped |-> Travel(frames) >= 0,
     pixel |-> [p \in (0 .. ImageWidth - 1) \X (0 .. Height(frames) - 1) |-> Blit(frames, p)]]
AssembleFrames(frames) == Assembled(Unplaced(frames))

-----------------------------------------------------------------------------
(* Lines into an image *)

\* median_filter, whose window is cut off at the ends.
MedianOf(values) == SortSeq(values, <)[Len(values) \div 2 + 1]
MedianFilter(data) ==
    [i \in DOMAIN data |->
        MedianOf(SubSeq(data, Max({1, i - (FilterSize - 1) \div 2}),
                              Min({Len(data), i + (FilterSize - 1) \div 2})))]

\* The last of the offsets is left out.
Filtered(offsets) == Append(MedianFilter(Front(offsets)), Last(offsets))

BadOutputLines(done, line, y, next) ==
    LET first == Len(done)
        number == Min({MaxHeight, next \div Fixed + 1}) - first
    IN done \o [k \in 1 .. number |-> [line |-> line, at |-> (first + k - 1) * Fixed,
                                       from |-> y, to |-> next]]

\* A pair of lines that lies between y and next gives the output lines from the
\* first that is not yet there, each with its place between the two.
OutputLines(done, line, y, next) ==
    LET first == Len(done)
        number == Min({MaxHeight, (next + Fixed - 1) \div Fixed}) - first
    IN IF number > 0
       THEN done \o [k \in 1 .. number |-> [line |-> line, at |-> (first + k - 1) * Fixed,
                                            from |-> y, to |-> next]]
       ELSE done

\* fpi_assemble_lines, from the distances of the lines that get_deviation finds.
AssembleLines(offsets, lines) ==
    LET filtered == Filtered(offsets)
        Step(s, i) ==
            LET offset == filtered[(i - 1) \div 2 + 1]
                next == s.y + (Resolution * Fixed) \div offset
            IN IF offset > 0
               THEN [y |-> next, output |-> OutputLines(s.output, i, s.y, next)]
               ELSE s
    IN FoldLeftDomain(Step, [y |-> 0, output |-> <<>>],
                      [i \in 1 .. lines - 1 |-> i]).output
=============================================================================
