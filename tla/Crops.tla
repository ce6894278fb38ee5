------------------------------- MODULE Crops --------------------------------
(***************************************************************************)
(* Cutting the drawings out of one page (agent diagram.ts, and             *)
(* cropDiagrams of pipeline.ts).                                           *)
(*                                                                         *)
(* The vision model looks at a reduced copy of the photograph and answers  *)
(* with boxes in fractions of the page, here in percent.  A crop always    *)
(* has the width of the page, so what is computed is a band: a top and a   *)
(* height, in pixels of the reduced copy and then of the original.         *)
(*                                                                         *)
(* Left out: the JSON around the boxes, the captions, and answers that     *)
(* cannot be read, which give no boxes; and PrepOptions.rotate, which the  *)
(* desktop never sets (api.ts:565): both frames here stand upright.        *)
(***************************************************************************)
EXTENDS Integers, Sequences, FiniteSets

CONSTANTS
    Box,           \* bound of the model: the boxes the vision model may answer with
    Prepared,      \* the height in pixels of the reduced copy
    Original,      \* the height of the photograph
    MinArea, MaxArea,      \* MIN_FRACTION and MAX_FRACTION, in percent of a percent
    MinWide, MinHigh, Pad, \* the least width and height of a box, and PAD, in percent
    MinPixels, MinScaled,  \* the least height of a band in either frame
    MaxDiagrams

ASSUME CropsAssumption ==
    /\ Box \subseteq [x : Int, y : Int, w : Int, h : Int]
    /\ {Prepared, Original} \subseteq Nat \ {0}
    /\ {MinArea, MaxArea, MinWide, MinHigh, Pad, MinPixels, MinScaled, MaxDiagrams} \subseteq Nat
    \* prepForModel never enlarges (imaging index.ts:23), PAD of the least band is more than
    \* a pixel, and a band that is high enough to be cut is so in the photograph too.
    /\ Prepared <= Original
    /\ 100 <= Pad * MinPixels
    /\ MinScaled < MinPixels

VARIABLES
    detected,  \* the boxes taken from the answer, for reference
    bands,     \* their bands, padded
    merged,    \* how many of them dropOverlapping has gone through
    kept,      \* the bands it keeps
    parsing    \* parseDiagrams is still in its loop

cropVars == <<detected, bands, merged, kept, parsing>>

Band == [top : Nat, height : Nat]

CropsTypeOK ==
    /\ detected \in Seq(Box)
    /\ bands \in Seq(Band)
    /\ Len(detected) = Len(bands)
    /\ merged \in 0 .. Len(bands)
    /\ kept \in Seq(Band)
    /\ parsing \in BOOLEAN

CropsInit ==
    /\ detected = <<>>
    /\ bands = <<>>
    /\ merged = 0
    /\ kept = <<>>
    /\ parsing = TRUE
-----------------------------------------------------------------------------
Smaller(a, b) == IF a < b THEN a ELSE b
Larger(a, b) == IF a > b THEN a ELSE b

\* Math.round(a / b)
Rounded(a, b) == (2 * a + b) \div (2 * b)

Bottom(band) == band.top + band.height

\* What is left of a box that runs off the page.
Wide(b) == Smaller(b.w, 100 - b.x)
High(b) == Smaller(b.h, 100 - b.y)

\* It begins on the page, and is neither a line of text nor the page itself.
Plausible(b) ==
    /\ {b.x, b.y} \subseteq 0 .. 99
    /\ b.w > 0 /\ b.h > 0
    /\ Wide(b) * High(b) \in MinArea .. MaxArea
    /\ Wide(b) >= MinWide
    /\ High(b) >= MinHigh

\* The padded band of a box, in pixels of the reduced copy.
Padded(b) ==
    LET y == Larger(0, b.y - Pad)
        h == Smaller(High(b) + (b.y - y) + Pad, 100 - y)
        top == Rounded(y * Prepared, 100)
    IN  [top |-> top, height |-> Smaller(Rounded(h * Prepared, 100), Prepared - top)]

\* The next box of the answer that is a drawing.
TakeBox(b) ==
    /\ parsing
    /\ Len(bands) < MaxDiagrams
    /\ Plausible(b)
    /\ Padded(b).height >= MinPixels
    /\ detected' = Append(detected, b)
    /\ bands' = Append(bands, Padded(b))
    /\ UNCHANGED <<merged, kept, parsing>>

EndOfAnswer ==
    /\ parsing
    /\ parsing' = FALSE
    /\ UNCHANGED <<detected, bands, merged, kept>>
-----------------------------------------------------------------------------
(* dropOverlapping *)

Overlap(a, b) == Larger(0, Smaller(Bottom(a), Bottom(b)) - Larger(a.top, b.top))

\* They share more than half of the smaller one.
Repeats(a, b) == 2 * Overlap(a, b) > Smaller(a.height, b.height)

Hull(a, b) ==
    LET top == Smaller(a.top, b.top)
    IN  [top |-> top, height |-> Larger(Bottom(a), Bottom(b)) - top]

IsFirstRepeated(k, band) ==
    /\ k \in 1 .. Len(kept)
    /\ Repeats(kept[k], band)
    /\ \A j \in 1 .. k - 1 : ~Repeats(kept[j], band)

\* mutant: a band that mostly repeats an earlier one is dropped
DropBand(k, band) == UNCHANGED kept

GrowBand(k, band) == kept' = [kept EXCEPT ![k] = Hull(kept[k], band)]

\* The next band joins the first one it mostly repeats, or is kept beside them.
MergeBand ==
    /\ ~parsing
    /\ merged < Len(bands)
    /\ LET band == bands[merged + 1]
       IN  \/ \E k \in 1 .. Len(kept) : IsFirstRepeated(k, band) /\ GrowBand(k, band)
           \/ /\ \A k \in 1 .. Len(kept) : ~Repeats(kept[k], band)
              /\ kept' = Append(kept, band)
    /\ merged' = merged + 1
    /\ UNCHANGED <<detected, bands, parsing>>

CropsNext ==
    \/ \E b \in Box : TakeBox(b)
    \/ EndOfAnswer
    \/ MergeBand

CropsSpec == CropsInit /\ [][CropsNext]_cropVars
-----------------------------------------------------------------------------
\* scaleToOriginal.
Scaled(band) ==
    LET top == Rounded(band.top * Original, Prepared)
    IN  [top |-> top, height |-> Smaller(Rounded(band.height * Original, Prepared), Original - top)]

\* The crops, once every band has been gone through.
Crops == {Scaled(kept[k]) : k \in 1 .. Len(kept)}
Cut == {c \in Crops : c.height > MinScaled}

\* In the end every drawing the model found is on some crop of the photograph, as it
\* found it, to within a pixel: neither the limits on small boxes, nor the rounding into
\* two frames, nor the merging takes a part of it away (diagram.ts:145-184, pipeline.ts:280-288).
\* Bands that repeat each other are merged and none is discarded, so that no drawing is
\* lost to a generous box above it (diagram.ts:225-234).
DetectedIsCropped ==
    ~parsing /\ merged = Len(bands) =>
        \A i \in 1 .. Len(detected) : \E c \in Cut :
            /\ (c.top - 1) * 100 <= detected[i].y * Original
            /\ (detected[i].y + High(detected[i])) * Original <= (Bottom(c) + 1) * 100
=============================================================================
