--------------------------- MODULE OpenCvPipeline ---------------------------
(***************************************************************************)
(* An OpenCV plan: a chain of image filters for images of one size, sealed *)
(* with the size of the result, and the filters that work without a plan.  *)
(* Widths and heights come in this order in every call of the bridge; an   *)
(* image is an array of rows, so its shape is height first.  The elements  *)
(* are left out: what a caller gets is as many numbers as the plan or the  *)
(* call declares, from an image that should have that shape.               *)
(*                                                                         *)
(* The filters themselves are OpenCV's: they keep the shape, except the    *)
(* warps, whose result has the size that is asked for.  Any call of them   *)
(* may fail.                                                               *)
(***************************************************************************)
EXTENDS Integers, Sequences

CONSTANTS Sides, MaxFilters

ASSUME SidesAssumption == Sides \subseteq Nat \ {0}

VARIABLES
    compiled,       \* the plan is built by OpenCvProvider, not by hand through OpenCvPanama
    inputSize,      \* <<width, height>>
    filters,        \* Plan::operations
    imageSealed,    \* Plan::sealed
    outputSize,     \* <<width, height>>
    image,          \* the shape of current_img while the plan runs
    next,           \* the filter execute is at; 0 when it does not run
    answer          \* what the last call that gave a result copied from, and how much

cvVars == <<compiled, inputSize, filters, imageSealed, outputSize, image, next, answer>>

Answer(by, shape, size) == [by |-> by, shape |-> shape, size |-> size]
NoAnswer == Answer("nobody", <<>>, <<>>)
Shape(size) == <<size[2], size[1]>>
Filter(kind, size) == [kind |-> kind, size |-> size]
Warps == {"warpAffine", "warpPerspective"}

CvInit ==
    /\ compiled \in BOOLEAN
    /\ inputSize \in Sides \X Sides
    /\ filters = <<>> /\ imageSealed = FALSE /\ outputSize = <<0, 0>>
    /\ image = <<>> /\ next = 0 /\ answer = NoAnswer

-----------------------------------------------------------------------------
(* Building.  A sealed plan still takes filters, but the provider seals last. *)

AddFilter(filter) ==
    /\ next = 0 /\ Len(filters) < MaxFilters
    /\ compiled => ~imageSealed
    /\ filters' = Append(filters, filter)
    /\ UNCHANGED <<compiled, inputSize, imageSealed, outputSize, image, next, answer>>

AddGaussianBlur == AddFilter(Filter("blur", <<>>))
AddSobel == AddFilter(Filter("sobel", <<>>))

\* The provider warps to the size of the input.
AddWarpAffine(size) ==
    /\ compiled => size = inputSize
    /\ AddFilter(Filter("warpAffine", size))
AddWarpPerspective(size) == ~compiled /\ AddFilter(Filter("warpPerspective", size))
\* The kernel is applied as kwidth x kwidth, whatever its height.
AddFilter2d(kernel) == ~compiled /\ AddFilter(Filter("filter2d", <<kernel[1], kernel[1]>>))

\* A side that is not positive stands for the input's.
SealImages(size) ==
    /\ next = 0 /\ filters # <<>>
    /\ compiled => size = inputSize /\ ~imageSealed
    /\ imageSealed' = TRUE
    /\ outputSize' = [i \in 1..2 |-> IF size[i] > 0 THEN size[i] ELSE inputSize[i]]
    /\ UNCHANGED <<compiled, inputSize, filters, image, next, answer>>

-----------------------------------------------------------------------------
(* Running.  An open plan is refused; OpenCvPanama's buffer has the declared size. *)

ExecuteFilters ==
    /\ next = 0 /\ imageSealed
    /\ image' = Shape(inputSize) /\ next' = 1
    /\ UNCHANGED <<compiled, inputSize, filters, imageSealed, outputSize, answer>>

\* Mutant of Filtered: a warp is asked for rows and columns, not for width and height.
FilteredTransposed(filter, shape) == IF filter.kind \in Warps THEN filter.size ELSE shape

Filtered(filter, shape) == IF filter.kind \in Warps THEN Shape(filter.size) ELSE shape

\* A filter that fails leaves the image it was given to the next.
ApplyFilter ==
    /\ next \in DOMAIN filters
    /\ image' \in {image, Filtered(filters[next], image)}
    /\ next' = next + 1
    /\ UNCHANGED <<compiled, inputSize, filters, imageSealed, outputSize, answer>>

\* As many numbers are copied as the plan declares, whatever the shape of the image.
CopyImage ==
    /\ next = Len(filters) + 1
    /\ answer' = Answer("plan", image, outputSize)
    /\ image' = <<>> /\ next' = 0
    /\ UNCHANGED <<compiled, inputSize, filters, imageSealed, outputSize>>

\* Without a plan; a call that fails copies nothing.
Filter2dDirect(size) ==
    /\ next = 0
    /\ answer' = Answer("call", Filtered(Filter("filter2d", <<>>), Shape(size)), size)
    /\ UNCHANGED <<compiled, inputSize, filters, imageSealed, outputSize, image, next>>

WarpAffineDirect(size, out) ==
    /\ next = 0
    /\ answer' = Answer("call", Filtered(Filter("warpAffine", out), Shape(size)), out)
    /\ UNCHANGED <<compiled, inputSize, filters, imageSealed, outputSize, image, next>>

CvNext ==
    \/ AddGaussianBlur \/ AddSobel
    \/ \E size \in Sides \X Sides :
          \/ AddWarpAffine(size) \/ AddWarpPerspective(size) \/ AddFilter2d(size)
          \/ SealImages(size)
          \/ Filter2dDirect(size)
          \/ \E out \in Sides \X Sides : WarpAffineDirect(size, out)
    \/ SealImages(<<0, 0>>)
    \/ ExecuteFilters \/ ApplyFilter \/ CopyImage

CvSpec == CvInit /\ [][CvNext]_cvVars

-----------------------------------------------------------------------------

\* What a compiled plan or a direct call copies is the whole of an image of the shape it declares,
\* also when filters on the way failed: neither too much is read nor are rows taken for columns.
\* (A plan made by hand may be sealed with a size its filters do not have.)
ResultAsDeclared ==
    (answer.by = "call" \/ (answer.by = "plan" /\ compiled)) => answer.shape = Shape(answer.size)
=============================================================================
