----------------------------- MODULE PyOperators -----------------------------
(***************************************************************************)
(* The Python bindings of PillowResize (src/src/cvcuda/priv/OpThreshold.hpp, *)
(* second file, lines 92-175) and of NonMaximumSuppression                 *)
(* (src/unnamed/part_000, lines 34-83).                                     *)
(*                                                                         *)
(* A binding runs under the GIL, so each call is one atomic step: it       *)
(* validates its arguments, creates its output and a fresh operator,       *)
(* registers the resources with a ResourceGuard and submits work to the    *)
(* stream.  The work runs later on the GPU (Complete).  ResourceGuard is   *)
(* not part of the sources here; it is modelled by what its use requires:  *)
(* every object added to a guard stays referenced until the work submitted *)
(* with it has completed.  Python code may drop its own references at any  *)
(* time (Drop).                                                            *)
(*                                                                         *)
(* Objects are numbered 1..MaxObjs in creation order, so a freed object is *)
(* never confused with a later one.                                        *)
(***************************************************************************)
EXTENDS Integers, Sequences, SequencesExt, FiniteSets

CONSTANTS
  Extents,      \* values a tensor extent or an image width/height may take
  UserObjects,  \* tensors and batches the Python program creates
  OutShapes,    \* out_shape arguments of pillowresize
  OutSizeLists, \* sizes arguments of the varshape pillowresize
  MaxObjs,      \* objects the model creates, user's and bindings' together
  MaxJobs       \* work items queued on the stream at once

ASSUME Extents \subseteq Nat \ {0}

\* A tensor's shape; an image tensor for PillowResize is rank 3 (N, H, W).
Tensor(s) == [kind |-> "tensor", shape |-> s]

\* ImageBatchVarShape: a capacity and images given by width and height.
ImgSize(w, h) == [w |-> w, h |-> h]
ImgSizes == {ImgSize(w, h) : w, h \in Extents}
Batch(cap, imgs) == [kind |-> "batch", cap |-> cap, imgs |-> imgs]

\* An operator created by CreateOperator<...>(...).
Op(name, size, b) == [kind |-> "op", name |-> name, size |-> size, batch |-> b]

Ids == 1..MaxObjs

VARIABLES
  obj,       \* objects created so far: id -> tensor, batch or operator
  live,      \* objects the Python program holds a reference to
  pending,   \* work submitted to the stream, in order, not yet completed
  lastError  \* exception thrown by the last binding call, or "none"

vars == <<obj, live, pending, lastError>>

NextId == Len(obj) + 1

\* A stream work item: the binding that submitted it, its arguments by
\* role, and the objects its ResourceGuard holds.
Job(via, args, guarded) == [via |-> via, args |-> args, guarded |-> guarded]
Uses(j) == Range(j.args)

---------------------------------------------------------------------------
(* Accessors the bindings use.                                            *)

\* TensorDataAccessStridedImagePlanar::Create: NULL unless an image tensor.
IsImageTensor(t) == t.kind = "tensor" /\ Len(t.shape) = 3
NumSamples(t) == t.shape[1]
NumRows(t) == t.shape[2]
NumCols(t) == t.shape[3]

MaxOf(a, b) == IF a >= b THEN a ELSE b
MaxOver(S) == IF S = {} THEN 0 ELSE CHOOSE m \in S : \A n \in S : n <= m

\* ImageBatchVarShape::maxSize(): component-wise maximum over its images.
MaxSize(b) ==
  ImgSize(MaxOver({b.imgs[k].w : k \in 1..Len(b.imgs)}),
          MaxOver({b.imgs[k].h : k \in 1..Len(b.imgs)}))

\* Room for the output and the operator a call creates, and for its work.
CanCreate(n) == Len(obj) + n <= MaxObjs /\ Len(pending) < MaxJobs

---------------------------------------------------------------------------
(* PillowResize bindings.                                                 *)

\* Mutant: the operator sized by the input alone (no std::max with output).
PillowResizeOpInputOnly(in, out) ==
  Op("PillowResize", ImgSize(NumCols(in), NumRows(in)), NumSamples(in))

\* w = max(in cols, out cols), h = max(in rows, out rows),
\* max_batch_size = in samples; CreateOperator<cvcuda::PillowResize>.
PillowResizeOp(in, out) ==
  Op("PillowResize",
     ImgSize(MaxOf(NumCols(in), NumCols(out)), MaxOf(NumRows(in), NumRows(out))),
     NumSamples(in))

\* Mutant: the operator is not added to the guard.
PillowResizeSubmitNoOpGuard(objs, out, in) ==
  IF ~IsImageTensor(objs[out]) \/ ~IsImageTensor(objs[in])
  THEN lastError' = "Incompatible input/output tensor layout"
       /\ UNCHANGED <<obj, pending>>
  ELSE LET op == Len(objs) + 1
       IN  /\ obj' = Append(objs, PillowResizeOp(objs[in], objs[out]))
           /\ pending' = Append(pending,
                Job("PillowResize", [in |-> in, out |-> out, op |-> op], {in, out}))
           /\ lastError' = "none"

\* PillowResizeInto's body once its output exists (objs: obj with it).
\* guard: input LOCK_READ, output and operator LOCK_WRITE; submit.
PillowResizeSubmit(objs, out, in) ==
  IF ~IsImageTensor(objs[out]) \/ ~IsImageTensor(objs[in])
  THEN lastError' = "Incompatible input/output tensor layout"
       /\ UNCHANGED <<obj, pending>>
  ELSE LET op == Len(objs) + 1
       IN  /\ obj' = Append(objs, PillowResizeOp(objs[in], objs[out]))
           /\ pending' = Append(pending,
                Job("PillowResize", [in |-> in, out |-> out, op |-> op], {in, out, op}))
           /\ lastError' = "none"

PillowResizeInto(out, in) ==
  /\ CanCreate(1)
  /\ PillowResizeSubmit(obj, out, in)
  /\ UNCHANGED live

\* Mutant: the output is returned to Python even when PillowResizeInto threw.
PillowResizeReturnsOnThrow(in, outShape) ==
  /\ CanCreate(2)
  /\ PillowResizeSubmit(Append(obj, Tensor(outShape)), NextId, in)
  /\ live' = live \cup {NextId}

\* Tensor::Create(out_shape, ...), then PillowResizeInto; the output is
\* returned to Python.
PillowResize(in, outShape) ==
  /\ CanCreate(2)
  /\ PillowResizeSubmit(Append(obj, Tensor(outShape)), NextId, in)
  /\ live' = IF IsImageTensor(obj[in]) /\ Len(outShape) = 3
             THEN live \cup {NextId} ELSE live

\* Operator of VarShapePillowResizeInto: max of the batches' maxSize(),
\* max_batch_size = input.capacity().
VarShapePillowResizeOp(ib, ob) ==
  Op("PillowResize",
     ImgSize(MaxOf(MaxSize(ib).w, MaxSize(ob).w), MaxOf(MaxSize(ib).h, MaxSize(ob).h)),
     ib.cap)

VarShapePillowResizeSubmit(objs, out, in) ==
  LET op == Len(objs) + 1
  IN  /\ obj' = Append(objs, VarShapePillowResizeOp(objs[in], objs[out]))
      /\ pending' = Append(pending,
           Job("PillowResize", [in |-> in, out |-> out, op |-> op], {in, out, op}))
      /\ lastError' = "none"

VarShapePillowResizeInto(out, in) ==
  /\ obj[out].kind = "batch" /\ obj[in].kind = "batch"
  /\ CanCreate(1)
  /\ VarShapePillowResizeSubmit(obj, out, in)
  /\ UNCHANGED live

\* output = ImageBatchVarShape::Create(input.capacity()); the outSizes
\* count must equal input.numImages(); then, for i < input.numImages(),
\* Image::Create of outSizes[i] with input[i]'s format and pushBack (never
\* past the capacity: numImages() <= capacity()); then
\* VarShapePillowResizeInto.
VarShapePillowResize(in, outSizes) ==
  /\ obj[in].kind = "batch"
  /\ CanCreate(2)
  /\ IF Len(outSizes) # Len(obj[in].imgs)
     THEN lastError' = "Invalid outSizes passed" /\ UNCHANGED <<obj, pending, live>>
     ELSE LET ob == Batch(obj[in].cap, [i \in 1..Len(obj[in].imgs) |-> outSizes[i]])
          IN  /\ VarShapePillowResizeSubmit(Append(obj, ob), NextId, in)
              /\ live' = live \cup {NextId}

---------------------------------------------------------------------------
(* NonMaximumSuppression bindings.                                        *)

\* shape()[k]: in range, the extent; past the rank, whatever the storage
\* holds (undefined behaviour), any value.
ShapeAt(s, k) == IF k < Len(s) THEN {s[k + 1]} ELSE {0} \cup Extents

\* CreateOperator<NonMaximumSuppression>(); guard: src and scores
\* LOCK_READ, dst LOCK_WRITE, operator LOCK_NONE; submit; return dst.
NmsSubmit(via, objs, dst, src, scores) ==
  LET op == Len(objs) + 1
  IN  /\ obj' = Append(objs, Op("NonMaximumSuppression", ImgSize(0, 0), 0))
      /\ pending' = Append(pending,
           Job(via, [src |-> src, scores |-> scores, dst |-> dst, op |-> op],
               {src, scores, dst, op}))
      /\ lastError' = "none"

NonMaximumSuppressionInto(dst, src, scores) ==
  /\ \A o \in {dst, src, scores} : obj[o].kind = "tensor"
  /\ CanCreate(1)
  /\ NmsSubmit("NonMaximumSuppressionInto", obj, dst, src, scores)
  /\ UNCHANGED live

\* The rank test, then shape()[0] and shape()[1] of both tensors; dst has
\* src's shape.
NonMaximumSuppression(src, scores) ==
  LET ss == obj[src].shape
      cs == obj[scores].shape
  IN  /\ obj[src].kind = "tensor" /\ obj[scores].kind = "tensor"
      /\ CanCreate(2)
      /\ \E s0 \in ShapeAt(ss, 0), c0 \in ShapeAt(cs, 0),
            s1 \in ShapeAt(ss, 1), c1 \in ShapeAt(cs, 1) :
           CASE Len(ss) - 1 # Len(cs) ->
                  lastError' = "Input src rank must 1 greater than score tensors rank"
                  /\ UNCHANGED <<obj, pending, live>>
             [] s0 # c0 ->
                  lastError' = "Input src and scores must have same batch size"
                  /\ UNCHANGED <<obj, pending, live>>
             [] s1 # c1 ->
                  lastError' = "Input src and scores must have same number of proposal elements"
                  /\ UNCHANGED <<obj, pending, live>>
             [] OTHER ->
                  /\ NmsSubmit("NonMaximumSuppression", Append(obj, Tensor(ss)),
                               NextId, src, scores)
                  /\ live' = live \cup {NextId}

---------------------------------------------------------------------------
(* The Python program and the GPU.                                        *)

\* The program creates a tensor or a batch.
NewObject ==
  /\ Len(obj) < MaxObjs
  /\ \E o \in UserObjects :
       /\ obj' = Append(obj, o)
       /\ live' = live \cup {NextId}
  /\ UNCHANGED <<pending, lastError>>

\* The program drops its last reference to an object.
Drop(o) ==
  /\ live' = live \ {o}
  /\ UNCHANGED <<obj, pending, lastError>>

\* The stream finishes its oldest work; its guard releases its objects.
Complete ==
  /\ pending # <<>>
  /\ pending' = Tail(pending)
  /\ UNCHANGED <<obj, live, lastError>>

Init ==
  /\ obj = <<>>
  /\ live = {}
  /\ pending = <<>>
  /\ lastError = "none"

\* ExportOpPillowResize: pillowresize and pillowresize_into, for tensors
\* and for varshape batches.
PillowResizeCalls ==
  \/ \E in, out \in live :
       \/ PillowResizeInto(out, in)
       \/ VarShapePillowResizeInto(out, in)
  \/ \E in \in live, s \in OutShapes : PillowResize(in, s)
  \/ \E in \in live, sz \in OutSizeLists : VarShapePillowResize(in, sz)

\* ExportOpNonMaximumSuppression: nms / non_maximum_suppression and
\* nms_into / non_maximum_suppression_into.
NmsCalls ==
  \E src, scores \in live :
    \/ NonMaximumSuppression(src, scores)
    \/ \E dst \in live : NonMaximumSuppressionInto(dst, src, scores)

Next ==
  \/ NewObject
  \/ \E o \in live : Drop(o)
  \/ Complete
  \/ PillowResizeCalls
  \/ NmsCalls

Spec == Init /\ [][Next]_vars

---------------------------------------------------------------------------

\* Objects alive: held by the program or by the guard of pending work.
Alive == live \cup UNION {pending[k].guarded : k \in 1..Len(pending)}

TypeOK ==
  /\ Len(obj) <= MaxObjs
  /\ live \subseteq DOMAIN obj
  /\ Len(pending) <= MaxJobs
  /\ \A k \in 1..Len(pending) : Uses(pending[k]) \subseteq DOMAIN obj
  /\ \A o \in DOMAIN obj : obj[o].kind = "batch" => Len(obj[o].imgs) <= obj[o].cap

\* No GPU work reads or writes a freed object: whatever the program drops,
\* and however late the stream runs, every tensor, batch and operator a
\* pending work item uses is still referenced, by the program or by a
\* ResourceGuard of the bindings.
NoUseAfterFree ==
  \A k \in 1..Len(pending) : Uses(pending[k]) \subseteq Alive

\* Width and height of every image of a tensor or batch, and its count.
Fits(o, size) ==
  IF obj[o].kind = "tensor"
  THEN NumCols(obj[o]) <= size.w /\ NumRows(obj[o]) <= size.h
  ELSE \A j \in 1..Len(obj[o].imgs) :
         obj[o].imgs[j].w <= size.w /\ obj[o].imgs[j].h <= size.h
Count(o) == IF obj[o].kind = "tensor" THEN NumSamples(obj[o]) ELSE Len(obj[o].imgs)

\* Every PillowResize work item runs on an operator configured for it: its
\* size covers every image of the input and of the output, and its batch
\* size covers the input's samples (or images).
OpCoversJob ==
  \A k \in 1..Len(pending) :
    LET a == pending[k].args
    IN  pending[k].via = "PillowResize" =>
          /\ Fits(a.in, obj[a.op].size) /\ Fits(a.out, obj[a.op].size)
          /\ Count(a.in) <= obj[a.op].batch

\* Work submitted by the nms binding (not nms_into, which checks nothing)
\* has a src of rank r + 1 and scores of rank r >= 2 that agree on batch
\* size and number of proposals, as the binding's checks say.
NmsInputsAgree ==
  \A k \in 1..Len(pending) :
    LET a  == pending[k].args
        ss == obj[a.src].shape
        cs == obj[a.scores].shape
    IN  pending[k].via = "NonMaximumSuppression" =>
          /\ Len(ss) = Len(cs) + 1 /\ Len(cs) >= 2
          /\ ss[1] = cs[1] /\ ss[2] = cs[2]

=============================================================================
