------------------------------- MODULE Entities -------------------------------
(***************************************************************************)
(* The C++ handle wrappers of NVCV and CV-CUDA over the C handle API:     *)
(*   - nvcv::Tensor, TensorWrapData, TensorWrapImage (Tensor.hpp) and the *)
(*     Python binding's Image (python/mod_nvcv/Image.hpp), whose copy     *)
(*     constructors are deleted;                                          *)
(*   - the operators cvcuda::Remap (OpRemap.hpp) and BndBox, whose        *)
(*     constructor creates an operator handle, whose operator() submits   *)
(*     work with it and whose destructor destroys it.                     *)
(* A C++ object lives in a slot of Objs and holds one C handle.  The C    *)
(* layer (nvcvTensor*, cvcuda*Create, nvcvOperatorDestroy) is not in the  *)
(* repository; it is modelled from the spec: a handle is taken from the   *)
(* free ones and is never reused.  Allocation, descriptors and cleanup    *)
(* callbacks are left out: no property here tells them apart.             *)
(***************************************************************************)
EXTENDS Naturals, Sequences

CONSTANTS
  Objs,       \* slots for C++ objects
  Handles,    \* C handles the library can hand out
  NoHandle    \* m_handle before a successful create, and after ~BndBox

ASSUME NoHandle \notin Handles

EntityClasses == {"Tensor", "TensorWrapData", "TensorWrapImage", "Image"}
OperatorClasses == {"Remap", "BndBox"}
Classes == EntityClasses \cup OperatorClasses

VARIABLES
  cls,        \* object -> its class, "none" before construction
  st,         \* object -> "none", "live" or "dead"
  h,          \* object -> m_handle
  hstate,     \* handle -> "free", "live" or "destroyed" (C registry)
  base,       \* TensorWrapImage object -> image it views
  invalidUse  \* a destroy or submit was given a handle that is not live

vars == <<cls, st, h, hstate, base, invalidUse>>

Init ==
  /\ cls = [o \in Objs |-> "none"]
  /\ st = [o \in Objs |-> "none"]
  /\ h = [o \in Objs |-> NoHandle]
  /\ hstate = [x \in Handles |-> "free"]
  /\ base = [o \in Objs |-> o]
  /\ invalidUse = FALSE

---------------------------------------------------------------------------
(* The C handle registry (spec-modelled).                                  *)

\* A create call of the C API: a free handle becomes live in m_handle.
HandleCreate(o, x) ==
  /\ hstate[x] = "free"
  /\ hstate' = [hstate EXCEPT ![x] = "live"]
  /\ h' = [h EXCEPT ![o] = x]

\* nvcvTensorDestroy / nvcvOperatorDestroy; on a handle that is not live
\* the call is undefined, recorded in invalidUse.
HandleDestroy(x) ==
  /\ hstate' = [hstate EXCEPT ![x] = "destroyed"]
  /\ invalidUse' = (invalidUse \/ hstate[x] # "live")

\* The C++ object o comes to life as class c.
Born(o, c) ==
  /\ st[o] = "none"
  /\ st' = [st EXCEPT ![o] = "live"]
  /\ cls' = [cls EXCEPT ![o] = c]

---------------------------------------------------------------------------
(* Entities.                                                               *)

\* Tensor(reqs, alloc): nvcvTensorConstruct.  A failed construction
\* throws and leaves nothing behind, so only success is a step.
TensorCtor(o) ==
  \E x \in Handles :
    /\ Born(o, "Tensor") /\ HandleCreate(o, x)
    /\ UNCHANGED <<base, invalidUse>>

\* TensorWrapData(data, cleanup): nvcvTensorWrapDataConstruct.
TensorWrapDataCtor(o) ==
  \E x \in Handles :
    /\ Born(o, "TensorWrapData") /\ HandleCreate(o, x)
    /\ UNCHANGED <<base, invalidUse>>

\* TensorWrapImage(img): a view of a live image's memory.
TensorWrapImageCtor(o) ==
  \E x \in Handles, img \in Objs :
    /\ cls[img] = "Image" /\ st[img] = "live"
    /\ Born(o, "TensorWrapImage") /\ HandleCreate(o, x)
    /\ base' = [base EXCEPT ![o] = img]
    /\ UNCHANGED invalidUse

\* Image::Create and Image::WrapExternalBuffer: an image handle.
ImageCtor(o) ==
  \E x \in Handles :
    /\ Born(o, "Image") /\ HandleCreate(o, x)
    /\ UNCHANGED <<base, invalidUse>>

\* The destructor of an entity destroys its handle.  A TensorWrapImage
\* must not outlive its image (documented precondition), so an image is
\* destroyed only when no live view of it remains.
EntityDtor(o) ==
  /\ cls[o] \in EntityClasses /\ st[o] = "live"
  /\ cls[o] = "Image" =>
       \A v \in Objs : ~(cls[v] = "TensorWrapImage" /\ st[v] = "live" /\ base[v] = o)
  /\ st' = [st EXCEPT ![o] = "dead"]
  /\ HandleDestroy(h[o])
  /\ UNCHANGED <<cls, h, base>>

---------------------------------------------------------------------------
(* Operators.                                                              *)

\* Remap() / BndBox(): CheckThrow(cvcuda*Create(&m_handle)).  A failed
\* create throws, so no object exists; only success is a step.
OpCtor(o) ==
  \E c \in OperatorClasses, x \in Handles :
    /\ Born(o, c) /\ HandleCreate(o, x)
    /\ UNCHANGED <<base, invalidUse>>

\* ~Remap(): nvcvOperatorDestroy(m_handle); ~BndBox() also sets m_handle
\* to nullptr afterwards.
OpDtor(o) ==
  /\ cls[o] \in OperatorClasses /\ st[o] = "live"
  /\ st' = [st EXCEPT ![o] = "dead"]
  /\ HandleDestroy(h[o])
  /\ h' = IF cls[o] = "BndBox" THEN [h EXCEPT ![o] = NoHandle] ELSE h
  /\ UNCHANGED <<cls, base>>

\* The ITensor arguments of a call: C++ references, so live objects.
LiveTensors ==
  {t \in Objs : cls[t] \in EntityClasses \ {"Image"} /\ st[t] = "live"}

\* The handles BndBox::operator()(stream, in, out, bboxes) passes to
\* cvcudaBndBoxSubmit(m_handle, stream, in.handle(), out.handle(), bboxes).
BndBoxSubmitArgs(o, in, out) == {h[o], h[in], h[out]}

\* The handles Remap::operator()(stream, in, out, map, ...) passes to
\* cvcudaRemapSubmit(m_handle, stream, in.handle(), out.handle(), map.handle(), ...).
RemapSubmitArgs(o, in, out, map) == {h[o], h[in], h[out], h[map]}

\* operator(): CheckThrow(cvcuda*Submit(...)).  Every handle passed must be
\* live; the work itself runs on the GPU and is not modelled here.
OpSubmit(o) ==
  \E in, out, map \in LiveTensors :
    LET passed == IF cls[o] = "Remap" THEN RemapSubmitArgs(o, in, out, map)
                                      ELSE BndBoxSubmitArgs(o, in, out)
    IN  /\ cls[o] \in OperatorClasses /\ st[o] = "live"
        /\ invalidUse' = (invalidUse \/ \E x \in passed : x \notin Handles \/ hstate[x] # "live")
        /\ UNCHANGED <<cls, st, h, hstate, base>>

\* The copy constructor the compiler generates for Remap and BndBox, which
\* declare none: the copy holds the same m_handle.
OpCopy(o) ==
  \E src \in Objs :
    /\ cls[src] \in OperatorClasses /\ st[src] = "live"
    /\ Born(o, cls[src])
    /\ h' = [h EXCEPT ![o] = h[src]]
    /\ UNCHANGED <<hstate, base, invalidUse>>

---------------------------------------------------------------------------

\* A program that builds, uses, copies and destroys these objects in any
\* order.
Next ==
  \E o \in Objs :
    \/ TensorCtor(o) \/ TensorWrapDataCtor(o) \/ TensorWrapImageCtor(o)
    \/ ImageCtor(o) \/ EntityDtor(o)
    \/ OpCtor(o) \/ OpSubmit(o) \/ OpDtor(o) \/ OpCopy(o)

Spec == Init /\ [][Next]_vars

---------------------------------------------------------------------------

\* No destructor or submit hands the C API a handle that was already
\* destroyed: nvcvOperatorDestroy runs once per operator handle, and
\* cvcuda*Submit only ever gets the handle of a live operator.
NoInvalidHandleUse == ~invalidUse

=============================================================================
