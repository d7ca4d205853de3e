---------------------------- MODULE MCPyOperators ----------------------------
(* Model-checking instance of PyOperators.                                 *)
EXTENDS PyOperators

\* Two image tensors (N, H, W) of different sizes; the second is also an
\* NMS src (batch 1, 2 proposals, the 4 box coordinates abstracted to 1)
\* whose scores are the rank-2 tensor; a varshape batch with room for one
\* more image.
MCUserObjects ==
  { Tensor(<<1, 1, 2>>), Tensor(<<1, 2, 1>>), Tensor(<<1, 2>>),
    Batch(2, <<ImgSize(1, 2)>>) }

\* For the rank checks of nms: a rank-2 src of 2 proposals and a rank-1
\* scores tensor, beside the well-formed pair.
MCNmsObjects ==
  { Tensor(<<1, 2, 1>>), Tensor(<<1, 2>>), Tensor(<<1>>) }

\* A larger output than the inputs, in width and in height.
MCOutShapes == { <<1, 2, 2>> }

\* One image per input image, or more images than the input's capacity.
MCOutSizeLists == { <<ImgSize(2, 1)>>, <<ImgSize(1, 1), ImgSize(1, 1), ImgSize(1, 1)>> }

=============================================================================
