------------------------------ MODULE MCEntities ------------------------------
EXTENDS Entities

CONSTANTS o1, o2, x1, x2

\* Two objects, an operator and its copy, and a handle for each object.
MCObjs == {o1, o2}
MCHandles == {x1, x2}
=============================================================================
