------------------------------- MODULE MCHeap -------------------------------
(* Instances of Heap for TLC: a tag has 4 bytes, a page 16, and the heap    *)
(* asks for 2 pages at least, so a block is cut into up to three pieces.    *)
EXTENDS Heap
=============================================================================
