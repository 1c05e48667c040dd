----------------------------- MODULE MCKmalloc -----------------------------
(* A heap with two size classes: two objects in a slab of the first, one   *)
(* in a slab of the second.                                                *)
EXTENDS Kmalloc

MCObjectsPerSlab == <<2, 1>>
=============================================================================
