--------------------------- MODULE MCResourcePool ---------------------------
(* Small instances of ResourcePool. *)
EXTENDS ResourcePool, TLC

\* Callers are interchangeable, and so are resources.
CallersAndResources == Permutations(Callers) \union Permutations(Resources)
=============================================================================
