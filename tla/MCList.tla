------------------------------- MODULE MCList -------------------------------
(* Small instances of List. *)
EXTENDS List, TLC

\* Up to two arguments.
UpToTwo == {<<>>} \union {<<e>> : e \in Elements}
                  \union {<<d, e>> : d, e \in Elements}

\* Nodes and elements are only ever compared.
Interchangeable ==
  Permutations(Nodes) \union Permutations(Elements)
=============================================================================
