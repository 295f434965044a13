------------------------------ MODULE MCCatalog ------------------------------
(* One product in one category; a second category may be added. The requests
   are interchangeable. *)
EXTENDS Catalog

CONSTANTS books, tea

MCInitialProducts == << [details |-> tea, categories |-> << books >>] >>
MCInitialCategories == {books}
RequestSymmetry == Permutations(Requests)
=============================================================================
