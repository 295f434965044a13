------------------------------ MODULE MCRanking ------------------------------
(* Two products with a category each and one they share; one that goes has none. *)
EXTENDS Ranking, TLC

CONSTANTS desk, lamp, office, light, home

MCShelf == [p \in {desk, lamp} |-> IF p = desk THEN {office, home} ELSE {light, home}]

MCRawScores == {-1, 2}

(* Users are alike, and so are the products with their categories. *)
MCSymmetry == Permutations(Users) \cup
    {desk :> lamp @@ lamp :> desk @@ office :> light @@ light :> office}
=============================================================================
