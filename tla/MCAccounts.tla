----------------------------- MODULE MCAccounts -----------------------------
(* There may be an account at first, from before AuthProvider or of Google's, with
   a subject or without. Requests and Google's users are interchangeable. *)
EXTENDS Accounts, TLC

CONSTANTS ann, pw1

OldAccount == [ Email |-> ann, Password |-> pw1, AuthProvider |-> "",
                OAuthSubject |-> None, by |-> None ]

GoogleAccount(s) ==
    [OldAccount EXCEPT !.Password = None, !.AuthProvider = "google", !.OAuthSubject = s]

MCInitials ==
    { << >>, << OldAccount >> } \cup { << GoogleAccount(s) >> : s \in Subjects \cup {None} }

Symmetry == Permutations(Requests) \cup Permutations(Subjects)
=============================================================================
