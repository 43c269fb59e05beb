--------------------------- MODULE MCAuthSessions ---------------------------
(* Small instances of AuthSessions; the bounds are in the .cfg files.      *)
EXTENDS AuthSessions, TLC

\* Identifiers are alike within their kind; users are not compared with anything.
Symmetric == Permutations(Calls) \union Permutations(Sessions) \union Permutations(Users)
             \union Permutations(Challenges) \union Permutations(Handles)
=============================================================================
