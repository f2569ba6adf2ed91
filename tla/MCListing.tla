------------------------------ MODULE MCListing ------------------------------
(* A small instance of the lists and their writers. *)
EXTENDS Listing

\* What tells states apart: not the status of the last answer, which is
\* written and never read, nor, between two walks, what is left of the last
\* one, which the next Begin overwrites unread.
Observed ==
    <<storeVars, walking,
      IF walking = None THEN None ELSE <<token, got, stay, removed, added, repeated>>>>
=============================================================================
