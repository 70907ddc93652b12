---------------------------- MODULE MCOperations -----------------------------
(***************************************************************************)
(* A small instance of OperationsProperties for TLC.                       *)
(***************************************************************************)
EXTENDS OperationsProperties

CONSTANTS w1, w2,       \* two workers
          ann, bob,     \* two attorneys, ann being attorney_email
          k1, k2, dev,  \* two signing keys and the placeholder
          l1            \* a lead

\* No roster, or one with the passwords of .env.example.
MCRosters == {[emails |-> {}, placeholder |-> FALSE], [emails |-> {bob}, placeholder |-> TRUE]}
=============================================================================
