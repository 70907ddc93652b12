--------------------------- MODULE MCPublicPortal ----------------------------
(***************************************************************************)
(* Small instances of PublicPortalProperties for TLC.                      *)
(***************************************************************************)
EXTENDS PublicPortalProperties, TLC

CONSTANTS ann,     \* an attorney
          l1,      \* a lead that exists
          c1, c2,  \* two submissions
          h1,      \* a request that changes a state
          p1,      \* an applicant
          q1       \* a reader

MCRoster == <<ann>>
MCSymmetry == Permutations({c1, c2})
=============================================================================
