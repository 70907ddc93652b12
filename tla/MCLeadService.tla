---------------------------- MODULE MCLeadService ----------------------------
(***************************************************************************)
(* Small instances of LeadServiceProperties for TLC.                       *)
(***************************************************************************)
EXTENDS LeadServiceProperties, TLC

CONSTANTS ann, bob,   \* two attorneys, both on the roster
          l1, c1,     \* a lead that exists, a create request
          h1, h2,     \* two requests that change a state
          a1, a2      \* two requests that assign

MCRoster == <<ann, bob>>
MCNoRoster == << >>

\* The two change requests are interchangeable, as are the two assignments.
MCSymmetry == Permutations({h1, h2}) \cup Permutations({a1, a2})
=============================================================================
