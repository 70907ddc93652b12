--------------------------- MODULE MCAttorneyQueue ---------------------------
(***************************************************************************)
(* Small instances of AttorneyQueueProperties for TLC.                     *)
(***************************************************************************)
EXTENDS AttorneyQueueProperties

CONSTANTS ann, bob,   \* two attorneys
          ta, tb,     \* a browser tab of each
          l1, l2, c1, \* two leads that exist, a submission
          h1, h2,     \* two requests that change a state
          a1, a2      \* two requests that assign

MCRoster == <<ann, bob>>
MCOneRoster == <<ann>>
MCUser == [a \in Tab |-> IF a = ta THEN ann ELSE bob]
MCViews == [a \in Tab |-> 2]
MCViews3 == [a \in Tab |-> 3]
MCOlder == <<l1>>
MCOlder2 == <<l1, l2>>

\* Bound: any three of the four requests come in, in any order.
MCThreeRequests == Cardinality({r \in Request : ~At(r, "idle")}) <= 3
=============================================================================
