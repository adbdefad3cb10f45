------------------------------- MODULE PageMap -------------------------------
(***************************************************************************)
(* What the page tree promises the paging code: a table from pages to      *)
(* frames, in which mapping a page replaces that page's entry by the       *)
(* request's and leaves every other page alone.                            *)
(***************************************************************************)
CONSTANTS Pages, Frames, FlagSets, Unmapped

VARIABLES request, translation

mapVars == <<request, translation>>

Requests == [page : Pages, frame : Frames, flags : FlagSets]

Init ==
    /\ request \in Requests
    /\ translation = [p \in Pages |-> Unmapped]

Ask(r) == request' = r /\ UNCHANGED translation

Map ==
    /\ translation' = [translation EXCEPT ![request.page] =
                          [address |-> request.frame, flags |-> request.flags]]
    /\ UNCHANGED request

Next == Map \/ \E r \in Requests : Ask(r)

Spec == Init /\ [][Next]_mapVars
=============================================================================
