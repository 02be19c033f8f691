---------------------------- MODULE MCCloudInit ----------------------------
(***************************************************************************)
(* Small instances of CloudInit.                                           *)
(***************************************************************************)
EXTENDS CloudInit

CONSTANTS u1, u2, k1, d1, d2, r1, r2, r3, r4, r5, r6

\* Ids and directories have no order of their own, so it is enough to hand
\* ids out in one, and to have the command run in the first directory.  Nor
\* have users while both are idle, so it is enough that the first one starts.
InOrder ==
    /\ \A r \in used' \ used : r = CHOOSE q \in RepoId : q \notin used
    /\ Active(u2)' => Active(u2) \/ Active(u1)

\* Inits meet with all the faults, commands that load with all but the last.
Loading == \E k \in Reader : found[k] # Nowhere \/ loaded[k] # <<>>
FewFaults == faults = MaxFaults => ~Loading

OrderedSpec ==
    /\ Init /\ \A k \in Reader : at[k] = d1
    /\ [][Next /\ InOrder /\ FewFaults']_vars /\ Fairness

=============================================================================
