-------------------------- MODULE MCSourceBinding --------------------------
(* Instances of SourceBinding for TLC: no scans, since bindings refer to   *)
(* data sources and not to what was imported from them.                    *)
EXTENDS SourceBinding, TLC

CONSTANTS m1, m2

MCNothing    == <<>>
MCDesigns    == {[tables |-> <<>>, views |-> {}, columns |-> <<>>, keys |-> {}]}
\* The first and the last repository have the same remote, the second none.
MCSharedRemote == [r \in Repositories |-> CASE r = 2 -> None [] r = 3 -> m2 [] OTHER -> m1]

MCSymmetry == Permutations(Sources) \cup Permutations(Names) \cup Permutations(Agents)
                 \cup Permutations(Requests)
=============================================================================
