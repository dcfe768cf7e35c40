---------------------------- MODULE MCIngestion -----------------------------
(* A small instance of Ingestion for TLC: two workspaces that may connect   *)
(* the same repository, of which one has it from the start.                 *)
EXTENDS Ingestion

CONSTANTS w1, w2, u1, u2, g, r1, r2, f1, f2, old, new, binary, broken

MCRoleOf == w1 :> (u1 :> "ADMIN" @@ u2 :> "VIEWER") @@ w2 :> (u1 :> "DEVELOPER" @@ u2 :> None)
MCSeedRows == <<[id |-> r1, workspace |-> w1, remote |-> g, indexStatus |-> "indexing"]>>
MCPayload == 1 :> [event |-> "push", remote |-> g] @@ 2 :> [event |-> "pull_request", remote |-> g]

At(path, content) == [path |-> path, content |-> content]
MCTree == {<<At(f1, old), At(f2, old)>>, <<At(f1, new)>>, <<At(f2, binary), At(f1, broken)>>}

\* In a behaviour requests come alone, or a run with a few, or runs overlap.
MCQuotas == {[requests |-> 4, triggers |-> 0], [requests |-> 3, triggers |-> 1],
             [requests |-> 2, triggers |-> 2]}
=============================================================================
