----------------------------- MODULE MCUploadCli -----------------------------
(***************************************************************************)
(* Values for the constants of UploadCli; uploads of other clients come    *)
(* from MCTestCaseApi.                                                     *)
(***************************************************************************)
EXTENDS UploadCli, MCTestCaseApi

CONSTANTS c1, hash1, hash2, run

OnDisk(name, scope, body) == [name |-> name, content |-> [scope |-> scope, body |-> body]]
Unreadable == [name |-> res1, content |-> None]

\* A snapshot and a result, with the id of the case or without.
Minimal ==
    [env |-> OnDisk(script1, "execution", body1), result |-> OnDisk(res1, "none", body1),
     scripts |-> <<>>, raws |-> <<>>, logs |-> <<>>, others |-> <<>>, caseID |-> None]
WithCase(flags) == [flags EXCEPT !.caseID = c1]

\* The result and a script have one base name.
SameName == [Minimal EXCEPT !.scripts = <<OnDisk(res1, "none", body2)>>]

Commands == {Minimal, WithCase(SameName)}

\* run#1.log and run#2.log arrive as run; and a result that cannot be read.
HashNames ==
    {[Minimal EXCEPT !.logs = <<OnDisk(hash1, "none", body1), OnDisk(hash2, "none", body2)>>],
     [Minimal EXCEPT !.result = Unreadable]}
CutAtHash == [f \in {hash1, hash2} |-> run]
NothingToCut == [f \in {} |-> None]

NoUploads == {}
=============================================================================
