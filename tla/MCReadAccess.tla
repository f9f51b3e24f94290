---------------------------- MODULE MCReadAccess ----------------------------
(***************************************************************************)
(* Values for the constants of ReadAccess: those of MCTestCaseApi, and who *)
(* reads.                                                                  *)
(***************************************************************************)
EXTENDS ReadAccess, MCTestCaseApi

OwnerAndAnonymous == {Owner, Anonymous}

\* With a client token the admin is a stranger to the cases of others.
ReadWriters == {Owner, Admin, AdminToken, Anonymous}

ReadUploads == {File("result", body1), File("script", body2)}

VisibilityPatches == {SetVisible("private"), SetVisible("public")}
=============================================================================
