----------------------------- MODULE MCFileStore -----------------------------
(***************************************************************************)
(* A small mix of requests for FileStore: two names that sanitize alike    *)
(* and one that is refused, two types of files, and one file of an older   *)
(* build.                                                                  *)
(***************************************************************************)
EXTENDS FileStore

SafeNames == [n \in {"a b", "a_b", ".."} |-> IF n = ".." THEN Invalid ELSE "a_b"]

SomeUploads ==
    {ask \in Uploads : /\ ask.type # "Other"
                       /\ ask.name # "a b" => ask.type = "Client RFQ"
                       /\ ask.fits <=> ask.name # ".."}

SomeKinds == SomeUploads \cup Downloads \cup Deletions

\* One who may delete all files, and one who may delete no file of the stage.
Estimator == [team |-> "estimation", permissions |-> {Permission("rfq", Any), Permission("rfq_stage", Any),
                                                      Permission("file", "delete")}]
Clerk == [team |-> NoTeam, permissions |-> {Permission("file", "download"), Permission("file", "delete")}]

SomePrincipals == {Estimator, Clerk}
DemoUser == [team |-> "workspace", permissions |-> {Permission("file", Any)}]
=============================================================================
