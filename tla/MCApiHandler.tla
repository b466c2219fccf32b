---------------------------- MODULE MCApiHandler ----------------------------
(* Small instances of ApiHandler for TLC. *)
EXTENDS ApiHandler, TLC

\* Names with and without the characters that URLs encode.
MCNames == {<<"x", "blank", "x">>, <<"x", "plus">>, <<"x", "percent">>}

\* A developer's environment, one with a local AWS, and the stack of a stage.
Developer == [StackEnvironment("local") EXCEPT !.provider = "fake", !.models = FALSE]

MCEnvironments == {Developer, [Developer EXCEPT !.endpoint = TRUE], StackEnvironment("dev")}

DeployedEnvironments == {StackEnvironment("prod")}

Symmetric == Permutations(Owners) \cup Permutations(Requests)
=============================================================================
