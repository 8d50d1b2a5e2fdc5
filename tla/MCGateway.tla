----------------------------- MODULE MCGateway -----------------------------
(***************************************************************************)
(* Four requests of two users in one project, so that both limits are      *)
(* reached, and two workers.  The profile is local or remote, a component  *)
(* file turns generation on or is empty, and the environment leaves things *)
(* as they are or spoils one of them.                                      *)
(***************************************************************************)
EXTENDS Server, TLC

Empty == [k \in Key |-> Missing]
With(key, value) == [Empty EXCEPT ![key] = value]

MCProfile ==
  {With("max_per_user", MaxPerUser),
   [Empty EXCEPT !["max_per_user"] = MaxPerUser, !["embedding"] = "remote",
                 !["embedding_key"] = "sk-1"]}

MCComponents == {Empty, With("generation", "yes")}

MCEnviron ==
  {Empty,
   With("generation", "maybe"),
   With("max_per_user", Invalid),
   With("embedding", "openrouter"),
   With("generation_provider", "other"),
   With("max_per_user", 0)}

Interchangeable == Permutations(Request) \cup Permutations(User) \cup
                   Permutations(Worker)
=============================================================================
