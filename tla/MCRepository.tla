---------------------------- MODULE MCRepository ----------------------------
(* Two processes on a fresh directory: one names the key of an encrypted
   repository, the other reads it from the repository's metadata. *)
EXTENDS Repository, TLC

MCProcs == {"a", "b"}
MCConfig == [p \in MCProcs |->
    [profile |-> Encrypted, keyRef |-> IF p = "a" THEN "k1" ELSE Absent]]
MCNames == [r \in {"commit"} |-> {"blob"}]
=============================================================================
