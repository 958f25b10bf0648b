----------------------------- MODULE MCTemplate -----------------------------
(* Contents of templates for TLC: good ones, and one for each way that
   validateTemplate refuses, and a cycle, which it lets through. *)
EXTENDS Template

Mate(n, m, deps) == [name |-> n, model |-> m, dependsOn |-> deps]

Chain == [mates |-> <<Mate("a", "", {}), Mate("b", "opus", {"a"})>>, lifecycle |-> "default"]
Single == [mates |-> <<Mate("a", "", {})>>, lifecycle |-> "none"]
Unknown == [mates |-> <<Mate("a", "", {}), Mate("b", "", {"c"})>>, lifecycle |-> "none"]
Twice == [mates |-> <<Mate("a", "", {}), Mate("a", "", {})>>, lifecycle |-> "none"]
WrongModel == [mates |-> <<Mate("a", "gpt", {})>>, lifecycle |-> "none"]
Itself == [mates |-> <<Mate("a", "", {"a"})>>, lifecycle |-> "none"]
Cycle == [mates |-> <<Mate("a", "", {"b"}), Mate("b", "", {"a"})>>, lifecycle |-> "none"]

SomeContents == {Chain, Single, Unknown}
RefusedContents == {Chain, Twice, WrongModel, Itself}
CycleOnly == {Cycle}
=============================================================================
