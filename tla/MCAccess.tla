------------------------------ MODULE MCAccess -------------------------------
(* Three Google accounts, one of them with two addresses.  The demo user   *)
(* had connected both, and one of them may pass to the second account; the *)
(* third has nothing to do with it.                                        *)
EXTENDS Access, TLC

CONSTANTS ann, bob, cat, old, new1, new2

HeldBy   == [a \in {"ann1", "ann2", "bob1", "cat1"} |->
               CASE a = "bob1" -> bob [] a = "cat1" -> cat [] OTHER -> ann]
OldNames == [p \in {old} |-> "ann2"]
Moves    == {<<bob, "ann2">>}
Mailbox  == [m \in Mail |-> ann]

Alike == Permutations({new1, new2}) \cup Permutations(Sessions)
           \cup Permutations(Requests)
=============================================================================
