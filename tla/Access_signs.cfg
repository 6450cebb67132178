SPECIFICATION Spec
CONSTANTS
    None = None
    Demo = Demo
    ann = ann
    bob = bob
    cat = cat
    old = old
    new1 = new1
    new2 = new2
    Browsers = {b1}
    Requests = {q1, q2}
    Sessions = {s1, s2}
    States = {t1}
    People = {old, new1, new2}
    OldPeople = {old}
    Subjects = {ann, bob, cat}
    Addresses = {"ann1", "ann2", "bob1", "cat1"}
    Holder <- HeldBy
    Movable <- Moves
    OldAddresses = {"ann1", "ann2"}
    FirstAddress <- OldNames
    Mail = {m1}
    Owner <- Mailbox
SYMMETRY Alike
INVARIANT TypeOK OneUserPerSubject MailIsItsHolders MailMovesWhole FormActsForItsReader
CHECK_DEADLOCK FALSE
