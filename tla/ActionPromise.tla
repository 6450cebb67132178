---------------------------- MODULE ActionPromise ----------------------------
(***************************************************************************)
(* What ActionInbox promises the owner of a task about an action: it is    *)
(* proposed, runs only with the owner's consent, adds its row once and     *)
(* only while it is approved, and never leaves the outcome it reached.     *)
(* An email has one action at a time.                                      *)
(***************************************************************************)
CONSTANTS Actions, TableActions, Older

VARIABLES
    phase,    \* how far each action is
    consent,  \* the actions their owner approved
    written   \* the table actions whose append was issued

promiseVars == <<phase, consent, written>>

Init ==
    /\ phase = [a \in Actions |-> "absent"]
    /\ consent = {}
    /\ written = {}

Moves(a, from, to) ==
    /\ phase[a] \in from
    /\ phase' = [phase EXCEPT ![a] = to]

Propose(a) ==
    /\ \A b \in Older[a] : phase[b] = "deleted"
    /\ Moves(a, {"absent"}, "proposed")
    /\ UNCHANGED <<consent, written>>

Approve(a) ==
    /\ Moves(a, {"proposed"}, "approved")
    /\ consent' = consent \cup {a}
    /\ UNCHANGED written

(* A worker that was already writing when the task was removed finishes.   *)
Write(a) ==
    /\ a \in consent \ written
    /\ phase[a] \in {"approved", "deleted"}
    /\ written' = written \cup {a}
    /\ UNCHANGED <<phase, consent>>

Finish(a) ==
    /\ a \in TableActions => a \in written
    /\ Moves(a, {"approved"}, "done")
    /\ UNCHANGED <<consent, written>>

Stop(a) == Moves(a, {"approved"}, "stopped") /\ UNCHANGED <<consent, written>>

Cancel(a) ==
    /\ Moves(a, {"proposed", "approved"}, "cancelled")
    /\ UNCHANGED <<consent, written>>

Remove(a) ==
    /\ a \in TableActions => phase[a] # "done"
    /\ Moves(a, {"absent", "proposed", "approved", "done", "stopped",
                 "cancelled"}, "deleted")
    /\ UNCHANGED <<consent, written>>

Next ==
    \/ \E a \in Actions :
         Propose(a) \/ Approve(a) \/ Finish(a) \/ Stop(a) \/ Cancel(a) \/ Remove(a)
    \/ \E a \in TableActions : Write(a)

Spec == Init /\ [][Next]_promiseVars
=============================================================================
