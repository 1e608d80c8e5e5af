------------------------------ MODULE RunLedger ------------------------------
(***************************************************************************)
(* What the database and the report files promise a reader about runs,     *)
(* without saying who writes them, in which order or under which lock:     *)
(* rows of a run appear only while its row in the runs table is open, a    *)
(* run is closed once and stays as it is, only retention thins it out, and *)
(* deletion takes a closed run as a whole.  RunPipeline implements this.   *)
(***************************************************************************)
CONSTANTS
    Runs,
    Outputs,
    Tables,     \* the run-owned tables
    Retained    \* the tables retention applies to

VARIABLES row, owned, files, sent

vars == <<row, owned, files, sent>>

Outcomes == {"completed", "stopped", "error"}

Init ==
    /\ row = [r \in Runs |-> "absent"]
    /\ owned = [r \in Runs |-> {}]
    /\ files = {}
    /\ sent = [r \in Runs |-> {}]

Open(r) ==
    /\ row[r] = "absent"
    /\ row' = [row EXCEPT ![r] = "open"]
    /\ UNCHANGED <<owned, files, sent>>

\* Rows are added to an open run only.
Append(r) ==
    /\ row[r] = "open"
    /\ \E t \in Tables : owned' = [owned EXCEPT ![r] = @ \cup {t}]
    /\ UNCHANGED <<row, files, sent>>

\* A report leaves the system only while its run is open.
Deliver(r) ==
    /\ row[r] = "open"
    /\ \E o \in Outputs :
        /\ sent' = [sent EXCEPT ![r] = @ \cup {o}]
        /\ files' \in IF o = "file" THEN {files \cup {r}} ELSE {files}
    /\ UNCHANGED <<row, owned>>

CloseRow(r) ==
    /\ row[r] = "open"
    /\ \E outcome \in Outcomes : row' = [row EXCEPT ![r] = outcome]
    /\ UNCHANGED <<owned, files, sent>>

\* Retention removes rows of retained tables and nothing else.
Thin ==
    /\ \E gone \in [Runs -> SUBSET Retained] :
        owned' = [r \in Runs |-> owned[r] \ gone[r]]
    /\ UNCHANGED <<row, files, sent>>

\* Deletion takes all rows of a closed run at once; its files follow.
Erase(r) ==
    /\ row[r] \in Outcomes
    /\ row' = [row EXCEPT ![r] = "deleted"]
    /\ owned' = [owned EXCEPT ![r] = {}]
    /\ UNCHANGED <<files, sent>>

Unlink(r) ==
    /\ row[r] = "deleted"
    /\ files' = files \ {r}
    /\ UNCHANGED <<row, owned, sent>>

Next ==
    \/ \E r \in Runs :
        \/ Open(r)
        \/ Append(r)
        \/ Deliver(r)
        \/ CloseRow(r)
        \/ Erase(r)
        \/ Unlink(r)
    \/ Thin

Spec == Init /\ [][Next]_vars
=============================================================================
