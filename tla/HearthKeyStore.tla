--------------------------- MODULE HearthKeyStore ---------------------------
(***************************************************************************)
(* What Preferences promises, whatever it keeps its records in: a map from *)
(* names to values, and the copy of it that a power loss leaves.  Every    *)
(* step names the call it is, with its arguments, so that what a call did  *)
(* can be held against what it was asked.                                  *)
(***************************************************************************)
CONSTANTS
  Spaces,  \* namespaces
  Names,   \* namespace and key
  Values,
  Absent   \* a name that holds no value

VARIABLES
  now,     \* what a get answers
  kept,    \* what a get would answer after a power loss
  call,    \* the last operation, with its arguments
  result   \* what it returned: "ok" or "failed"

vars == <<now, kept, call, result>>

Nothing == [n \in Names |-> Absent]

Init ==
  /\ now = Nothing /\ kept = now
  /\ call = [op |-> "none"] /\ result = "ok"

\* An operation that succeeds is saved before it returns; one that could not
\* be saved has changed what a get answers until the next power loss.
Saved ==
  \/ result' = "ok" /\ kept' = now'
  \/ result' = "failed" /\ kept' = kept

\* A put changes its own name only, to the value it was given.  With no room
\* for it, the name is lost, and that may be saved.
Put(n, v) ==
  /\ call' = [op |-> "put", name |-> n, value |-> v]
  /\ \/ now' = [now EXCEPT ![n] = v] /\ Saved
     \/ /\ now' = [now EXCEPT ![n] = Absent] /\ kept' \in {kept, now'}
        /\ result' = "failed"

\* Nothing to remove is a failure.
Remove(n) ==
  /\ call' = [op |-> "remove", name |-> n]
  /\ \/ now[n] # Absent /\ now' = [now EXCEPT ![n] = Absent] /\ Saved
     \/ now[n] = Absent /\ result' = "failed" /\ UNCHANGED <<now, kept>>

\* One namespace goes, the others stay.
Clear(s) ==
  /\ call' = [op |-> "clear", space |-> s]
  /\ now' = [n \in Names |-> IF n[1] = s THEN Absent ELSE now[n]] /\ Saved

\* The first handle lays the store out.
Begin ==
  /\ call' = [op |-> "begin"] /\ result' = "ok"
  /\ UNCHANGED now
  /\ \/ UNCHANGED kept
     \/ now = Nothing /\ kept' = now

End == call' = [op |-> "end"] /\ result' = "ok" /\ UNCHANGED <<now, kept>>

\* A put, a remove or a clear on a handle that is closed or read-only.
Refused == call' = [op |-> "refused"] /\ result' = "failed" /\ UNCHANGED <<now, kept>>

PowerLoss ==
  /\ now' = kept /\ UNCHANGED kept
  /\ call' = [op |-> "none"] /\ result' = "ok"

Next ==
  \/ \E n \in Names, v \in Values : Put(n, v)
  \/ \E n \in Names : Remove(n)
  \/ \E s \in Spaces : Clear(s)
  \/ Begin \/ End \/ Refused \/ PowerLoss

Spec == Init /\ [][Next]_vars
=============================================================================
