--------------------------- MODULE EffectPromise ----------------------------
(* What an asker is promised of each external write: it is put on the wire *)
(* at most once, an outcome once given is final, "refused" means it was    *)
(* never sent and never will be, and "done" that it was.  Only of an       *)
(* unknown outcome nothing follows.                                        *)
EXTENDS Integers

CONSTANT Actions

VARIABLES outcome, sends

Init == outcome = [a \in Actions |-> "open"] /\ sends = [a \in Actions |-> 0]

Send(a) ==
  /\ outcome[a] \in {"open", "unknown"} /\ sends[a] = 0
  /\ sends' = [sends EXCEPT ![a] = 1] /\ UNCHANGED outcome

Decided(a, o) ==
  /\ o = "refused" => sends[a] = 0
  /\ o = "done" => sends[a] = 1

\* Several actions may be decided at once, by a stop or a recovery.
Decide ==
  /\ outcome' \in [Actions -> {"open", "done", "refused", "unknown"}]
  /\ \A a \in Actions :
       outcome'[a] # outcome[a] => outcome[a] = "open" /\ Decided(a, outcome'[a])
  /\ UNCHANGED sends

Next == (\E a \in Actions : Send(a)) \/ Decide
Spec == Init /\ [][Next]_<<outcome, sends>>
=============================================================================
