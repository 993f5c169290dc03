---------------------------- MODULE InboxProofs -----------------------------
(***************************************************************************)
(* Proofs about the Inbox, for any number of Hosts, messages and           *)
(* conversations, with stalled Hosts, revocation, crashes and operator     *)
(* retries.  Every step is a Move of every message (lemma EveryMove) and a *)
(* change of the operations and transitions of a few forms (OpsMove,       *)
(* TransMove); the invariant and the action properties follow by cases on  *)
(* those, not on the actions of Inbox.tla.                                 *)
(***************************************************************************)
EXTENDS InboxPromise, TLAPS

-----------------------------------------------------------------------------
(* The inductive invariant.                                                *)

RowOK(r) ==
  /\ r \in Row
  /\ r.attempts <= r.fence
  /\ IF r.status = "claimed"
     THEN r.attempts >= 1 /\ r.claimedBy \in Hosts /\ r.token = r.fence /\ r.open
     ELSE r.claimedBy = NoHost /\ ~r.live /\ ~r.open
  /\ r.status \in {"queued", "claimed", "retry_wait"} => r.gen # 0
  /\ r.status \in {"absent", "received"} =>
       r.gen = 0 /\ r.fence = 0 /\ r.runs = 0 /\ r.retries = 0

\* A recovery marker belongs to a permission command; what is claimed from
\* a conversation carries no other code than its dispatch marker.
CodeOK(m, r) ==
  /\ r.code = "recovery" => KindOf[m] = "permission"
  /\ r.status = "claimed" /\ KindOf[m] \in {"turn", "stop", "new"}
     => r.code \in {"none", "started"}
  /\ r.code = "native" => r.retries = 0 /\ r.status = "claimed"

\* The dispatch a message has left is spent only with the marker on its row.
BudgetOK(m, r) ==
  KindOf[m] # "permission" =>
    /\ r.runs <= 1 + r.retries
    /\ \/ r.runs <= r.retries
       \/ r.status \in Finished
       \/ r.status = "claimed" /\ r.code \in {"native", "started"}

\* No more attempts count than the budget and the operator allow.
TriesOK(m, r) ==
  KindOf[m] # "permission" =>
    /\ r.attempts <= MaxAttempts + r.retries
    /\ r.status = "queued" => r.attempts < MaxAttempts + r.retries

\* The operation has not dispatched.
Pre(o) == o.phase \in {"prep", "open", "begun"}

\* ... so neither has the claim it holds.
Unspent(o) ==
  LET r == inbox[o.msg] IN
  /\ Pre(o) /\ KindOf[o.msg] # "permission" /\ r.status = "claimed" /\ r.token = o.token
  => /\ r.runs <= r.retries /\ r.code # "started"
     /\ KindOf[o.msg] \in {"turn", "stop", "new"} => r.code = "none"

\* An operation that has dispatched, while it holds the claim, has left the
\* marker on the row.
Spent(o) ==
  LET r == inbox[o.msg] IN
  o.phase = "run" /\ KindOf[o.msg] # "permission" /\ r.status = "claimed" /\ r.token = o.token
  => Dispatched(r)

\* Only turns and permission commands are cancelled.
Unstopped(o) ==
  KindOf[o.msg] \in {"stop", "new", "native"} => ~o.stopped /\ o.phase # "safe"

Same(o, p) == o.msg = p.msg /\ o.token = p.token

\* Everything the conversation received before m has been driven.
Sealed(m) ==
  \A e \in 1..(m - 1) : ConvOf[e] = ConvOf[m] => inbox[e].status \notin {"absent", "received"}

\* A turn that will start no more.
Past(e) ==
  inbox[e].status \in Finished \/ (inbox[e].status = "claimed" /\ inbox[e].code = "started")

\* A command whose fence has been raised.
Raised(m) == inbox[m].gen # 0 \/ \E h \in Hosts : trans[h][ConvOf[m]].msg = m

Shape == TypeOK /\ \A m \in Msgs : RowOK(inbox[m]) /\ CodeOK(m, inbox[m])
OpsOK ==
  /\ \A o \in ops : o.token <= inbox[o.msg].fence /\ Unstopped(o)
  /\ \A o, p \in ops : Same(o, p) => o = p
Budgets ==
  /\ \A m \in Msgs : BudgetOK(m, inbox[m]) /\ TriesOK(m, inbox[m])
  /\ \A o \in ops : Unspent(o) /\ Spent(o)
NoGaps ==
  \A m \in Msgs : \A e \in 1..(m - 1) :
    inbox[m].status # "absent" => inbox[e].status # "absent"
Seals ==
  /\ \A m \in Msgs : inbox[m].gen # 0 => Sealed(m)
  /\ \A h \in Hosts, c \in Convs : LET m == trans[h][c].msg IN
       m # 0 => m \in Msgs /\ Command(m) /\ ConvOf[m] = c /\ Sealed(m)
Boundaries ==
  \A m \in Msgs : \A e \in 1..(m - 1) :
    /\ Command(m) /\ Raised(m)
    /\ ConvOf[e] = ConvOf[m] /\ KindOf[e] = "turn" /\ inbox[e].retries = 0
    => Past(e)

IInv == /\ Shape /\ OpsOK /\ Budgets /\ NoGaps /\ Seals /\ Boundaries
        /\ LaneExclusive /\ InOrder

-----------------------------------------------------------------------------
(* What a step may do to message m.                                        *)

\* Rows that differ in nothing the invariant asks about but the code.
Alike(r, k) ==
  /\ k \in Row /\ k.status = r.status /\ k.claimedBy = r.claimedBy /\ k.token = r.token
  /\ k.live => r.live
  /\ k.attempts = r.attempts /\ k.fence = r.fence /\ k.open = r.open
  /\ k.gen = r.gen /\ k.runs = r.runs /\ k.retries = r.retries

\* The claim of r, if any, is given up.
Released(r, k) ==
  /\ k \in Row /\ k.claimedBy = NoHost /\ ~k.live /\ ~k.open
  /\ k.attempts \in {r.attempts, r.attempts - 1} /\ k.fence = r.fence
  /\ k.gen = r.gen /\ k.runs = r.runs /\ k.retries = r.retries

\* No operation may have dispatched the claim of m.
Undecided(m) ==
  \/ KindOf[m] = "permission"
  \/ inbox[m].code \notin {"native", "started"}
  \/ \E o \in ops : o.msg = m /\ o.token = inbox[m].token /\ Pre(o)

\* The message can be processed: a turn is also answered without being
\* executed, a permission command by its reply, all else by its execution.
Earned(m) ==
  \/ KindOf[m] \in {"turn", "permission"}
  \/ \E o \in ops : /\ o.msg = m /\ o.phase = "run"
                    /\ inbox[m].status = "claimed" /\ inbox[m].token = o.token

Ends(m, k) ==
  /\ Released(inbox[m], k) /\ k.attempts = inbox[m].attempts
  /\ k.status = "processed" => Earned(m)
  /\ inbox[m].status \notin Finished \cup {"absent"}
  /\ k.status \in Finished /\ k.code \in {"none", "other"}

Waits(m, k) ==
  /\ Released(inbox[m], k)
  /\ inbox[m].status = "claimed" /\ Undecided(m)
  /\ k.status = "retry_wait"
  /\ k.code = "other" \/ (k.code = "recovery" /\ KindOf[m] = "permission")

\* Who may end a live claim.
Permitted(m) ==
  inbox[m].status = "claimed" /\ inbox[m].live
  => \/ \E o \in ops \ ops' : /\ o.msg = m /\ o.host = inbox[m].claimedBy
                              /\ o.token = inbox[m].token
     \/ inbox[m].code = "none" /\ inbox'[m].status = "dead_letter"
        /\ \E h \in Hosts : trans'[h][ConvOf[m]].msg > m

Stays(m) ==
  /\ Alike(inbox[m], inbox'[m])
  /\ \/ inbox'[m].code = inbox[m].code
     \/ KindOf[m] = "permission" /\ inbox[m].status = "claimed" /\ inbox'[m].code = "recovery"

Concludes(m) == (Ends(m, inbox'[m]) \/ Waits(m, inbox'[m])) /\ Permitted(m)

Arrives(m) ==
  /\ inbox[m].status = "absent" /\ \A e \in 1..(m - 1) : inbox[e].status # "absent"
  /\ inbox'[m] = [Absent EXCEPT !.status = "received"]

Queues(m) ==
  /\ inbox[m].status = "received" /\ Sealed(m)
  /\ Command(m) => \E h \in Hosts : trans[h][ConvOf[m]].msg = m
  /\ \E g \in Nat \ {0} :
       /\ g = gen'[ConvOf[m]]
       /\ inbox'[m] = [inbox[m] EXCEPT !.status = "queued", !.gen = g]

Revives(m) ==
  /\ inbox[m].status = "dead_letter" /\ inbox[m].gen # 0
  /\ \E d \in Nat : inbox'[m] = [inbox[m] EXCEPT !.status = "queued", !.code = "none",
                                   !.decided = d, !.retries = @ + 1]

Marks(m, o) ==
  /\ o.msg = m /\ Pre(o) /\ Current(o)
  /\ \A p \in ops' : Same(o, p) => ~Pre(p)
  /\ inbox'[m] = [inbox[m] EXCEPT
       !.code = IF @ \in {"native", "recovery"} THEN @ ELSE "started",
       !.runs = @ + IF inbox[m].code = "recovery" THEN 0 ELSE 1]

\* What a tick makes of the row before it claims anything.
Swept(m, k) ==
  \/ k = inbox[m]
  \/ /\ Ends(m, k) \/ Waits(m, k)
     /\ k.attempts = inbox[m].attempts /\ ~(inbox[m].status = "claimed" /\ inbox[m].live)

\* Nothing before m is unfinished and nothing else claimed after the step.
Alone(m) ==
  /\ \A e \in 1..(m - 1) : inbox'[e].gen # 0 => inbox'[e].status \in Finished
  /\ \A a \in Msgs \ {m} : inbox'[a].status # "claimed"

Ticks(m, h) ==
  \E k \in Row :
    /\ Swept(m, k)
    /\ \/ inbox'[m] = k
       \/ /\ k.status \in {"queued", "retry_wait"} /\ k.gen # 0
          /\ k.status = "retry_wait" => ~Exhausted(k)
          /\ inbox'[m] = Claim(k, h) /\ Alone(m)

NativeClaim(g, h) == [Claim([Absent EXCEPT !.gen = g], h) EXCEPT !.code = "native"]

\* Native input is admitted and claimed.
Enters(m, h) ==
  /\ inbox[m].status = "absent" /\ \A e \in 1..(m - 1) : inbox[e].status # "absent"
  /\ KindOf[m] = "native"
  /\ \E g \in Nat \ {0} : g = gen'[ConvOf[m]] /\ inbox'[m] = NativeClaim(g, h)
  /\ \A e \in Msgs \ {m} :
       /\ inbox'[e] = inbox[e]
       /\ Unfinished(e) => inbox[e].gen = 0 /\ ConvOf[e] # ConvOf[m]

Move(m) ==
  \/ Stays(m) \/ Concludes(m) \/ Arrives(m) \/ Queues(m) \/ Revives(m)
  \/ \E o \in ops : Marks(m, o)
  \/ \E h \in Hosts : Ticks(m, h) \/ Enters(m, h)

(* What a step may do to the operations: each one of ops' goes on from one *)
(* of ops, or starts with the claim of its message.                        *)
Follows(o, p) ==
  /\ Same(o, p) /\ (Pre(p) => Pre(o)) /\ (Unstopped(o) => Unstopped(p))
  /\ p.phase = "run" => o.phase = "run" \/ Marks(o.msg, o)
Starts(p) ==
  /\ p.token = inbox'[p.msg].fence /\ inbox'[p.msg].fence = inbox[p.msg].fence + 1
  /\ Pre(p) /\ ~p.stopped
OpsMove ==
  /\ ops' \subseteq Op
  /\ \A p \in ops' : (\E o \in ops : Follows(o, p)) \/ Starts(p)
  /\ \A p, q \in ops' : Same(p, q) => p = q

(* What a step may do to the transitions.                                  *)
Fences(h, m) ==
  /\ Command(m) /\ Sealed(m) /\ trans'[h][ConvOf[m]].msg = m
  /\ \A e \in 1..(m - 1) :
       /\ ConvOf[e] = ConvOf[m] /\ KindOf[e] = "turn"
       => \/ inbox'[e].status \in Finished
          \/ inbox'[e].status = "claimed" /\ inbox'[e].code # "none"
TransMove ==
  /\ trans' \in [Hosts -> [Convs -> [msg : Nat, gen : Nat]]]
  /\ \A h \in Hosts, c \in Convs :
       \/ trans'[h][c].msg \in {0, trans[h][c].msg}
       \/ \E m \in Msgs : ConvOf[m] = c /\ Fences(h, m)

-----------------------------------------------------------------------------
(* Every step is a move of every message.                                  *)

(* What ClearClaim gives, field by field.                                  *)
LEMMA ClearFields ==
  ASSUME NEW r \in Row, NEW k, k = ClearClaim(r)
  PROVE  /\ k \in Row /\ k.status = r.status /\ k.code = r.code /\ k.attempts = r.attempts
         /\ k.claimedBy = NoHost /\ k.live = FALSE /\ k.open = FALSE
         /\ k.fence = r.fence /\ k.gen = r.gen /\ k.runs = r.runs /\ k.retries = r.retries
BY DEF ClearClaim, Row

(* A row that is dead-lettered is released.                                *)
LEMMA DeadFields ==
  ASSUME NEW r \in Row, NEW k, k = Dead(r)
  PROVE  Released(r, k) /\ k.attempts = r.attempts /\ k.status = "dead_letter" /\ k.code = "other"
<1> DEFINE b == ClearClaim(r)
<1>1. /\ b \in Row /\ b.claimedBy = NoHost /\ b.live = FALSE /\ b.open = FALSE
      /\ b.attempts = r.attempts /\ b.fence = r.fence /\ b.gen = r.gen
      /\ b.runs = r.runs /\ b.retries = r.retries
  BY ClearFields
<1>2. k = [b EXCEPT !.status = "dead_letter", !.code = "other", !.due = TRUE]
  BY DEF Dead
<1> HIDE DEF b
<1>3. /\ k \in Row /\ k.claimedBy = NoHost /\ k.live = FALSE /\ k.open = FALSE
      /\ k.attempts = r.attempts /\ k.fence = r.fence /\ k.gen = r.gen
      /\ k.runs = r.runs /\ k.retries = r.retries
      /\ k.status = "dead_letter" /\ k.code = "other"
  BY <1>1, <1>2 DEF Row, Statuses, Codes
<1> QED BY <1>3 DEF Released

(* A row that no action touches stays.                                     *)
LEMMA Untouched ==
  ASSUME Shape, NEW m \in Msgs, inbox'[m] = inbox[m]
  PROVE  Stays(m)
BY DEF Shape, RowOK, Row, Alike, Stays

(* finishInbox, by the operation that then ends.                           *)
LEMMA FinishMoves ==
  ASSUME Shape, NEW o \in ops, o \notin ops', NEW m \in Msgs,
         NEW s \in {"processed", "dead_letter", "retry_wait"},
         NEW c \in {"none", "other", "recovery"},
         inbox' = finishInbox(o, s, c),
         s # "retry_wait" => c # "recovery",
         s = "retry_wait" => /\ c = "other" \/ (c = "recovery" /\ KindOf[o.msg] = "permission")
                             /\ Pre(o) \/ KindOf[o.msg] = "permission",
         s = "processed" => KindOf[o.msg] \in {"turn", "permission"} \/ o.phase = "run"
  PROVE  Move(m)
<1>1. CASE ~(Current(o) /\ o.msg = m)
  <2>1. inbox'[m] = inbox[m]
    BY <1>1 DEF finishInbox, Shape, TypeOK
  <2> QED BY <2>1, Untouched DEF Move
<1>2. CASE Current(o) /\ o.msg = m
  <2> DEFINE r == inbox[m]
             b == ClearClaim(r)
             d == (s # "retry_wait")
             k == inbox'[m]
  <2>1. /\ r \in Row /\ r.status = "claimed" /\ r.claimedBy = o.host /\ r.token = o.token
    BY <1>2 DEF Shape, RowOK, Current
  <2>2. k = [b EXCEPT !.status = s, !.code = c, !.due = d]
    BY <1>2 DEF finishInbox, Shape, TypeOK
  <2>3. s \in Statuses /\ c \in Codes /\ d \in BOOLEAN
    BY DEF Statuses, Codes
  <2>4. Released(r, k) /\ k.attempts = r.attempts /\ k.status = s /\ k.code = c
    <3>1. /\ b \in Row /\ b.claimedBy = NoHost /\ b.live = FALSE /\ b.open = FALSE
          /\ b.attempts = r.attempts /\ b.fence = r.fence /\ b.gen = r.gen
          /\ b.runs = r.runs /\ b.retries = r.retries
      BY <2>1, ClearFields
    <3> HIDE DEF b, d, k
    <3>2. /\ k \in Row /\ k.claimedBy = NoHost /\ k.live = FALSE /\ k.open = FALSE
          /\ k.attempts = r.attempts /\ k.fence = r.fence /\ k.gen = r.gen
          /\ k.runs = r.runs /\ k.retries = r.retries
          /\ k.status = s /\ k.code = c
      BY <2>2, <2>3, <3>1 DEF Row
    <3> QED BY <3>2 DEF Released
  <2>5. Permitted(m)
    BY <1>2, <2>1 DEF Permitted
  <2> HIDE DEF k
  <2>6. r.status \notin Finished \cup {"absent"}
    BY <2>1 DEF Finished
  <2>7. CASE s = "retry_wait"
    <3>1. Undecided(m)
      BY <1>2, <2>1, <2>7 DEF Undecided
    <3>2. Waits(m, k)
      BY <1>2, <2>1, <2>4, <2>7, <3>1 DEF Waits
    <3> QED BY <2>5, <3>2 DEF k, Concludes, Move
  <2>8. CASE s # "retry_wait"
    <3>1. k.status \in Finished /\ k.code \in {"none", "other"}
      BY <2>4, <2>8 DEF Finished
    <3>2. k.status = "processed" => Earned(m)
      BY <1>2, <2>1, <2>4 DEF Earned
    <3>3. Ends(m, k)
      BY <2>4, <2>6, <3>1, <3>2 DEF Ends
    <3> QED BY <2>5, <3>3 DEF k, Concludes, Move
  <2> QED BY <2>7, <2>8
<1> QED BY <1>1, <1>2

(* What one tick's recovery makes of a row.                                *)
LEMMA RecoverSweeps ==
  ASSUME Shape, NEW m \in Msgs
  PROVE  LET k == recoverInbox(m, inbox[m]) IN Swept(m, k) /\ k \in Row
<1> DEFINE r == inbox[m]
           k == recoverInbox(m, r)
           b == ClearClaim(r)
<1> SUFFICES Swept(m, k) /\ k \in Row
  OBVIOUS
<1>1. r \in Row /\ r.status \in Statuses /\ r.code \in Codes
  BY DEF Shape, RowOK, Row
<1>2. CASE r.status # "claimed" \/ r.live
  BY <1>1, <1>2 DEF recoverInbox, Swept
<1>3. CASE r.status = "claimed" /\ ~r.live
  <2>1. r.status \notin Finished \cup {"absent"}
    BY <1>3 DEF Finished
  <2>2. CASE Interrupted(m, r) /\ r.replied
    <3>1. k = [b EXCEPT !.status = "processed", !.code = "none"]
      BY <1>3, <2>2 DEF recoverInbox
    <3>2. /\ b \in Row /\ b.claimedBy = NoHost /\ b.live = FALSE /\ b.open = FALSE
          /\ b.attempts = r.attempts /\ b.fence = r.fence /\ b.gen = r.gen
          /\ b.runs = r.runs /\ b.retries = r.retries
      BY <1>1, ClearFields
    <3> HIDE DEF b
    <3>3. /\ k \in Row /\ k.claimedBy = NoHost /\ k.live = FALSE /\ k.open = FALSE
          /\ k.attempts = r.attempts /\ k.fence = r.fence /\ k.gen = r.gen
          /\ k.runs = r.runs /\ k.retries = r.retries
          /\ k.status = "processed" /\ k.code = "none"
      BY <3>1, <3>2 DEF Row, Statuses, Codes
    <3>4. Earned(m)
      BY <2>2 DEF Earned, Interrupted
    <3> HIDE DEF k
    <3>5. Ends(m, k)
      BY <2>1, <3>3, <3>4 DEF Ends, Released, Finished
    <3> QED BY <1>3, <3>3, <3>5 DEF Swept
  <2>3. CASE ~(Interrupted(m, r) /\ r.replied)
             /\ (Ambiguous(m, r) \/ (r.attempts >= MaxAttempts /\ ~Interrupted(m, r)))
    <3>1. k = Dead(r)
      BY <1>3, <2>3 DEF recoverInbox
    <3> HIDE DEF k
    <3>2. /\ Released(r, k) /\ k.attempts = r.attempts
          /\ k.status = "dead_letter" /\ k.code = "other"
      BY <1>1, <3>1, DeadFields
    <3>3. Ends(m, k)
      BY <2>1, <3>2 DEF Ends, Finished
    <3> QED BY <1>3, <3>2, <3>3 DEF Swept, Released
  <2>4. CASE ~(Interrupted(m, r) /\ r.replied)
             /\ ~(Ambiguous(m, r) \/ (r.attempts >= MaxAttempts /\ ~Interrupted(m, r)))
    <3> DEFINE c == IF Interrupted(m, r) THEN "recovery" ELSE "other"
    <3>1. k = [b EXCEPT !.status = "retry_wait", !.due = TRUE, !.code = c]
      BY <1>3, <2>4 DEF recoverInbox
    <3>2. /\ b \in Row /\ b.claimedBy = NoHost /\ b.live = FALSE /\ b.open = FALSE
          /\ b.attempts = r.attempts /\ b.fence = r.fence /\ b.gen = r.gen
          /\ b.runs = r.runs /\ b.retries = r.retries
      BY <1>1, ClearFields
    <3>3. c = "other" \/ (c = "recovery" /\ KindOf[m] = "permission")
      BY DEF Interrupted
    <3>4. Undecided(m)
      BY <2>4 DEF Undecided, Ambiguous
    <3> HIDE DEF b, c
    <3>5. /\ k \in Row /\ k.claimedBy = NoHost /\ k.live = FALSE /\ k.open = FALSE
          /\ k.attempts = r.attempts /\ k.fence = r.fence /\ k.gen = r.gen
          /\ k.runs = r.runs /\ k.retries = r.retries
          /\ k.status = "retry_wait" /\ k.code = c
      BY <3>1, <3>2, <3>3 DEF Row, Statuses, Codes
    <3> HIDE DEF k
    <3>7. Released(r, k)
      BY <3>5 DEF Released
    <3>8. Waits(m, k)
      BY <1>3, <3>3, <3>4, <3>5, <3>7 DEF Waits
    <3> QED BY <1>3, <3>5, <3>8 DEF Swept
  <2> QED BY <2>2, <2>3, <2>4
<1> QED BY <1>2, <1>3

(* ... and the bulk update after it.                                       *)
LEMMA ExhaustSweeps ==
  ASSUME Shape, NEW m \in Msgs, NEW k \in Row, Swept(m, k)
  PROVE  Swept(m, Exhaust(k)) /\ Exhaust(k) \in Row
<1>1. CASE ~(k.status = "retry_wait" /\ k.due /\ Exhausted(k))
  BY <1>1 DEF Exhaust
<1>2. CASE k.status = "retry_wait" /\ k.due /\ Exhausted(k)
  <2> DEFINE n == Exhaust(k)
             r == inbox[m]
  <2>1. n = Dead(k)
    BY <1>2 DEF Exhaust
  <2>2. r \in Row
    BY DEF Shape, RowOK
  <2> SUFFICES Swept(m, n) /\ n \in Row
    OBVIOUS
  <2> HIDE DEF n
  <2>3. /\ Released(k, n) /\ n.attempts = k.attempts
        /\ n.status = "dead_letter" /\ n.code = "other"
    BY <2>1, DeadFields
  <2>4. /\ k.fence = r.fence /\ k.gen = r.gen /\ k.runs = r.runs /\ k.retries = r.retries
        /\ k.attempts = r.attempts
    BY <1>2, <2>2 DEF Swept, Ends, Waits, Released, Row
  <2>5. n.attempts = r.attempts
    BY <2>3, <2>4
  <2>6. Released(r, n)
    BY <2>3, <2>4, <2>5 DEF Released
  <2>7. r.status \in {"retry_wait", "claimed"} /\ ~(r.status = "claimed" /\ r.live)
    BY <1>2 DEF Swept, Ends, Waits, Finished
  <2>8. Ends(m, n)
    BY <2>3, <2>5, <2>6, <2>7 DEF Ends, Finished
  <2> QED BY <2>3, <2>5, <2>7, <2>8 DEF Swept, Released
<1> QED BY <1>1, <1>2

(* A tick.                                                                 *)
LEMMA TickMoves ==
  ASSUME Shape, LaneExclusive, NEW h \in Hosts, Tick(h), NEW m \in Msgs
  PROVE  Ticks(m, h)
<1> DEFINE recovered == [n \in Msgs |-> recoverInbox(n, inbox[n])]
           rows == [n \in Msgs |-> Exhaust(recovered[n])]
           taken == {n \in Msgs : Claimable(rows, n)}
           new == [n \in Msgs |-> IF n \in taken THEN Claim(rows[n], h) ELSE rows[n]]
<1>1. /\ Swept(m, recovered[m]) /\ recovered[m] \in Row
      /\ Swept(m, rows[m]) /\ rows[m] \in Row
  BY RecoverSweeps, ExhaustSweeps
<1>2. inbox' = recovered \/ inbox' = new
  BY DEF Tick
<1> HIDE DEF recovered
<1>3. CASE inbox' = recovered
  BY <1>1, <1>3 DEF Ticks
<1>4. CASE inbox' = new /\ m \notin taken
  <2>1. inbox'[m] = rows[m]
    BY <1>4
  <2> HIDE DEF rows
  <2> QED BY <1>1, <2>1 DEF Ticks
<1>5. CASE inbox' = new /\ m \in taken
  <2>1. Claimable(rows, m) /\ inbox'[m] = Claim(rows[m], h)
    BY <1>5
  <2>2. \A n \in Msgs : n # m => n \notin taken
    <3> SUFFICES ASSUME NEW n \in Msgs, n # m, n \in taken PROVE FALSE
      OBVIOUS
    <3> HIDE DEF rows
    <3>1. Claimable(rows, n) /\ Claimable(rows, m)
      BY <2>1
    <3>2. /\ rows[m].gen # 0 /\ rows[m].status \notin Finished
          /\ rows[n].gen # 0 /\ rows[n].status \notin Finished
      BY <3>1 DEF Claimable, Finished
    <3>3. EarlierBound(rows, n) = {} /\ EarlierBound(rows, m) = {}
      BY <3>1 DEF Claimable
    <3>4. m \in 1..(n - 1) \/ n \in 1..(m - 1)
      BY InboxAssumption DEF Msgs
    <3> QED BY <3>2, <3>3, <3>4 DEF EarlierBound
  <2>3. \A n \in Msgs : n # m => inbox'[n] = rows[n]
    BY <1>5, <2>2
  <2> HIDE DEF rows, taken
  <2>4. \A e \in 1..(m - 1) : e \in Msgs /\ e # m
    BY InboxAssumption DEF Msgs
  <2>5. \A e \in 1..(m - 1) : inbox'[e].gen # 0 => inbox'[e].status \in Finished
    BY <2>1, <2>3, <2>4 DEF Claimable, EarlierBound
  <2>6. \A a \in Msgs \ {m} : inbox'[a].status # "claimed"
    BY <2>1, <2>3 DEF Claimable, LaneFree
  <2>7. Alone(m)
    BY <2>5, <2>6 DEF Alone
  <2>8. /\ rows[m].status \in {"queued", "retry_wait"} /\ rows[m].gen # 0
        /\ rows[m].status = "retry_wait" => ~Exhausted(rows[m])
    BY <2>1 DEF Claimable
  <2> QED BY <1>1, <2>1, <2>7, <2>8 DEF Ticks
<1> QED BY <1>2, <1>3, <1>4, <1>5

(* A busy Session puts the claim back.                                     *)
LEMMA DeferMoves ==
  ASSUME Shape, NEW o \in ops, o \notin ops', Pre(o), Current(o), NEW m \in Msgs,
         inbox' = deferInboxForSessionLease(o)
  PROVE  Move(m)
<1>1. CASE o.msg # m
  <2>1. inbox'[m] = inbox[m]
    BY <1>1 DEF deferInboxForSessionLease, Shape, TypeOK
  <2> QED BY <2>1, Untouched DEF Move
<1>2. CASE o.msg = m
  <2> DEFINE r == inbox[m]
             b == ClearClaim(r)
             k == inbox'[m]
  <2>1. /\ r \in Row /\ r.status = "claimed" /\ r.claimedBy = o.host /\ r.token = o.token
        /\ r.attempts >= 1
    BY <1>2 DEF Shape, RowOK, Current
  <2>2. k = [b EXCEPT !.token = o.token, !.status = "retry_wait", !.code = "other",
                      !.due = FALSE, !.attempts = r.attempts - 1]
    <3>1. inbox' = [inbox EXCEPT ![m] =
                      [b EXCEPT !.token = o.token, !.status = "retry_wait", !.code = "other",
                                !.due = FALSE, !.attempts = r.attempts - 1]]
      BY <1>2 DEF deferInboxForSessionLease
    <3> HIDE DEF b
    <3> QED BY <3>1 DEF Shape, TypeOK
  <2>3. /\ b \in Row /\ b.claimedBy = NoHost /\ b.live = FALSE /\ b.open = FALSE
        /\ b.attempts = r.attempts /\ b.fence = r.fence /\ b.gen = r.gen
        /\ b.runs = r.runs /\ b.retries = r.retries
    BY <2>1, ClearFields
  <2>4. r.attempts - 1 \in Nat /\ o.token \in Nat /\ r.attempts - 1 <= r.attempts
    BY <2>1 DEF Row
  <2>5. Permitted(m)
    BY <1>2, <2>1 DEF Permitted
  <2>6. Undecided(m)
    BY <1>2, <2>1 DEF Undecided
  <2> HIDE DEF b, k
  <2>7. /\ k \in Row /\ k.claimedBy = NoHost /\ k.live = FALSE /\ k.open = FALSE
        /\ k.attempts = r.attempts - 1 /\ k.fence = r.fence /\ k.gen = r.gen
        /\ k.runs = r.runs /\ k.retries = r.retries
        /\ k.status = "retry_wait" /\ k.code = "other"
    BY <2>2, <2>3, <2>4 DEF Row, Statuses, Codes
  <2>8. Released(r, k)
    BY <2>4, <2>7 DEF Released
  <2>9. Waits(m, k)
    BY <2>1, <2>6, <2>7, <2>8 DEF Waits
  <2> QED BY <2>5, <2>9 DEF k, Concludes, Move
<1> QED BY <1>1, <1>2

(* A message arrives.                                                      *)
LEMMA AcceptMoves ==
  ASSUME Shape, NEW n \in Msgs, NEW m \in Msgs, acceptInbound(n)
  PROVE  Move(m)
<1>1. CASE m = n
  <2>1. inbox'[m] = [Absent EXCEPT !.status = "received"]
    BY <1>1 DEF acceptInbound, Shape, TypeOK
  <2> QED BY <1>1, <2>1 DEF acceptInbound, Admits, Arrives, Move
<1>2. CASE m # n
  <2>1. inbox'[m] = inbox[m]
    BY <1>2 DEF acceptInbound, Shape, TypeOK
  <2> QED BY <2>1, Untouched DEF Move
<1> QED BY <1>1, <1>2

(* The steps that drive messages.                                          *)
LEMMA DriveMoves ==
  ASSUME IInv, NEW n \in Msgs, NEW m \in Msgs, NEW h \in Hosts, Drive(h, n)
  PROVE  Move(m)
<1> DEFINE r == inbox[m]
           k == inbox'[m]
<1>1. Shape /\ r \in Row /\ inbox \in [Msgs -> Row] /\ gen \in [Convs -> Nat \ {0}]
  BY DEF IInv, Shape, RowOK, TypeOK
<1>3. CASE reject(h, n)
  <2>1. CASE m = n
    <3>1. k = Dead(r) /\ r.status = "received"
      BY <1>1, <1>3, <2>1 DEF reject, Drives
    <3> HIDE DEF k
    <3>2. /\ Released(r, k) /\ k.attempts = r.attempts
          /\ k.status = "dead_letter" /\ k.code = "other"
      BY <1>1, <3>1, DeadFields
    <3>3. Ends(m, k)
      BY <3>1, <3>2 DEF Ends, Finished
    <3>4. Permitted(m)
      BY <3>1 DEF Permitted
    <3> QED BY <3>3, <3>4 DEF k, Concludes, Move
  <2>2. CASE m # n
    <3>1. k = r
      BY <1>1, <1>3, <2>2 DEF reject
    <3> QED BY <1>1, <3>1, Untouched DEF Move
  <2> QED BY <2>1, <2>2
<1>4. CASE queueInbox(h, n)
  <2>1. CASE m = n
    <3>1. /\ k = [r EXCEPT !.status = "queued", !.gen = gen[ConvOf[n]]]
          /\ r.status = "received" /\ ~Command(m)
      BY <1>1, <1>4, <2>1 DEF queueInbox, Drives
    <3>2. gen[ConvOf[n]] \in Nat \ {0} /\ gen'[ConvOf[m]] = gen[ConvOf[n]]
      BY <1>1, <1>4, <2>1, InboxAssumption DEF queueInbox
    <3>3. Sealed(m)
      BY <1>4, <2>1, <3>1, InboxAssumption
      DEF queueInbox, Drives, Pending, Sealed, IInv, NoGaps, Msgs
    <3> QED BY <3>1, <3>2, <3>3 DEF Queues, Move
  <2>2. CASE m # n
    <3>1. k = r
      BY <1>1, <1>4, <2>2 DEF queueInbox
    <3> QED BY <1>1, <3>1, Untouched DEF Move
  <2> QED BY <2>1, <2>2
<1>5. CASE fence(h, n)
  <2>1. CASE m \in Undispatched(n)
    <3>1. k = Dead(r)
      BY <1>5, <2>1 DEF fence
    <3>2. /\ m \in 1..(n - 1) /\ ConvOf[m] = ConvOf[n]
          /\ \/ r.status \in {"received", "queued", "retry_wait"}
             \/ r.status = "claimed" /\ r.code = "none"
      BY <2>1 DEF Undispatched
    <3>3. trans'[h][ConvOf[m]].msg = n
      BY <1>1, <1>5, <3>2, InboxAssumption DEF fence, IInv, Shape, TypeOK
    <3>4. n > m
      BY <3>2, InboxAssumption DEF Msgs
    <3> HIDE DEF k
    <3>5. /\ Released(r, k) /\ k.attempts = r.attempts
          /\ k.status = "dead_letter" /\ k.code = "other"
      BY <1>1, <3>1, DeadFields
    <3>6. Ends(m, k)
      BY <3>2, <3>5 DEF Ends, Finished
    <3>7. Permitted(m)
      BY <3>2, <3>3, <3>4, <3>5 DEF Permitted, k
    <3> QED BY <3>6, <3>7 DEF k, Concludes, Move
  <2>2. CASE m \notin Undispatched(n)
    <3>1. \/ k = r
          \/ KindOf[m] = "permission" /\ r.status = "claimed" /\ k = [r EXCEPT !.code = "recovery"]
      BY <1>5, <2>2 DEF fence
    <3>2. CASE k = r
      BY <1>1, <3>2, Untouched DEF Move
    <3>3. CASE KindOf[m] = "permission" /\ r.status = "claimed"
               /\ k = [r EXCEPT !.code = "recovery"]
      <4>1. Alike(r, k) /\ k.code = "recovery"
        BY <1>1, <3>3 DEF Alike, Row, Codes
      <4> QED BY <3>3, <4>1 DEF Stays, Move
    <3> QED BY <3>1, <3>2, <3>3
  <2> QED BY <2>1, <2>2
<1> QED BY <1>3, <1>4, <1>5 DEF Drive

(* The end of a /stop or /new.                                             *)
LEMMA CommitMoves ==
  ASSUME IInv, NEW h \in Hosts, NEW c \in Convs, commit(h, c), NEW m \in Msgs
  PROVE  Move(m)
<1> DEFINE t == trans[h][c]
           r == inbox[m]
           k == inbox'[m]
<1>1. Shape /\ r \in Row /\ inbox \in [Msgs -> Row] /\ gen \in [Convs -> Nat \ {0}]
  BY DEF IInv, Shape, RowOK, TypeOK
<1>2. CASE inbox[t.msg].status = "received" /\ BindingActive(t.msg, t.gen) /\ m = t.msg
  <2>1. k = [r EXCEPT !.status = "queued", !.gen = gen'[c]]
    BY <1>1, <1>2 DEF commit
  <2>2. gen'[c] \in Nat \ {0}
    BY <1>1, <1>2 DEF commit
  <2>3. Sealed(m) /\ ConvOf[m] = c
    BY <1>2 DEF commit, IInv, Seals
  <2>4. r.status = "received" /\ \E g \in Hosts : trans[g][ConvOf[m]].msg = m
    BY <1>2, <2>3
  <2>5. \E g \in Nat \ {0} :
          g = gen'[ConvOf[m]] /\ k = [r EXCEPT !.status = "queued", !.gen = g]
    BY <2>1, <2>2, <2>3
  <2> QED BY <2>3, <2>4, <2>5 DEF Queues, Move
<1>3. CASE ~(inbox[t.msg].status = "received" /\ BindingActive(t.msg, t.gen) /\ m = t.msg)
  <2>1. k = r
    BY <1>1, <1>3 DEF commit
  <2> QED BY <1>1, <2>1, Untouched DEF Move
<1> QED BY <1>2, <1>3

(* A change of a field that Alike does not ask about.                      *)
LEMMA FieldMoves ==
  ASSUME Shape, NEW n \in Msgs, NEW m \in Msgs, Alike(inbox[n], inbox'[n]),
         inbox'[n].code = inbox[n].code,
         \A e \in Msgs : e # n => inbox'[e] = inbox[e]
  PROVE  Move(m)
<1>1. CASE m = n
  BY <1>1 DEF Stays, Move
<1>2. CASE m # n
  BY <1>2, Untouched DEF Move
<1> QED BY <1>1, <1>2

(* The marker, and the dispatch it admits.                                 *)
LEMMA MarkMarks ==
  ASSUME IInv, NEW o \in ops, Mark(o)
  PROVE  Marks(o.msg, o)
<1> DEFINE n == o.msg
           r == inbox[n]
<1>1. n \in Msgs /\ inbox \in [Msgs -> Row] /\ o \in Op
  BY DEF IInv, Shape, TypeOK, Op
<1>2. inbox'[n] = [r EXCEPT !.code = IF @ \in {"native", "recovery"} THEN @ ELSE "started",
                            !.runs = @ + IF r.code = "recovery" THEN 0 ELSE 1]
  BY <1>1 DEF Mark
<1>3. Current(o) /\ Pre(o)
  BY DEF Mark, Markable, Pre, MarksFrom
<1>4. \A p \in ops' : Same(o, p) => ~Pre(p)
  <2>1. ops' = (ops \ {o}) \cup {[o EXCEPT !.phase = "run"]}
    BY DEF Mark, Update
  <2>2. \A p \in ops : Same(o, p) => p = o
    BY DEF IInv, OpsOK
  <2>3. [o EXCEPT !.phase = "run"].phase = "run"
    BY <1>1 DEF Op
  <2> QED BY <2>1, <2>2, <2>3 DEF Pre
<1> QED BY <1>2, <1>3, <1>4 DEF Marks

(* The steps of an operation before and at its dispatch.                   *)
LEMMA DispatchMoves ==
  ASSUME IInv, NEW o \in ops, NEW m \in Msgs, Begin(o) \/ Mark(o) \/ Reply(o)
  PROVE  Move(m)
<1> DEFINE n == o.msg
           r == inbox[n]
           k == inbox'[n]
<1>1. Shape /\ n \in Msgs /\ r \in Row /\ inbox \in [Msgs -> Row] /\ o \in Op
  BY DEF IInv, Shape, RowOK, TypeOK, Op
<1>2. CASE Begin(o)
  <2>1. k = [r EXCEPT !.fg = TRUE] /\ \A e \in Msgs : e # n => inbox'[e] = inbox[e]
    BY <1>1, <1>2 DEF Begin
  <2>2. Alike(r, k) /\ k.code = r.code
    BY <1>1, <2>1 DEF Alike, Row
  <2> QED BY <1>1, <2>1, <2>2, FieldMoves
<1>3. CASE Reply(o)
  <2>1. k = [r EXCEPT !.replied = TRUE] /\ \A e \in Msgs : e # n => inbox'[e] = inbox[e]
    BY <1>1, <1>3 DEF Reply
  <2>2. Alike(r, k) /\ k.code = r.code
    BY <1>1, <2>1 DEF Alike, Row
  <2> QED BY <1>1, <2>1, <2>2, FieldMoves
<1>4. CASE Mark(o)
  <2>1. CASE m = n
    BY <1>4, <2>1, MarkMarks DEF Move
  <2>2. CASE m # n
    <3>1. inbox'[m] = inbox[m]
      BY <1>1, <1>4, <2>2 DEF Mark
    <3> QED BY <1>1, <3>1, Untouched DEF Move
  <2> QED BY <2>1, <2>2
<1> QED BY <1>2, <1>3, <1>4

(* The steps that end an operation.                                        *)
LEMMA EndMoves ==
  ASSUME IInv, NEW o \in ops, NEW m \in Msgs, SessionBusy(o) \/ Refuse(o) \/ Return(o)
  PROVE  Move(m)
<1>1. Shape /\ o.msg \in Msgs /\ CodeOK(o.msg, inbox[o.msg])
  BY DEF IInv, Shape, TypeOK, Op
<1>2. o \notin ops'
  BY DEF SessionBusy, Refuse, Return
<1>3. CASE SessionBusy(o)
  <2>1. Pre(o)
    BY <1>3 DEF SessionBusy, Pre
  <2>2. CASE Current(o) /\ inbox' = deferInboxForSessionLease(o)
    BY <1>1, <1>2, <2>1, <2>2, DeferMoves
  <2>3. CASE inbox' = finishInbox(o, "retry_wait", "other")
    BY <1>1, <1>2, <2>1, <2>3, FinishMoves
  <2> QED BY <1>3, <2>2, <2>3 DEF SessionBusy
<1>4. CASE Refuse(o)
  <2>1. Pre(o)
    BY <1>4 DEF Refuse, Pre
  <2>2. CASE inbox' = finishInbox(o, "dead_letter", "other")
    BY <1>1, <1>2, <2>2, FinishMoves
  <2>3. CASE KindOf[o.msg] = "turn" /\ inbox' = finishInbox(o, "processed", "none")
    BY <1>1, <1>2, <2>3, FinishMoves
  <2>4. CASE inbox' = finishInbox(o, "retry_wait", "recovery") /\ inbox[o.msg].code = "recovery"
    <3>1. KindOf[o.msg] = "permission"
      BY <1>1, <2>4 DEF CodeOK
    <3> QED BY <1>1, <1>2, <2>1, <2>4, <3>1, FinishMoves
  <2>5. CASE inbox' = finishInbox(o, "retry_wait", "other")
    BY <1>1, <1>2, <2>1, <2>5, FinishMoves
  <2> QED BY <1>4, <2>2, <2>3, <2>4, <2>5 DEF Refuse
<1>5. CASE Return(o)
  <2>1. CASE inbox' = finishInbox(o, "processed", "none")
    <3>1. KindOf[o.msg] \in {"turn", "permission"} \/ o.phase = "run"
      BY <1>1, <1>5, InboxAssumption DEF Return, IInv, OpsOK, Unstopped, Kinds
    <3> QED BY <1>1, <1>2, <2>1, <3>1, FinishMoves
  <2>2. CASE inbox' = finishInbox(o, "dead_letter", "other")
    BY <1>1, <1>2, <2>2, FinishMoves
  <2>3. CASE KindOf[o.msg] = "permission" /\ inbox' = finishInbox(o, "retry_wait", "recovery")
    BY <1>1, <1>2, <2>3, FinishMoves
  <2> QED BY <1>5, <2>1, <2>2, <2>3 DEF Return
<1> QED BY <1>3, <1>4, <1>5

(* Native input.                                                           *)
LEMMA NativeMoves ==
  ASSUME IInv, NEW h \in Hosts, NEW n \in Msgs, claimNativeInbox(h, n), NEW m \in Msgs
  PROVE  Move(m)
<1> DEFINE g == gen[ConvOf[n]]
<1>1. Shape /\ inbox \in [Msgs -> Row] /\ g \in Nat \ {0}
  BY InboxAssumption DEF IInv, Shape, TypeOK
<1>2. CASE m = n
  <2>1. inbox'[m] = NativeClaim(g, h) /\ g = gen'[ConvOf[m]]
    BY <1>1, <1>2 DEF claimNativeInbox, NativeClaim
  <2>2. \A e \in Msgs \ {m} :
          inbox'[e] = inbox[e] /\ (Unfinished(e) => inbox[e].gen = 0 /\ ConvOf[e] # ConvOf[m])
    BY <1>1, <1>2 DEF claimNativeInbox
  <2>3. /\ inbox[m].status = "absent" /\ \A e \in 1..(m - 1) : inbox[e].status # "absent"
        /\ KindOf[m] = "native"
    BY <1>2 DEF claimNativeInbox, Admits
  <2> QED BY <1>1, <2>1, <2>2, <2>3 DEF Enters, Move
<1>3. CASE m # n
  <2>1. inbox'[m] = inbox[m]
    BY <1>1, <1>3 DEF claimNativeInbox
  <2> QED BY <1>1, <2>1, Untouched DEF Move
<1> QED BY <1>2, <1>3

(* Time and the operator.                                                  *)
LEMMA TimeMoves ==
  ASSUME IInv, NEW n \in Msgs, NEW m \in Msgs,
         Lapse(n) \/ BackoffElapses(n) \/ OperatorCancel(n) \/ OperatorRetry(n)
  PROVE  Move(m)
<1> DEFINE r == inbox[n]
           k == inbox'[n]
<1>1. Shape /\ r \in Row /\ inbox \in [Msgs -> Row] /\ gen \in [Convs -> Nat \ {0}]
  BY DEF IInv, Shape, RowOK, TypeOK
<1>2. \A e \in Msgs : e # n => inbox'[e] = inbox[e]
  BY <1>1 DEF Lapse, BackoffElapses, OperatorCancel, OperatorRetry
<1>3. CASE Lapse(n)
  <2>1. k = [r EXCEPT !.live = FALSE]
    BY <1>1, <1>3 DEF Lapse
  <2>2. Alike(r, k) /\ k.code = r.code
    BY <1>1, <2>1 DEF Alike, Row
  <2> QED BY <1>1, <1>2, <2>2, FieldMoves
<1>4. CASE BackoffElapses(n)
  <2>1. k = [r EXCEPT !.due = TRUE]
    BY <1>1, <1>4 DEF BackoffElapses
  <2>2. Alike(r, k) /\ k.code = r.code
    BY <1>1, <2>1 DEF Alike, Row
  <2> QED BY <1>1, <1>2, <2>2, FieldMoves
<1>5. CASE OperatorCancel(n)
  <2>1. k = [r EXCEPT !.decided = r.attempts + 1]
    BY <1>1, <1>5 DEF OperatorCancel
  <2>2. Alike(r, k) /\ k.code = r.code
    BY <1>1, <2>1 DEF Alike, Row
  <2> QED BY <1>1, <1>2, <2>2, FieldMoves
<1>6. CASE OperatorRetry(n)
  <2>1. CASE m = n
    <3>1. k = [r EXCEPT !.status = "queued", !.code = "none",
                        !.decided = r.attempts + 1, !.retries = @ + 1]
      BY <1>1, <1>6 DEF OperatorRetry
    <3>2. r.attempts + 1 \in Nat /\ r.status = "dead_letter"
      BY <1>1, <1>6 DEF OperatorRetry, Resolvable, Row
    <3>3. r.gen # 0
      BY <1>1, <1>6, InboxAssumption DEF OperatorRetry, BindingActive
    <3> QED BY <2>1, <3>1, <3>2, <3>3 DEF Revives, Move
  <2>2. CASE m # n
    BY <1>1, <1>2, <2>2, Untouched DEF Move
  <2> QED BY <2>1, <2>2
<1> QED BY <1>3, <1>4, <1>5, <1>6

(* Every step moves every message.                                         *)
LEMMA EveryMove ==
  ASSUME IInv, [Next]_vars, NEW m \in Msgs
  PROVE  Move(m)
<1>1. Shape /\ LaneExclusive
  BY DEF IInv
<1>2. CASE UNCHANGED inbox
  BY <1>1, <1>2, Untouched DEF Move
<1>3. ASSUME NEW o \in ops, Progress(o) \/ Reply(o) \/ ReplySafe(o) \/ Abort(o)
      PROVE  Move(m)
  <2>1. CASE Open(o) \/ AbortedReturns(o) \/ ReplySafe(o) \/ Abort(o)
    BY <1>2, <2>1 DEF Open, AbortedReturns, ReplySafe, Abort
  <2> QED BY <1>3, <2>1, DispatchMoves, EndMoves DEF Progress
<1>4. ASSUME NEW h \in Hosts,
             \/ Tick(h) \/ Crash(h)
             \/ \E n \in Msgs : Drive(h, n) \/ claimNativeInbox(h, n)
             \/ \E c \in Convs : commit(h, c) \/ transitionFails(h, c)
      PROVE  Move(m)
  <2>1. CASE Tick(h)
    BY <1>1, <2>1, TickMoves DEF Move
  <2>2. CASE Crash(h) \/ \E c \in Convs : transitionFails(h, c)
    BY <1>2, <2>2 DEF Crash, transitionFails
  <2>3. CASE \E n \in Msgs : Drive(h, n) \/ claimNativeInbox(h, n)
    BY <2>3, DriveMoves, NativeMoves
  <2>4. CASE \E c \in Convs : commit(h, c)
    BY <2>4, CommitMoves
  <2> QED BY <1>4, <2>1, <2>2, <2>3, <2>4
<1>5. ASSUME NEW n \in Msgs,
             \/ acceptInbound(n) \/ LapseUnattended(n) \/ LapseStalled(n)
             \/ BackoffElapses(n) \/ OperatorCancel(n) \/ OperatorRetry(n)
      PROVE  Move(m)
  <2>1. CASE acceptInbound(n)
    BY <1>1, <2>1, AcceptMoves
  <2>2. CASE LapseUnattended(n) \/ LapseStalled(n)
    BY <2>2, TimeMoves DEF LapseUnattended, LapseStalled
  <2> QED BY <1>5, <2>1, <2>2, TimeMoves
<1>6. CASE revokePrincipal \/ setRestartFence \/ clearRestartFence
  BY <1>2, <1>6 DEF revokePrincipal, setRestartFence, clearRestartFence
<1>7. CASE UNCHANGED vars
  BY <1>2, <1>7 DEF vars
<1> QED BY <1>3, <1>4, <1>5, <1>6, <1>7 DEF Next

-----------------------------------------------------------------------------
(* Every step changes the operations and the transitions as said above.    *)

\* What a claim gives, field by field.
Claimed(r, h, k) ==
  /\ k \in Row /\ k.status = "claimed" /\ k.claimedBy = h /\ k.live = TRUE
  /\ k.open = TRUE /\ k.token = r.fence + 1 /\ k.fence = r.fence + 1
  /\ k.attempts = r.attempts + 1 /\ k.gen = r.gen /\ k.runs = r.runs
  /\ k.retries = r.retries

(* A claim opens the next attempt under the next token.                    *)
LEMMA ClaimFields ==
  ASSUME NEW r \in Row, NEW h \in Hosts, NEW k, k = Claim(r, h)
  PROVE  Claimed(r, h, k)
<1>1. r.fence + 1 \in Nat /\ r.attempts + 1 \in Nat
  BY DEF Row
<1> QED BY <1>1 DEF Claimed, Claim, Row, Statuses, Codes

(* A claim keeps a recovery marker and nothing else.                       *)
LEMMA ClaimCode ==
  ASSUME NEW r \in Row, NEW h \in Hosts, NEW k, k = Claim(r, h)
  PROVE  IF r.code = "recovery" THEN k.code = "recovery" ELSE k.code = "none"
BY DEF Claim, Row

\* What the claim of native input gives.
NativeClaimed(g, h, k) ==
  /\ k \in Row /\ k.status = "claimed" /\ k.claimedBy = h /\ k.live = TRUE
  /\ k.open = TRUE /\ k.token = 1 /\ k.fence = 1 /\ k.attempts = 1
  /\ k.gen = g /\ k.runs = 0 /\ k.retries = 0 /\ k.code = "native"

(* Native input is claimed for the first time.                             *)
LEMMA NativeFields ==
  ASSUME NEW g \in Nat, NEW h \in Hosts, NEW k, k = NativeClaim(g, h)
  PROVE  NativeClaimed(g, h, k)
<1> DEFINE r == [Absent EXCEPT !.gen = g]
           c == Claim(r, h)
<1>1. /\ r.gen = g /\ r.attempts = 0 /\ r.fence = 0 /\ r.retries = 0 /\ r.runs = 0
  BY DEF Absent
<1>2. r \in Row
  <2>1. Absent \in Row
    BY DEF Absent, Row, Statuses, Codes
  <2> QED BY <2>1 DEF Row
<1> HIDE DEF r
<1>3. Claimed(r, h, c)
  <2> SUFFICES ASSUME NEW e, e = Claim(r, h) PROVE Claimed(r, h, e)
    OBVIOUS
  <2> HIDE DEF c
  <2> QED BY <1>2, ClaimFields
<1>4. k = [c EXCEPT !.code = "native"]
  BY DEF r, NativeClaim
<1> HIDE DEF c
<1>5. /\ c \in Row /\ c.status = "claimed" /\ c.claimedBy = h /\ c.live = TRUE
      /\ c.open = TRUE /\ c.token = 1 /\ c.fence = 1 /\ c.attempts = 1
      /\ c.gen = g /\ c.runs = 0 /\ c.retries = 0
  BY <1>1, <1>3 DEF Claimed
<1> QED BY <1>4, <1>5 DEF NativeClaimed, Row, Codes

(* Operations that only end.                                               *)
LEMMA OpsEnd ==
  ASSUME IInv, ops' \subseteq ops
  PROVE  OpsMove
<1>1. \A p \in ops' : p \in ops /\ Follows(p, p)
  BY DEF Follows, Same
<1>2. \A p, q \in ops' : Same(p, q) => p = q
  BY DEF IInv, OpsOK
<1> QED BY <1>1, <1>2 DEF OpsMove, IInv, Shape, TypeOK

(* An operation that goes on.                                              *)
LEMMA OpsUpdate ==
  ASSUME IInv, NEW o \in ops, NEW p \in Op, Follows(o, p), Update(o, p)
  PROVE  OpsMove
<1>1. ops' = (ops \ {o}) \cup {p}
  BY DEF Update
<1>2. \A q \in ops : Follows(q, q)
  BY DEF Follows, Same
<1>3. \A q, r \in ops : Same(q, r) => q = r
  BY DEF IInv, OpsOK
<1>4. \A q \in ops \ {o} : ~Same(q, p) /\ ~Same(p, q)
  BY <1>3 DEF Follows, Same
<1>5. \A q, r \in ops' : Same(q, r) => q = r
  BY <1>1, <1>3, <1>4
<1> QED BY <1>1, <1>2, <1>5 DEF OpsMove, IInv, Shape, TypeOK

(* A /stop or /new is to end some operations.                              *)
LEMMA OpsFence ==
  ASSUME IInv, NEW h \in Hosts, NEW n \in Msgs, fence(h, n)
  PROVE  OpsMove
<1> DEFINE S(o) == o.stopped \/ /\ o.host = h /\ Controlled(o)
                                /\ ConvOf[o.msg] = ConvOf[n] /\ o.gen = gen[ConvOf[n]]
           V(o) == o.victim \/ /\ o.host = h /\ o.tracked
                               /\ inbox[o.msg].status = "claimed"
                               /\ o.msg \in Undispatched(n)
           F(o) == [o EXCEPT !.stopped = S(o), !.victim = V(o)]
<1>1. ops' = {F(o) : o \in ops}
  BY DEF fence
<1>2. ops \subseteq Op /\ \A q, r \in ops : Same(q, r) => q = r
  BY DEF IInv, OpsOK, Shape, TypeOK
<1>3. ASSUME NEW o \in ops
      PROVE  /\ F(o) \in Op /\ F(o).msg = o.msg /\ F(o).token = o.token
             /\ F(o).phase = o.phase /\ (Unstopped(o) => Unstopped(F(o)))
  <2>1. S(o) \in BOOLEAN /\ V(o) \in BOOLEAN
    BY <1>2 DEF Op
  <2>2. KindOf[o.msg] \in {"stop", "new", "native"} => S(o) = o.stopped
    BY <1>2 DEF Controlled, Op
  <2> HIDE DEF S, V
  <2>3. /\ F(o) \in Op /\ F(o).msg = o.msg /\ F(o).token = o.token
        /\ F(o).phase = o.phase /\ F(o).stopped = S(o)
    BY <1>2, <2>1 DEF Op
  <2> HIDE DEF F
  <2> QED BY <2>2, <2>3 DEF Unstopped
<1> HIDE DEF F
<1>4. \A p \in ops' : p \in Op /\ \E o \in ops : p = F(o) /\ Follows(o, p)
  <2>1. ASSUME NEW o \in ops PROVE F(o) \in Op /\ Follows(o, F(o))
    <3>1. Unstopped(o) => Unstopped(F(o))
      BY <1>3
    <3> HIDE DEF Unstopped
    <3> QED BY <1>3, <3>1 DEF Follows, Same, Pre
  <2> QED BY <1>1, <2>1
<1>5. \A p, q \in ops' : Same(p, q) => p = q
  <2> SUFFICES ASSUME NEW o \in ops, NEW r \in ops, Same(F(o), F(r)) PROVE F(o) = F(r)
    BY <1>1
  <2>1. Same(o, r)
    BY <1>3 DEF Same
  <2> QED BY <1>2, <2>1
<1> QED BY <1>4, <1>5 DEF OpsMove

(* A new operation with the claim of its message.                          *)
LEMMA OpsTick ==
  ASSUME IInv, NEW h \in Hosts, Tick(h)
  PROVE  OpsMove
<1> DEFINE recovered == [n \in Msgs |-> recoverInbox(n, inbox[n])]
           rows == [n \in Msgs |-> Exhaust(recovered[n])]
           taken == {n \in Msgs : Claimable(rows, n)}
           F(o) == IF o.host = h /\ o.msg \in taken THEN [o EXCEPT !.tracked = FALSE] ELSE o
           New == {NewOp(n, h, "prep") : n \in taken}
<1>1. ops \subseteq Op /\ \A q, r \in ops : Same(q, r) => q = r
  BY DEF IInv, OpsOK, Shape, TypeOK
<1>2. CASE draining \/ Cardinality(Active(h)) >= MaxConcurrency
  <2>1. ops' = ops
    BY <1>2 DEF Tick
  <2> QED BY <2>1, OpsEnd
<1>3. CASE ~(draining \/ Cardinality(Active(h)) >= MaxConcurrency)
  <2>1. /\ inbox' = [n \in Msgs |-> IF n \in taken THEN Claim(rows[n], h) ELSE rows[n]]
        /\ ops' = {F(o) : o \in ops} \cup New
    BY <1>3 DEF Tick
  <2>2. ASSUME NEW o \in ops
        PROVE  /\ F(o) \in Op /\ F(o).msg = o.msg /\ F(o).token = o.token
               /\ F(o).phase = o.phase /\ F(o).stopped = o.stopped
    <3> HIDE DEF taken
    <3> QED BY <1>1 DEF Op
  <2>3. ASSUME NEW n \in taken, NEW p, p = NewOp(n, h, "prep")
        PROVE  p \in Op /\ Starts(p) /\ p.msg = n /\ p.token = inbox[n].fence + 1
    <3>1. n \in Msgs /\ inbox[n] \in Row
      BY DEF IInv, Shape, RowOK
    <3>2. Swept(n, rows[n]) /\ rows[n] \in Row
      BY <3>1, RecoverSweeps, ExhaustSweeps DEF IInv
    <3>3. inbox'[n] = Claim(rows[n], h)
      BY <2>1, <3>1
    <3> HIDE DEF rows, taken
    <3>4. inbox'[n].fence = rows[n].fence + 1
      <4>1. Claimed(rows[n], h, inbox'[n])
        BY <3>2, <3>3, ClaimFields
      <4> QED BY <4>1 DEF Claimed
    <3>5. rows[n].fence = inbox[n].fence
      BY <3>2 DEF Swept, Ends, Waits, Released
    <3>6. inbox[n].fence + 1 \in Nat /\ inbox[n].gen \in Nat
      BY <3>1 DEF Row
    <3>7. /\ p = [msg |-> n, token |-> inbox[n].fence + 1, host |-> h, gen |-> inbox[n].gen,
                  phase |-> "prep", aborted |-> FALSE, stopped |-> FALSE, victim |-> FALSE,
                  tracked |-> ("prep" = "prep")]
      BY <2>3 DEF NewOp
    <3>8. /\ p \in Op /\ p.msg = n /\ p.token = inbox[n].fence + 1
          /\ p.phase = "prep" /\ ~p.stopped
      BY <3>1, <3>6, <3>7 DEF Op, Phases
    <3> QED BY <3>4, <3>5, <3>8 DEF Starts, Pre
  <2> HIDE DEF F, rows
  <2>4. \A p \in {F(o) : o \in ops} : p \in Op /\ \E o \in ops : Follows(o, p)
    BY <2>2 DEF Follows, Same, Pre, Unstopped
  <2>5. \A p \in New : p \in Op /\ Starts(p)
    BY <2>3
  <2>6. \A p, q \in ops' : Same(p, q) => p = q
    <3>1. ASSUME NEW o \in ops, NEW r \in ops, Same(F(o), F(r)) PROVE F(o) = F(r)
      <4>1. Same(o, r)
        BY <2>2, <3>1 DEF Same
      <4> QED BY <1>1, <4>1
    <3>2. ASSUME NEW o \in ops, NEW n \in taken,
                 Same(F(o), NewOp(n, h, "prep")) \/ Same(NewOp(n, h, "prep"), F(o))
          PROVE  FALSE
      <4>1. o.token <= inbox[o.msg].fence
        BY DEF IInv, OpsOK
      <4>2. o.msg = n /\ o.token = inbox[n].fence + 1
        BY <2>2, <2>3, <3>2 DEF Same
      <4>3. n \in Msgs /\ inbox[n].fence \in Nat
        BY DEF IInv, Shape, RowOK, Row
      <4> QED BY <4>1, <4>2, <4>3
    <3>3. ASSUME NEW n \in taken, NEW e \in taken,
                 Same(NewOp(n, h, "prep"), NewOp(e, h, "prep"))
          PROVE  n = e
      BY <2>3, <3>3 DEF Same
    <3> HIDE DEF taken
    <3> QED BY <2>1, <3>1, <3>2, <3>3
  <2> HIDE DEF New
  <2>7. \A p \in ops' : p \in Op /\ ((\E o \in ops : Follows(o, p)) \/ Starts(p))
    BY <2>1, <2>4, <2>5
  <2> QED BY <2>6, <2>7 DEF OpsMove
<1> QED BY <1>2, <1>3

(* ... and with native input.                                              *)
LEMMA OpsNative ==
  ASSUME IInv, NEW h \in Hosts, NEW n \in Msgs, claimNativeInbox(h, n)
  PROVE  OpsMove
<1> DEFINE g == gen[ConvOf[n]]
           p == [NewOp(n, h, "open") EXCEPT !.gen = g]
<1>1. /\ ops \subseteq Op /\ \A q, s \in ops : Same(q, s) => q = s
      /\ inbox[n] \in Row /\ inbox[n].fence = 0 /\ inbox \in [Msgs -> Row]
      /\ g \in Nat \ {0}
  BY InboxAssumption DEF IInv, OpsOK, Shape, TypeOK, RowOK, claimNativeInbox, Admits
<1>2. /\ ops' = ops \cup {p}
      /\ inbox' = [inbox EXCEPT ![n] = NativeClaim(g, h)]
  BY DEF claimNativeInbox, NativeClaim
<1>3. inbox'[n].fence = 1
  <2>1. inbox'[n] = NativeClaim(g, h)
    BY <1>1, <1>2
  <2>2. g \in Nat
    BY <1>1
  <2> HIDE DEF g
  <2>3. NativeClaimed(g, h, inbox'[n])
    BY <2>1, <2>2, NativeFields
  <2> QED BY <2>3 DEF NativeClaimed
<1>5. p \in Op /\ p.msg = n /\ p.token = 1 /\ p.phase = "open" /\ ~p.stopped
  <2> DEFINE q == NewOp(n, h, "open")
  <2>1. inbox[n].fence + 1 = 1 /\ inbox[n].gen \in Nat
    BY <1>1 DEF Row
  <2>2. q \in Op /\ q.msg = n /\ q.token = 1 /\ q.phase = "open" /\ ~q.stopped
    BY <2>1 DEF NewOp, Op, Phases
  <2>3. p = [q EXCEPT !.gen = g]
    OBVIOUS
  <2> HIDE DEF q, g, p
  <2> QED BY <1>1, <2>2, <2>3 DEF Op
<1> HIDE DEF p
<1>6. \A q \in ops : Follows(q, q) /\ ~Same(q, p) /\ ~Same(p, q)
  <2> SUFFICES ASSUME NEW q \in ops, Same(q, p) \/ Same(p, q) PROVE FALSE
    BY DEF Follows, Same
  <2>1. q.token <= inbox[q.msg].fence
    BY DEF IInv, OpsOK
  <2> QED BY <1>1, <1>5, <2>1 DEF Same
<1>7. Starts(p)
  BY <1>1, <1>3, <1>5 DEF Starts, Pre
<1>8. \A q, s \in ops' : Same(q, s) => q = s
  BY <1>1, <1>2, <1>6
<1> QED BY <1>1, <1>2, <1>5, <1>6, <1>7, <1>8 DEF OpsMove

(* Every step.                                                             *)
LEMMA EveryOps ==
  ASSUME IInv, [Next]_vars
  PROVE  OpsMove
<1>1. CASE ops' \subseteq ops
  BY <1>1, OpsEnd
<1>2. ASSUME NEW o \in ops, Progress(o) \/ Reply(o) \/ ReplySafe(o) \/ Abort(o)
      PROVE  OpsMove
  <2>1. o \in Op
    BY DEF IInv, Shape, TypeOK
  <2>2. ASSUME NEW s \in Phases, s # "run",
               Pre([o EXCEPT !.phase = s]) => Pre(o), s = "safe" => o.stopped
        PROVE  [o EXCEPT !.phase = s] \in Op /\ Follows(o, [o EXCEPT !.phase = s])
    <3> DEFINE p == [o EXCEPT !.phase = s]
    <3>1. /\ p \in Op /\ p.msg = o.msg /\ p.token = o.token /\ p.phase = s
          /\ p.stopped = o.stopped
      BY <2>1 DEF Op
    <3>2. Pre(p) => Pre(o)
      BY <2>2
    <3> HIDE DEF p
    <3>3. Unstopped(o) => Unstopped(p)
      BY <2>2, <3>1 DEF Unstopped
    <3>4. Follows(o, p)
      BY <2>2, <3>1, <3>2, <3>3 DEF Follows, Same
    <3> QED BY <3>1, <3>4 DEF p
  <2>3. CASE Open(o) \/ Begin(o)
    <3>1. Pre(o) /\ "open" \in Phases /\ "begun" \in Phases
      BY <2>3 DEF Open, Begin, Pre, Phases
    <3> QED BY <2>2, <2>3, <3>1, OpsUpdate DEF Open, Begin
  <2>4. CASE Mark(o)
    <3> DEFINE p == [o EXCEPT !.phase = "run"]
    <3>1. /\ p \in Op /\ p.msg = o.msg /\ p.token = o.token /\ p.phase = "run"
          /\ p.stopped = o.stopped
      BY <2>1 DEF Op, Phases
    <3>2. Marks(o.msg, o) /\ Update(o, p)
      BY <2>4, MarkMarks DEF Mark
    <3> HIDE DEF p
    <3>3. Follows(o, p)
      BY <3>1, <3>2 DEF Follows, Same, Pre, Unstopped
    <3> QED BY <3>1, <3>2, <3>3, OpsUpdate
  <2>5. CASE ReplySafe(o)
    <3>1. o.stopped /\ "safe" \in Phases /\ ~Pre([o EXCEPT !.phase = "safe"])
      BY <2>1, <2>5 DEF ReplySafe, Phases, Pre, Op
    <3> QED BY <2>2, <2>5, <3>1, OpsUpdate DEF ReplySafe
  <2>6. CASE Abort(o)
    <3>1. [o EXCEPT !.aborted = TRUE] \in Op /\ Follows(o, [o EXCEPT !.aborted = TRUE])
      BY <2>1 DEF Op, Phases, Follows, Same, Pre, Unstopped
    <3> QED BY <2>6, <3>1, OpsUpdate DEF Abort
  <2>7. CASE SessionBusy(o) \/ Refuse(o) \/ Return(o) \/ AbortedReturns(o) \/ Reply(o)
    BY <1>1, <2>7 DEF SessionBusy, Refuse, Return, AbortedReturns, Reply
  <2> QED BY <1>2, <2>3, <2>4, <2>5, <2>6, <2>7 DEF Progress
<1>3. ASSUME NEW h \in Hosts,
             \/ Tick(h) \/ Crash(h)
             \/ \E n \in Msgs : Drive(h, n) \/ claimNativeInbox(h, n)
             \/ \E c \in Convs : commit(h, c) \/ transitionFails(h, c)
      PROVE  OpsMove
  <2>1. CASE \E n \in Msgs : reject(h, n) \/ queueInbox(h, n)
    BY <1>1, <2>1 DEF reject, queueInbox
  <2>2. CASE Crash(h) \/ \E c \in Convs : commit(h, c) \/ transitionFails(h, c)
    BY <1>1, <2>2 DEF Crash, commit, transitionFails
  <2> QED BY <1>3, <2>1, <2>2, OpsTick, OpsFence, OpsNative DEF Drive
<1>4. ASSUME NEW n \in Msgs,
             \/ acceptInbound(n) \/ LapseUnattended(n) \/ LapseStalled(n)
             \/ BackoffElapses(n) \/ OperatorCancel(n) \/ OperatorRetry(n)
      PROVE  OpsMove
  BY <1>1, <1>4 DEF acceptInbound, LapseUnattended, LapseStalled, Lapse, BackoffElapses,
                    OperatorCancel, OperatorRetry
<1>5. CASE revokePrincipal \/ setRestartFence \/ clearRestartFence \/ UNCHANGED vars
  BY <1>1, <1>5 DEF revokePrincipal, setRestartFence, clearRestartFence, vars
<1> QED BY <1>2, <1>3, <1>4, <1>5 DEF Next

(* Every step leaves a transition, drops it, or fences.                    *)
LEMMA EveryTrans ==
  ASSUME IInv, [Next]_vars
  PROVE  TransMove
<1>1. trans \in [Hosts -> [Convs -> [msg : Nat, gen : Nat]]]
  BY DEF IInv, Shape, TypeOK
<1>2. CASE UNCHANGED trans
  BY <1>1, <1>2 DEF TransMove
<1>3. ASSUME NEW o \in ops, Progress(o) \/ Reply(o) \/ ReplySafe(o) \/ Abort(o)
      PROVE  TransMove
  BY <1>2, <1>3 DEF Progress, Open, SessionBusy, Refuse, Begin, Mark, Return, AbortedReturns,
                    Reply, ReplySafe, Abort
<1>4. ASSUME NEW h \in Hosts, Crash(h) PROVE TransMove
  BY <1>1, <1>4 DEF Crash, TransMove, NoTransition
<1>5. ASSUME NEW h \in Hosts, NEW c \in Convs, commit(h, c) \/ transitionFails(h, c)
      PROVE  TransMove
  <2>1. trans' = [trans EXCEPT ![h][c] = NoTransition]
    BY <1>5 DEF commit, transitionFails
  <2> QED BY <1>1, <2>1 DEF TransMove, NoTransition
<1>6. ASSUME NEW h \in Hosts, NEW n \in Msgs, fence(h, n) PROVE TransMove
  <2> DEFINE c == ConvOf[n]
  <2>1. /\ trans' = [trans EXCEPT ![h][c] = [msg |-> n, gen |-> gen[c]]]
        /\ Command(n) /\ Drives(h, n)
    BY <1>6 DEF fence
  <2>2. c \in Convs /\ gen[c] \in Nat /\ n \in Nat
    BY InboxAssumption DEF IInv, Shape, TypeOK, Msgs
  <2>3. trans' \in [Hosts -> [Convs -> [msg : Nat, gen : Nat]]]
    BY <1>1, <2>1, <2>2
  <2>4. Sealed(n)
    BY <2>1, InboxAssumption DEF Drives, Pending, Sealed, IInv, NoGaps, Msgs
  <2>5. trans'[h][c].msg = n
    BY <1>1, <2>1, <2>2
  <2>6. ASSUME NEW e \in 1..(n - 1), ConvOf[e] = ConvOf[n], KindOf[e] = "turn"
        PROVE  \/ inbox'[e].status \in Finished
               \/ inbox'[e].status = "claimed" /\ inbox'[e].code # "none"
    <3>1. e \in Msgs /\ inbox[e] \in Row
      BY InboxAssumption DEF Msgs, IInv, Shape, RowOK
    <3>2. CASE e \in Undispatched(n)
      <4>1. inbox'[e] = Dead(inbox[e])
        BY <1>6, <3>1, <3>2 DEF fence
      <4>2. inbox'[e].status = "dead_letter"
        BY <3>1, <4>1, DeadFields
      <4> QED BY <4>2 DEF Finished
    <3>3. CASE e \notin Undispatched(n)
      <4>1. inbox'[e] = inbox[e]
        BY <1>6, <2>6, <3>1, <3>3 DEF fence
      <4>2. inbox[e].status \in Statuses /\ inbox[e].status \notin {"absent", "received"}
        BY <2>4, <2>6, <3>1 DEF Sealed, Row
      <4>3. /\ inbox[e].status \notin {"queued", "retry_wait"}
            /\ ~(inbox[e].status = "claimed" /\ inbox[e].code = "none")
        BY <2>6, <3>3 DEF Undispatched
      <4> QED BY <4>1, <4>2, <4>3 DEF Statuses, Finished
    <3> QED BY <3>2, <3>3
  <2>7. Fences(h, n)
    BY <2>1, <2>4, <2>5, <2>6 DEF Fences
  <2>8. \A g \in Hosts, d \in Convs :
          trans'[g][d] = trans[g][d] \/ (g = h /\ d = c)
    BY <1>1, <2>1, <2>2
  <2> QED BY <2>3, <2>7, <2>8 DEF TransMove
<1>7. ASSUME NEW h \in Hosts, NEW n \in Msgs,
             Tick(h) \/ reject(h, n) \/ queueInbox(h, n) \/ claimNativeInbox(h, n)
      PROVE  TransMove
  BY <1>2, <1>7 DEF Tick, reject, queueInbox, claimNativeInbox
<1>8. ASSUME NEW h \in Hosts, Tick(h) PROVE TransMove
  BY <1>2, <1>8 DEF Tick
<1>9. ASSUME NEW n \in Msgs,
             \/ acceptInbound(n) \/ LapseUnattended(n) \/ LapseStalled(n)
             \/ BackoffElapses(n) \/ OperatorCancel(n) \/ OperatorRetry(n)
      PROVE  TransMove
  BY <1>2, <1>9 DEF acceptInbound, LapseUnattended, LapseStalled, Lapse, BackoffElapses,
                    OperatorCancel, OperatorRetry
<1>10. CASE revokePrincipal \/ setRestartFence \/ clearRestartFence \/ UNCHANGED vars
  BY <1>2, <1>10 DEF revokePrincipal, setRestartFence, clearRestartFence, vars
<1> QED BY <1>3, <1>4, <1>5, <1>6, <1>7, <1>8, <1>9, <1>10 DEF Next, Drive

-----------------------------------------------------------------------------
(* The invariant holds and is preserved.                                   *)

(* No row, operation or transition at first.                               *)
LEMMA InitIInv ==
  ASSUME Init
  PROVE  IInv
<1>1. Absent \in Row
  BY DEF Absent, Row, Statuses, Codes
<1>2. \A m \in Msgs : inbox[m] = Absent
  BY DEF Init
<1>3. /\ Absent.status = "absent" /\ Absent.gen = 0 /\ Absent.fence = 0 /\ Absent.runs = 0
      /\ Absent.attempts = 0 /\ Absent.claimedBy = NoHost /\ ~Absent.live /\ ~Absent.open
      /\ Absent.code = "none" /\ Absent.retries = 0
  BY DEF Absent
<1>4. /\ trans \in [Hosts -> [Convs -> [msg : Nat, gen : Nat]]]
      /\ \A h \in Hosts, c \in Convs : trans[h][c].msg = 0
  BY DEF Init, NoTransition
<1>5. Shape
  <2>1. TypeOK
    <3>1. inbox \in [Msgs -> Row]
      BY <1>1 DEF Init
    <3>2. gen \in [Convs -> Nat \ {0}]
      BY DEF Init
    <3>3. authorized \in BOOLEAN /\ draining \in BOOLEAN /\ ops \subseteq Op
      BY DEF Init
    <3> QED BY <1>4, <3>1, <3>2, <3>3 DEF TypeOK
  <2>2. RowOK(Absent) /\ \A m \in Msgs : CodeOK(m, Absent)
    BY <1>1, <1>3 DEF RowOK, CodeOK
  <2> QED BY <1>2, <2>1, <2>2 DEF Shape
<1>6. \A m \in Msgs : /\ inbox[m].status = "absent" /\ inbox[m].gen = 0
                      /\ inbox[m].fence = 0 /\ inbox[m].runs = 0 /\ inbox[m].retries = 0
  BY <1>2, <1>3
<1>7. ops = {}
  BY DEF Init
<1>8. OpsOK /\ Budgets
  <2>1. \A m \in Msgs : TriesOK(m, inbox[m])
    BY <1>2, <1>3, InboxAssumption DEF TriesOK
  <2> QED BY <1>6, <1>7, <2>1 DEF OpsOK, Budgets, BudgetOK
<1>9. NoGaps /\ Seals /\ LaneExclusive /\ InOrder
  BY <1>4, <1>6 DEF NoGaps, Seals, LaneExclusive, InOrder
<1>10. Boundaries
  BY <1>4, <1>6, InboxAssumption DEF Boundaries, Raised, Msgs
<1> QED BY <1>5, <1>8, <1>9, <1>10 DEF IInv

(* What the moves leave of a row: it is well formed, its ledger grows, and *)
(* its retries never shrink.                                               *)
LEMMA MoveShape ==
  ASSUME IInv, NEW m \in Msgs, Move(m)
  PROVE  /\ RowOK(inbox'[m]) /\ CodeOK(m, inbox'[m])
         /\ inbox'[m].fence >= inbox[m].fence /\ inbox'[m].retries >= inbox[m].retries
<1> DEFINE r == inbox[m]
           n == inbox'[m]
           Good(k) == /\ RowOK(k) /\ CodeOK(m, k)
                      /\ k.fence >= r.fence /\ k.retries >= r.retries
<1> SUFFICES Good(n)
  OBVIOUS
<1>1. RowOK(r) /\ CodeOK(m, r) /\ r \in Row /\ r.fence \in Nat /\ r.retries \in Nat
      /\ r.attempts \in Nat /\ r.runs \in Nat /\ r.status \in Statuses
  BY DEF IInv, Shape, RowOK, Row
<1>2. CASE Stays(m)
  <2>1. RowOK(n) /\ CodeOK(m, n)
    BY <1>1, <1>2 DEF Stays, Alike, RowOK, CodeOK
  <2> QED BY <1>1, <1>2, <2>1 DEF Stays, Alike
<1>3. ASSUME NEW k, Ends(m, k) \/ Waits(m, k)
      PROVE  Good(k)
  <2>1. /\ k \in Row /\ k.claimedBy = NoHost /\ ~k.live /\ ~k.open
        /\ k.attempts <= r.attempts /\ k.fence = r.fence
        /\ k.gen = r.gen /\ k.runs = r.runs /\ k.retries = r.retries
    BY <1>1, <1>3 DEF Ends, Waits, Released
  <2>2. k.attempts <= k.fence
    BY <1>1, <2>1 DEF RowOK, Row
  <2>3. k.status \in Finished \/ (k.status = "retry_wait" /\ r.status = "claimed")
    BY <1>3 DEF Ends, Waits
  <2>4. RowOK(k)
    BY <1>1, <2>1, <2>2, <2>3 DEF RowOK, Finished
  <2>5. CodeOK(m, k)
    BY <1>3, <2>3 DEF Ends, Waits, CodeOK, Finished
  <2> QED BY <1>1, <2>1, <2>4, <2>5
<1>4. CASE Concludes(m)
  BY <1>3, <1>4 DEF Concludes
<1>5. CASE Arrives(m)
  <2>1. n = [Absent EXCEPT !.status = "received"]
    BY <1>5 DEF Arrives
  <2>2. /\ n.status = "received" /\ n.gen = 0 /\ n.fence = 0 /\ n.runs = 0
        /\ n.attempts = 0 /\ n.claimedBy = NoHost /\ ~n.live /\ ~n.open
        /\ n.code = "none" /\ n.retries = 0
    BY <2>1 DEF Absent
  <2>3. n \in Row
    <3>1. Absent \in Row
      BY DEF Absent, Row, Statuses, Codes
    <3> QED BY <2>1, <3>1 DEF Row, Statuses
  <2> HIDE DEF n
  <2>4. RowOK(n) /\ CodeOK(m, n)
    BY <2>2, <2>3 DEF RowOK, CodeOK
  <2>5. r.fence = 0 /\ r.retries = 0
    BY <1>1, <1>5 DEF Arrives, RowOK
  <2> QED BY <2>2, <2>4, <2>5
<1>6. CASE Queues(m)
  <2>1. PICK g \in Nat \ {0} : n = [r EXCEPT !.status = "queued", !.gen = g]
    BY <1>6 DEF Queues
  <2>2. r.status = "received"
    BY <1>6 DEF Queues
  <2>3. /\ n \in Row /\ n.status = "queued" /\ n.gen = g /\ n.fence = r.fence
        /\ n.attempts = r.attempts /\ n.claimedBy = r.claimedBy /\ n.live = r.live
        /\ n.open = r.open /\ n.code = r.code /\ n.retries = r.retries
    BY <1>1, <2>1 DEF Row, Statuses
  <2> HIDE DEF n
  <2>4. RowOK(n) /\ CodeOK(m, n)
    BY <1>1, <2>2, <2>3 DEF RowOK, CodeOK
  <2> QED BY <1>1, <2>3, <2>4
<1>7. CASE Revives(m)
  <2>1. PICK d \in Nat : n = [r EXCEPT !.status = "queued", !.code = "none",
                                       !.decided = d, !.retries = @ + 1]
    BY <1>7 DEF Revives
  <2>2. r.status = "dead_letter" /\ r.gen # 0
    BY <1>7 DEF Revives
  <2> r.retries + 1 \in Nat
    BY <1>1
  <2>3. /\ n \in Row /\ n.status = "queued" /\ n.gen = r.gen /\ n.fence = r.fence
        /\ n.attempts = r.attempts /\ n.claimedBy = r.claimedBy /\ n.live = r.live
        /\ n.open = r.open /\ n.code = "none" /\ n.retries = r.retries + 1
    BY <1>1, <2>1 DEF Row, Statuses, Codes
  <2> HIDE DEF n
  <2>4. RowOK(n) /\ CodeOK(m, n)
    BY <1>1, <2>2, <2>3 DEF RowOK, CodeOK
  <2> QED BY <1>1, <2>3, <2>4
<1>8. ASSUME NEW o \in ops, Marks(m, o) PROVE Good(n)
  <2> DEFINE c == IF r.code \in {"native", "recovery"} THEN r.code ELSE "started"
             i == IF r.code = "recovery" THEN 0 ELSE 1
  <2>1. n = [r EXCEPT !.code = c, !.runs = @ + i] /\ r.status = "claimed"
    BY <1>8 DEF Marks, Current
  <2>2. c \in {"native", "recovery", "started"} /\ i \in Nat /\ (c = "recovery" => r.code = c)
        /\ (r.code \notin {"native", "recovery"} => c = "started")
        /\ (c = "native" => r.code = c)
    OBVIOUS
  <2> r.runs + i \in Nat
    BY <1>1, <2>2
  <2> HIDE DEF c, i
  <2>3. /\ n \in Row /\ n.status = r.status /\ n.gen = r.gen /\ n.fence = r.fence
        /\ n.attempts = r.attempts /\ n.claimedBy = r.claimedBy /\ n.live = r.live
        /\ n.open = r.open /\ n.token = r.token /\ n.code = c /\ n.retries = r.retries
    BY <1>1, <2>1, <2>2 DEF Row, Codes
  <2> HIDE DEF n
  <2>4. RowOK(n)
    BY <1>1, <2>1, <2>3 DEF RowOK
  <2>5. CodeOK(m, n)
    BY <1>1, <2>1, <2>2, <2>3 DEF CodeOK
  <2> QED BY <1>1, <2>3, <2>4, <2>5
<1>9. ASSUME NEW h \in Hosts, Ticks(m, h) PROVE Good(n)
  <2>1. PICK k \in Row :
          /\ Swept(m, k)
          /\ \/ n = k
             \/ k.status \in {"queued", "retry_wait"} /\ k.gen # 0 /\ n = Claim(k, h)
    BY <1>9 DEF Ticks
  <2>2. Good(k)
    BY <1>1, <1>3, <2>1 DEF Swept
  <2>3. CASE n = k
    BY <2>2, <2>3
  <2>4. CASE k.status \in {"queued", "retry_wait"} /\ k.gen # 0 /\ n = Claim(k, h)
    <3>1. Claimed(k, h, n)
      BY <2>4, ClaimFields
    <3>2. IF k.code = "recovery" THEN n.code = "recovery" ELSE n.code = "none"
      BY <2>4, ClaimCode
    <3>3. /\ n \in Row /\ n.status = "claimed" /\ n.claimedBy = h
          /\ n.open = TRUE /\ n.token = k.fence + 1 /\ n.fence = k.fence + 1
          /\ n.attempts = k.attempts + 1 /\ n.gen = k.gen /\ n.retries = k.retries
      BY <3>1 DEF Claimed
    <3> HIDE DEF n
    <3>4. k.fence \in Nat /\ k.attempts \in Nat /\ k.attempts <= k.fence
          /\ k.fence >= r.fence /\ k.retries >= r.retries
      BY <2>2 DEF RowOK, Row
    <3>5. RowOK(n)
      BY <2>4, <3>3, <3>4 DEF RowOK
    <3>6. CodeOK(m, n)
      BY <2>2, <3>2, <3>3 DEF CodeOK
    <3> QED BY <1>1, <3>3, <3>4, <3>5, <3>6
  <2> QED BY <2>1, <2>3, <2>4
<1>10. ASSUME NEW h \in Hosts, Enters(m, h) PROVE Good(n)
  <2>1. PICK g \in Nat \ {0} : n = NativeClaim(g, h)
    BY <1>10 DEF Enters
  <2>2. NativeClaimed(g, h, n) /\ KindOf[m] = "native" /\ r.status = "absent"
    BY <1>10, <2>1, NativeFields DEF Enters
  <2>3. r.fence = 0 /\ r.retries = 0
    BY <1>1, <2>2 DEF RowOK
  <2>4. /\ n \in Row /\ n.status = "claimed" /\ n.claimedBy = h /\ n.open = TRUE
        /\ n.token = 1 /\ n.fence = 1 /\ n.attempts = 1 /\ n.gen = g /\ n.retries = 0
        /\ n.code = "native"
    BY <2>2 DEF NativeClaimed
  <2> HIDE DEF n
  <2>5. RowOK(n) /\ CodeOK(m, n)
    BY <2>2, <2>4 DEF RowOK, CodeOK
  <2> QED BY <2>3, <2>4, <2>5
<1> QED BY <1>2, <1>4, <1>5, <1>6, <1>7, <1>8, <1>9, <1>10 DEF Move

(* The moves, one by one: which keep a message's dispatch budget ...       *)
LEMMA MoveBudget ==
  ASSUME IInv, NEW m \in Msgs, Move(m)
  PROVE  BudgetOK(m, inbox'[m])
<1> DEFINE r == inbox[m]
           n == inbox'[m]
<1>1. /\ RowOK(r) /\ CodeOK(m, r) /\ BudgetOK(m, r) /\ r \in Row
      /\ r.retries \in Nat /\ r.runs \in Nat
  BY DEF IInv, Shape, RowOK, Row, Budgets
<1> SUFFICES ASSUME KindOf[m] # "permission" PROVE BudgetOK(m, n)
  BY DEF BudgetOK
<1>2. ASSUME NEW k, Ends(m, k) \/ Waits(m, k) PROVE BudgetOK(m, k)
  <2>1. k.runs = r.runs /\ k.retries = r.retries
    BY <1>2 DEF Ends, Waits, Released
  <2>2. CASE Ends(m, k)
    BY <1>1, <2>1, <2>2 DEF Ends, BudgetOK
  <2>3. CASE Waits(m, k)
    <3>1. r.runs <= r.retries
      <4>1. CASE r.code \notin {"native", "started"}
        BY <1>1, <2>3, <4>1 DEF Waits, BudgetOK, Finished
      <4>2. CASE \E o \in ops : o.msg = m /\ o.token = r.token /\ Pre(o)
        BY <2>3, <4>2 DEF Waits, IInv, Budgets, Unspent
      <4> QED BY <2>3, <4>1, <4>2 DEF Waits, Undecided
    <3> QED BY <1>1, <2>1, <3>1 DEF BudgetOK
  <2> QED BY <1>2, <2>2, <2>3
<1>3. CASE Stays(m)
  BY <1>1, <1>3 DEF Stays, Alike, BudgetOK
<1>4. CASE Concludes(m)
  BY <1>2, <1>4 DEF Concludes
<1>5. CASE Arrives(m)
  <2>1. n.runs = 0 /\ n.retries = 0
    BY <1>5 DEF Arrives, Absent
  <2> HIDE DEF n
  <2> QED BY <2>1 DEF BudgetOK
<1>6. CASE Queues(m)
  <2>1. n.runs = r.runs /\ n.retries = r.retries /\ r.status = "received"
    BY <1>1, <1>6 DEF Queues, Row
  <2>2. r.runs = 0
    BY <1>1, <2>1 DEF RowOK
  <2> HIDE DEF n
  <2> QED BY <1>1, <2>1, <2>2 DEF BudgetOK
<1>7. CASE Revives(m)
  <2>1. n.runs = r.runs /\ n.retries = r.retries + 1
    BY <1>1, <1>7 DEF Revives, Row
  <2> HIDE DEF n
  <2> QED BY <1>1, <2>1 DEF BudgetOK
<1>8. ASSUME NEW o \in ops, Marks(m, o) PROVE BudgetOK(m, n)
  <2> DEFINE c == IF r.code \in {"native", "recovery"} THEN r.code ELSE "started"
             i == IF r.code = "recovery" THEN 0 ELSE 1
  <2>1. n = [r EXCEPT !.code = c, !.runs = @ + i] /\ r.status = "claimed"
        /\ r.token = o.token /\ o.msg = m /\ Pre(o)
    BY <1>8 DEF Marks, Current
  <2>2. r.runs <= r.retries
    BY <2>1 DEF IInv, Budgets, Unspent
  <2>3. c \in {"native", "started"} /\ i = 1
    BY <1>1 DEF CodeOK
  <2> HIDE DEF c, i
  <2>4. /\ n.status = "claimed" /\ n.runs = r.runs + 1 /\ n.retries = r.retries
        /\ n.code = c
    BY <1>1, <2>1, <2>3 DEF Row
  <2> HIDE DEF n
  <2> QED BY <1>1, <2>2, <2>3, <2>4 DEF BudgetOK
<1>9. ASSUME NEW h \in Hosts, Ticks(m, h) PROVE BudgetOK(m, n)
  <2>1. PICK k \in Row :
          /\ Swept(m, k)
          /\ n = k \/ (k.status \in {"queued", "retry_wait"} /\ n = Claim(k, h))
    BY <1>9 DEF Ticks
  <2>2. BudgetOK(m, k)
    BY <1>1, <1>2, <2>1 DEF Swept
  <2>3. CASE k.status \in {"queued", "retry_wait"} /\ n = Claim(k, h)
    <3>1. k.runs <= k.retries
      BY <2>2, <2>3 DEF BudgetOK, Finished
    <3>2. Claimed(k, h, n)
      BY <2>3, ClaimFields
    <3> HIDE DEF n
    <3>3. n.runs = k.runs /\ n.retries = k.retries /\ k.runs \in Nat /\ k.retries \in Nat
      BY <3>2 DEF Claimed, Row
    <3> QED BY <3>1, <3>3 DEF BudgetOK
  <2> QED BY <2>1, <2>2, <2>3
<1>10. ASSUME NEW h \in Hosts, Enters(m, h) PROVE BudgetOK(m, n)
  <2>1. PICK g \in Nat \ {0} : n = NativeClaim(g, h)
    BY <1>10 DEF Enters
  <2>2. NativeClaimed(g, h, n)
    BY <2>1, NativeFields
  <2> HIDE DEF n
  <2>3. n.runs = 0 /\ n.retries = 0
    BY <2>2 DEF NativeClaimed
  <2> QED BY <2>3 DEF BudgetOK
<1> QED BY <1>3, <1>4, <1>5, <1>6, <1>7, <1>8, <1>9, <1>10 DEF Move

(* ... and its count of attempts ...                                       *)
LEMMA MoveTries ==
  ASSUME IInv, NEW m \in Msgs, Move(m)
  PROVE  TriesOK(m, inbox'[m])
<1> DEFINE r == inbox[m]
           n == inbox'[m]
<1>1. /\ RowOK(r) /\ TriesOK(m, r) /\ r \in Row /\ MaxAttempts \in Nat \ {0}
      /\ r.retries \in Nat /\ r.attempts \in Nat /\ r.fence \in Nat
  BY InboxAssumption DEF IInv, Shape, RowOK, Row, Budgets
<1> SUFFICES ASSUME KindOf[m] # "permission" PROVE TriesOK(m, n)
  BY DEF TriesOK
<1>2. ASSUME NEW k, Ends(m, k) \/ Waits(m, k) PROVE TriesOK(m, k)
  <2>1. k.attempts <= r.attempts /\ k.retries = r.retries /\ k.attempts \in Int
    BY <1>1, <1>2 DEF Ends, Waits, Released
  <2>2. k.status # "queued"
    BY <1>2 DEF Ends, Waits, Finished
  <2> QED BY <1>1, <2>1, <2>2 DEF TriesOK
<1>3. CASE Stays(m)
  BY <1>1, <1>3 DEF Stays, Alike, TriesOK
<1>4. CASE Concludes(m)
  BY <1>2, <1>4 DEF Concludes
<1>5. CASE Arrives(m)
  <2>1. n.attempts = 0 /\ n.retries = 0
    BY <1>5 DEF Arrives, Absent
  <2> HIDE DEF n
  <2> QED BY <1>1, <2>1 DEF TriesOK
<1>6. CASE Queues(m)
  <2>1. n.attempts = r.attempts /\ n.retries = r.retries /\ r.status = "received"
    BY <1>1, <1>6 DEF Queues, Row
  <2>2. r.attempts = 0
    BY <1>1, <2>1 DEF RowOK
  <2> HIDE DEF n
  <2> QED BY <1>1, <2>1, <2>2 DEF TriesOK
<1>7. CASE Revives(m)
  <2>1. n.attempts = r.attempts /\ n.retries = r.retries + 1
    BY <1>1, <1>7 DEF Revives, Row
  <2> HIDE DEF n
  <2> QED BY <1>1, <2>1 DEF TriesOK
<1>8. ASSUME NEW o \in ops, Marks(m, o) PROVE TriesOK(m, n)
  <2>1. n.status = r.status /\ n.attempts = r.attempts /\ n.retries = r.retries
    BY <1>1, <1>8 DEF Marks, Row
  <2> HIDE DEF n
  <2> QED BY <1>1, <2>1 DEF TriesOK
<1>9. ASSUME NEW h \in Hosts, Ticks(m, h) PROVE TriesOK(m, n)
  <2>1. PICK k \in Row :
          /\ Swept(m, k)
          /\ \/ n = k
             \/ /\ k.status \in {"queued", "retry_wait"} /\ n = Claim(k, h)
                /\ k.status = "retry_wait" => ~Exhausted(k)
    BY <1>9 DEF Ticks
  <2>2. TriesOK(m, k)
    BY <1>1, <1>2, <2>1 DEF Swept
  <2>3. CASE k.status \in {"queued", "retry_wait"} /\ n = Claim(k, h)
             /\ (k.status = "retry_wait" => ~Exhausted(k))
    <3>1. Claimed(k, h, n)
      BY <2>3, ClaimFields
    <3> HIDE DEF n
    <3>2. /\ n.attempts = k.attempts + 1 /\ n.retries = k.retries /\ n.status = "claimed"
          /\ k.attempts \in Nat /\ k.retries \in Nat
      BY <3>1 DEF Claimed, Row
    <3>3. k.attempts < MaxAttempts + k.retries
      <4>1. CASE k.status = "queued"
        BY <2>2, <4>1 DEF TriesOK
      <4>2. CASE k.status = "retry_wait"
        <5>1. k.code # "recovery"
          BY <1>1, <2>1, <4>2 DEF Swept, Ends, Waits, IInv, Shape, CodeOK, Finished
        <5> QED BY <1>1, <2>3, <3>2, <4>2, <5>1 DEF Exhausted
      <4> QED BY <2>3, <4>1, <4>2
    <3> QED BY <1>1, <3>2, <3>3 DEF TriesOK
  <2> QED BY <2>1, <2>2, <2>3
<1>10. ASSUME NEW h \in Hosts, Enters(m, h) PROVE TriesOK(m, n)
  <2>1. PICK g \in Nat \ {0} : n = NativeClaim(g, h)
    BY <1>10 DEF Enters
  <2>2. NativeClaimed(g, h, n)
    BY <2>1, NativeFields
  <2> HIDE DEF n
  <2>3. n.attempts = 1 /\ n.retries = 0 /\ n.status = "claimed"
    BY <2>2 DEF NativeClaimed
  <2> QED BY <1>1, <2>3 DEF TriesOK
<1> QED BY <1>3, <1>4, <1>5, <1>6, <1>7, <1>8, <1>9, <1>10 DEF Move

(* ... when a token is given out ...                                       *)
LEMMA MoveFence ==
  ASSUME IInv, NEW m \in Msgs, Move(m)
  PROVE  \/ inbox'[m].fence = inbox[m].fence
         \/ \E h \in Hosts : Ticks(m, h) \/ Enters(m, h)
<1>1. inbox[m] \in Row
  BY DEF IInv, Shape, RowOK
<1>2. CASE Arrives(m)
  <2>1. inbox'[m].fence = 0 /\ inbox[m].fence = 0
    BY <1>2 DEF Arrives, Absent, IInv, Shape, RowOK
  <2> QED BY <2>1
<1>3. CASE Stays(m) \/ Concludes(m)
  BY <1>3 DEF Stays, Alike, Concludes, Ends, Waits, Released
<1>4. CASE Queues(m) \/ Revives(m)
  BY <1>1, <1>4 DEF Queues, Revives, Row
<1>5. ASSUME NEW o \in ops, Marks(m, o) PROVE inbox'[m].fence = inbox[m].fence
  BY <1>1, <1>5 DEF Marks, Row
<1> QED BY <1>2, <1>3, <1>4, <1>5 DEF Move

(* ... and which messages stay driven, sealed, past and finished.          *)
LEMMA MoveStatus ==
  ASSUME IInv, NEW m \in Msgs, Move(m)
  PROVE  /\ inbox[m].status # "absent" => inbox'[m].status # "absent"
         /\ inbox[m].status \notin {"absent", "received"} =>
              inbox'[m].status \notin {"absent", "received"}
         /\ inbox[m].status \in Finished =>
              inbox'[m].status \in Finished \/ inbox'[m].retries > 0
<1> DEFINE r == inbox[m]
           n == inbox'[m]
<1>1. r \in Row /\ r.retries \in Nat
  BY DEF IInv, Shape, RowOK, Row
<1>2. CASE Stays(m)
  BY <1>2 DEF Stays, Alike
<1>3. CASE Concludes(m)
  BY <1>3 DEF Concludes, Ends, Waits, Finished
<1>4. CASE Arrives(m)
  BY <1>4 DEF Arrives, Finished
<1>5. CASE Queues(m)
  <2>1. r.status = "received" /\ n.status = "queued"
    BY <1>1, <1>5 DEF Queues, Row
  <2> QED BY <2>1 DEF Finished
<1>6. CASE Revives(m)
  <2>1. r.status = "dead_letter" /\ n.status = "queued" /\ n.retries = r.retries + 1
    BY <1>1, <1>6 DEF Revives, Row
  <2>2. n.retries > 0
    BY <1>1, <2>1
  <2> QED BY <2>1, <2>2
<1>7. ASSUME NEW o \in ops, Marks(m, o) PROVE n.status = r.status
  BY <1>1, <1>7 DEF Marks, Row
<1>8. ASSUME NEW h \in Hosts, Ticks(m, h)
      PROVE  /\ n.status = r.status \/ n.status \in Finished \cup {"retry_wait", "claimed"}
             /\ r.status \in Finished \cup {"absent", "received"} =>
                  n.status = r.status \/ (r.status = "received" /\ n.status \in Finished)
  <2>1. PICK k \in Row :
          /\ Swept(m, k)
          /\ n = k \/ (k.status \in {"queued", "retry_wait"} /\ n = Claim(k, h))
    BY <1>8 DEF Ticks
  <2>2. \/ k = r
        \/ k.status \in Finished /\ r.status \notin Finished \cup {"absent"}
        \/ k.status = "retry_wait" /\ r.status = "claimed"
    BY <2>1 DEF Swept, Ends, Waits
  <2>3. CASE n = k
    BY <2>2, <2>3 DEF Finished
  <2>4. CASE k.status \in {"queued", "retry_wait"} /\ n = Claim(k, h)
    <3>1. Claimed(k, h, n)
      BY <2>4, ClaimFields
    <3>2. n.status = "claimed"
      BY <3>1 DEF Claimed
    <3>3. r.status \notin Finished \cup {"absent", "received"}
      BY <2>2, <2>4 DEF Finished
    <3> QED BY <3>2, <3>3
  <2> QED BY <2>1, <2>3, <2>4
<1>9. ASSUME NEW h \in Hosts, Enters(m, h) PROVE r.status = "absent"
  BY <1>9 DEF Enters
<1>10. ASSUME n.status = r.status
       PROVE  /\ r.status # "absent" => n.status # "absent"
              /\ r.status \notin {"absent", "received"} => n.status \notin {"absent", "received"}
              /\ r.status \in Finished => n.status \in Finished
  BY <1>10
<1>11. ASSUME NEW h \in Hosts, Ticks(m, h)
       PROVE  /\ r.status # "absent" => n.status # "absent"
              /\ r.status \notin {"absent", "received"} => n.status \notin {"absent", "received"}
              /\ r.status \in Finished => n.status \in Finished
  BY <1>8, <1>11 DEF Finished
<1>12. CASE r.status = "absent"
  BY <1>12 DEF Finished
<1> HIDE DEF r, n
<1>13. \/ \E o \in ops : Marks(m, o)
       \/ \E h \in Hosts : Ticks(m, h) \/ Enters(m, h)
       \/ Stays(m) \/ Concludes(m) \/ Arrives(m) \/ Queues(m) \/ Revives(m)
  BY DEF Move
<1> QED BY <1>2, <1>3, <1>4, <1>5, <1>6, <1>7, <1>9, <1>10, <1>11, <1>12, <1>13 DEF r, n

(* ... which rows a step may claim ...                                     *)
LEMMA MoveClaim ==
  ASSUME IInv, NEW m \in Msgs, NEW h \in Hosts, Ticks(m, h)
  PROVE  \/ inbox'[m].fence = inbox[m].fence
            /\ (inbox'[m].status = "claimed" => inbox'[m] = inbox[m])
         \/ Alone(m) /\ inbox[m].gen # 0 /\ inbox'[m].gen # 0
<1> DEFINE r == inbox[m]
           n == inbox'[m]
<1>1. PICK k \in Row :
        /\ Swept(m, k)
        /\ \/ n = k
           \/ k.status \in {"queued", "retry_wait"} /\ k.gen # 0 /\ n = Claim(k, h) /\ Alone(m)
  BY DEF Ticks
<1>2. k.fence = r.fence /\ k.gen = r.gen
  BY <1>1 DEF Swept, Ends, Waits, Released
<1>3. k = r \/ k.status # "claimed"
  BY <1>1 DEF Swept, Ends, Waits, Finished
<1>4. CASE n = k
  BY <1>2, <1>3, <1>4
<1>5. CASE k.gen # 0 /\ n = Claim(k, h) /\ Alone(m)
  <2>1. Claimed(k, h, n)
    BY <1>5, ClaimFields
  <2>2. n.gen = k.gen
    BY <2>1 DEF Claimed
  <2> QED BY <1>2, <1>5, <2>2
<1> QED BY <1>1, <1>4, <1>5

(* ... and bind or admit.                                                  *)
LEMMA MoveBind ==
  ASSUME IInv, NEW m \in Msgs, Move(m)
  PROVE  /\ inbox[m].status = "absent" =>
              \/ inbox'[m].status = "absent"
              \/ \A e \in 1..(m - 1) : inbox[e].status # "absent"
         /\ inbox[m].gen = 0 =>
              inbox'[m].gen = 0 \/ Queues(m) \/ \E h \in Hosts : Enters(m, h)
         /\ inbox'[m].status = "claimed" =>
              \/ inbox[m].status = "claimed" \/ Alone(m)
              \/ \E h \in Hosts : Enters(m, h)
<1> DEFINE r == inbox[m]
           n == inbox'[m]
           A == r.status = "absent" => n.status = "absent"
           G == r.gen = 0 => n.gen = 0
           C == n.status = "claimed" => r.status = "claimed" \/ Alone(m)
<1>1. r \in Row
  BY DEF IInv, Shape, RowOK
<1>2. CASE Stays(m)
  <2>1. A /\ G /\ C
    BY <1>2 DEF Stays, Alike
  <2> QED BY <2>1
<1>3. CASE Concludes(m)
  <2>1. A /\ G /\ C
    BY <1>3 DEF Concludes, Ends, Waits, Released, Finished
  <2> QED BY <2>1
<1>4. CASE Arrives(m)
  <2>1. n.status = "received" /\ n.gen = 0
    BY <1>4 DEF Arrives, Absent
  <2> QED BY <1>4, <2>1 DEF Arrives
<1>5. CASE Queues(m)
  <2>1. n.status = "queued" /\ r.status = "received"
    BY <1>1, <1>5 DEF Queues, Row
  <2> QED BY <1>5, <2>1
<1>6. CASE Revives(m)
  <2>1. n.status = "queued" /\ r.status = "dead_letter" /\ n.gen = r.gen
    BY <1>1, <1>6 DEF Revives, Row
  <2> QED BY <2>1
<1>7. ASSUME NEW o \in ops, Marks(m, o) PROVE A /\ G /\ C
  <2>1. n.status = r.status /\ n.gen = r.gen
    BY <1>1, <1>7 DEF Marks, Row
  <2> QED BY <2>1
<1>8. ASSUME NEW h \in Hosts, Ticks(m, h) PROVE A /\ G /\ C
  <2>1. PICK k \in Row :
          /\ Swept(m, k)
          /\ n = k \/ (k.status \in {"queued", "retry_wait"} /\ k.gen # 0 /\ n = Claim(k, h))
    BY <1>8 DEF Ticks
  <2>2. k = r \/ r.status \notin {"absent"}
    BY <2>1 DEF Swept, Ends, Waits
  <2>3. k.gen = r.gen
    BY <2>1 DEF Swept, Ends, Waits, Released
  <2>4. A
    BY <2>1, <2>2
  <2>5. G
    BY <2>1, <2>3
  <2>6. C
    BY <1>8, MoveClaim
  <2> QED BY <2>4, <2>5, <2>6
<1>9. ASSUME NEW h \in Hosts, Enters(m, h)
      PROVE  \A e \in 1..(m - 1) : inbox[e].status # "absent"
  BY <1>9 DEF Enters
<1> HIDE DEF r, n
<1>10. CASE \E o \in ops : Marks(m, o)
  BY <1>7, <1>10 DEF r, n
<1>11. CASE \E h \in Hosts : Ticks(m, h)
  BY <1>8, <1>11 DEF r, n
<1>12. CASE \E h \in Hosts : Enters(m, h)
  BY <1>9, <1>12
<1> QED BY <1>2, <1>3, <1>4, <1>5, <1>6, <1>10, <1>11, <1>12 DEF Move

(* A turn that is past stays past, and is not dispatched.                  *)
LEMMA MovePast ==
  ASSUME IInv, NEW m \in Msgs, Move(m), KindOf[m] = "turn", Past(m), inbox'[m].retries = 0
  PROVE  Past(m)' /\ inbox'[m].runs = inbox[m].runs
<1> DEFINE r == inbox[m]
           n == inbox'[m]
           P(k) == k.status \in Finished \/ (k.status = "claimed" /\ k.code = "started")
<1>1. r \in Row /\ P(r) /\ r.retries \in Nat
  BY DEF IInv, Shape, RowOK, Past, Row
<1> SUFFICES P(n) /\ n.runs = r.runs
  BY DEF Past
<1>2. \A o \in ops : o.msg = m /\ Pre(o) /\ r.status = "claimed" /\ r.token = o.token
                     => r.code = "none"
  BY DEF IInv, Budgets, Unspent
<1>3. ~Waits(m, n) /\ \A k : ~Waits(m, k)
  <2> SUFFICES ASSUME NEW k, Waits(m, k) PROVE FALSE
    OBVIOUS
  <2>1. r.status = "claimed" /\ r.code = "started"
    BY <1>1 DEF Waits, Finished
  <2>2. \E o \in ops : o.msg = m /\ o.token = r.token /\ Pre(o)
    BY <2>1 DEF Waits, Undecided
  <2> QED BY <1>2, <2>1, <2>2
<1>4. ASSUME NEW k, Ends(m, k) PROVE P(k) /\ k.runs = r.runs
  BY <1>4 DEF Ends, Released
<1>5. CASE Stays(m)
  BY <1>1, <1>5 DEF Stays, Alike
<1>6. CASE Concludes(m)
  BY <1>3, <1>4, <1>6 DEF Concludes
<1>7. CASE Arrives(m) \/ Queues(m)
  BY <1>1, <1>7 DEF Arrives, Queues, Finished
<1>8. CASE Revives(m)
  <2>1. n.retries = r.retries + 1
    BY <1>1, <1>8 DEF Revives, Row
  <2> QED BY <1>1, <2>1
<1>9. ASSUME NEW o \in ops, Marks(m, o) PROVE FALSE
  BY <1>1, <1>2, <1>9 DEF Marks, Current, Finished
<1>10. ASSUME NEW h \in Hosts, Ticks(m, h) PROVE P(n) /\ n.runs = r.runs
  <2>1. PICK k \in Row :
          /\ Swept(m, k)
          /\ n = k \/ (k.status \in {"queued", "retry_wait"} /\ n = Claim(k, h))
    BY <1>10 DEF Ticks
  <2>2. P(k) /\ k.runs = r.runs
    BY <1>1, <1>3, <1>4, <2>1 DEF Swept
  <2>3. k.status \notin {"queued", "retry_wait"}
    BY <2>2 DEF Finished
  <2> QED BY <2>1, <2>2, <2>3
<1>11. ASSUME NEW h \in Hosts, Enters(m, h) PROVE FALSE
  BY <1>1, <1>11 DEF Enters, Finished
<1> QED BY <1>5, <1>6, <1>7, <1>8, <1>9, <1>10, <1>11 DEF Move

(* Tokens are given out once.                                              *)
LEMMA KeepsOps ==
  ASSUME IInv, OpsMove, \A m \in Msgs : Move(m)
  PROVE  OpsOK'
<1>1. ASSUME NEW p \in ops' PROVE p.token <= inbox'[p.msg].fence
  <2>1. p.msg \in Msgs /\ p.token \in Nat
    BY DEF OpsMove, Op
  <2>2. /\ inbox'[p.msg].fence \in Nat /\ inbox[p.msg].fence \in Nat
        /\ inbox'[p.msg].fence >= inbox[p.msg].fence
    BY <2>1, MoveShape DEF RowOK, Row, IInv, Shape
  <2>3. CASE Starts(p)
    BY <2>1, <2>2, <2>3 DEF Starts
  <2>4. ASSUME NEW o \in ops, Follows(o, p) PROVE p.token <= inbox'[p.msg].fence
    <3>1. o.token <= inbox[o.msg].fence /\ o.msg = p.msg /\ o.token = p.token
      BY <2>4 DEF IInv, OpsOK, Follows, Same
    <3> QED BY <2>1, <2>2, <3>1
  <2> QED BY <2>3, <2>4 DEF OpsMove
<1>2. \A p, q \in ops' : Same(p, q) => p = q
  BY DEF OpsMove
<1>3. ASSUME NEW p \in ops' PROVE Unstopped(p)
  BY DEF OpsMove, Follows, IInv, OpsOK, Starts, Pre, Unstopped
<1> QED BY <1>1, <1>2, <1>3 DEF OpsOK, Same, Unstopped

(* An operation that has not dispatched holds an undispatched claim.       *)
LEMMA KeepsUnspent ==
  ASSUME IInv, OpsMove, \A m \in Msgs : Move(m), NEW p \in ops'
  PROVE  Unspent(p)'
<1> DEFINE m == p.msg
           r == inbox[m]
           n == inbox'[m]
           U(k) == /\ k.runs <= k.retries /\ k.code # "started"
                   /\ KindOf[m] \in {"turn", "stop", "new"} => k.code = "none"
<1>1. m \in Msgs /\ p.token \in Nat /\ Move(m)
  BY DEF OpsMove, Op
<1>2. /\ RowOK(r) /\ CodeOK(m, r) /\ BudgetOK(m, r) /\ r \in Row
      /\ r.retries \in Nat /\ r.runs \in Nat /\ r.fence \in Nat
      /\ RowOK(n) /\ n.fence \in Nat
  BY <1>1, MoveShape DEF IInv, Shape, RowOK, Row, Budgets
<1> SUFFICES ASSUME Pre(p), KindOf[m] # "permission", n.status = "claimed", n.token = p.token
             PROVE  U(n)
  BY DEF Unspent, Pre
<1>3. n.token = n.fence
  BY <1>2 DEF RowOK
<1>4. ASSUME NEW h \in Hosts, Ticks(m, h), n.fence # r.fence PROVE U(n)
  <2>1. PICK k \in Row :
          /\ Swept(m, k)
          /\ n = k \/ (k.status \in {"queued", "retry_wait"} /\ n = Claim(k, h))
    BY <1>4 DEF Ticks
  <2>2. k.fence = r.fence
    BY <2>1 DEF Swept, Ends, Waits, Released
  <2>3. k.status \in {"queued", "retry_wait"} /\ n = Claim(k, h)
    BY <1>4, <2>1, <2>2
  <2>4. Claimed(k, h, n) /\ IF k.code = "recovery" THEN n.code = "recovery" ELSE n.code = "none"
    BY <2>3, ClaimFields, ClaimCode
  <2>5. k = r \/ Waits(m, k)
    BY <2>1, <2>3 DEF Swept, Ends, Finished
  <2>6. k.code # "recovery"
    BY <1>2, <2>5 DEF CodeOK, Waits
  <2>7. k.runs <= k.retries
    <3>1. CASE k = r
      BY <1>2, <2>3, <3>1 DEF BudgetOK, Finished
    <3>2. CASE Waits(m, k)
      <4>1. k.runs = r.runs /\ k.retries = r.retries /\ r.status = "claimed" /\ Undecided(m)
        BY <3>2 DEF Waits, Released
      <4>2. CASE r.code \notin {"native", "started"}
        BY <1>2, <4>1, <4>2 DEF BudgetOK, Finished
      <4>3. CASE \E o \in ops : o.msg = m /\ o.token = r.token /\ Pre(o)
        BY <4>1, <4>3 DEF IInv, Budgets, Unspent
      <4> QED BY <4>1, <4>2, <4>3 DEF Undecided
    <3> QED BY <2>5, <3>1, <3>2
  <2> HIDE DEF n
  <2>8. n.runs = k.runs /\ n.retries = k.retries
    BY <2>4 DEF Claimed
  <2> QED BY <2>4, <2>6, <2>7, <2>8
<1>5. ASSUME NEW h \in Hosts, Enters(m, h) PROVE U(n)
  <2>1. PICK g \in Nat \ {0} : n = NativeClaim(g, h)
    BY <1>5 DEF Enters
  <2>2. NativeClaimed(g, h, n) /\ KindOf[m] = "native"
    BY <1>5, <2>1, NativeFields DEF Enters
  <2> HIDE DEF n
  <2>3. n.runs = 0 /\ n.retries = 0 /\ n.code = "native"
    BY <2>2 DEF NativeClaimed
  <2> QED BY <2>2, <2>3
<1>6. CASE n.fence # r.fence
  BY <1>1, <1>4, <1>5, <1>6, MoveFence
<1>7. CASE n.fence = r.fence
  <2>1. PICK o \in ops : Follows(o, p)
    BY <1>2, <1>7 DEF OpsMove, Starts
  <2>2. o.msg = m /\ o.token = p.token /\ Pre(o)
    BY <2>1 DEF Follows, Same
  <2>3. r.status = "claimed" /\ r.token = o.token => U(r)
    BY <2>2 DEF IInv, Budgets, Unspent
  <2>4. CASE Stays(m)
    BY <2>2, <2>3, <2>4 DEF Stays, Alike
  <2>5. CASE Concludes(m)
    BY <2>5 DEF Concludes, Ends, Waits, Finished
  <2>6. CASE Arrives(m) \/ Queues(m) \/ Revives(m)
    <3>1. Arrives(m) => n.status = "received"
      BY DEF Arrives, Absent
    <3>2. Queues(m) \/ Revives(m) => n.status = "queued"
      BY <1>2 DEF Queues, Revives, Row
    <3> QED BY <2>6, <3>1, <3>2
  <2>7. ASSUME NEW q \in ops, Marks(m, q) PROVE FALSE
    <3>1. q.msg = m /\ r.token = q.token /\ \A s \in ops' : Same(q, s) => ~Pre(s)
      BY <2>7 DEF Marks, Current
    <3>2. n.token = r.token
      BY <1>2, <2>7 DEF Marks, Row
    <3> QED BY <3>1, <3>2 DEF Same
  <2>8. ASSUME NEW h \in Hosts, Ticks(m, h) PROVE U(n)
    <3>2. PICK k \in Row :
            /\ Swept(m, k)
            /\ n = k \/ n = Claim(k, h)
      BY <2>8 DEF Ticks
    <3>3. k.fence = r.fence
      BY <3>2 DEF Swept, Ends, Waits, Released
    <3>4. n # Claim(k, h)
      <4> SUFFICES ASSUME n = Claim(k, h) PROVE FALSE
        OBVIOUS
      <4>1. Claimed(k, h, n)
        BY ClaimFields
      <4>2. n.fence = k.fence + 1
        BY <4>1 DEF Claimed
      <4> QED BY <1>2, <1>7, <3>3, <4>2
    <3>5. n = r
      BY <3>2, <3>4 DEF Swept, Ends, Waits, Finished
    <3> QED BY <2>2, <2>3, <3>5
  <2>9. ASSUME NEW h \in Hosts, Enters(m, h) PROVE U(n)
    BY <1>5, <2>9
  <2> QED BY <1>1, <2>4, <2>5, <2>6, <2>7, <2>8, <2>9 DEF Move
<1> QED BY <1>6, <1>7

(* The marker of an operation gives its message as dispatched.             *)
LEMMA MarksDispatches ==
  ASSUME IInv, NEW m \in Msgs, NEW o \in ops, Marks(m, o), KindOf[m] # "permission"
  PROVE  /\ inbox'[m].status = "claimed" /\ inbox'[m].attempts = inbox[m].attempts
         /\ inbox'[m].runs = inbox[m].runs + 1 /\ inbox'[m].retries = inbox[m].retries
         /\ inbox[m].status = "claimed" /\ inbox[m].runs <= inbox[m].retries
         /\ Dispatched(inbox'[m]) /\ ~Dispatched(inbox[m])
<1> DEFINE r == inbox[m]
           n == inbox'[m]
           c == IF r.code \in {"native", "recovery"} THEN r.code ELSE "started"
           i == IF r.code = "recovery" THEN 0 ELSE 1
<1>1. /\ CodeOK(m, r) /\ r \in Row /\ r.retries \in Nat /\ r.runs \in Nat
      /\ KindOf[m] \in Kinds
  BY InboxAssumption DEF IInv, Shape, RowOK, Row
<1>2. /\ n = [r EXCEPT !.code = c, !.runs = @ + i] /\ r.status = "claimed"
      /\ r.token = o.token /\ o.msg = m /\ Pre(o)
  BY DEF Marks, Current
<1>3. /\ r.runs <= r.retries /\ r.code # "started"
      /\ KindOf[m] \in {"turn", "stop", "new"} => r.code = "none"
  BY <1>2 DEF IInv, Budgets, Unspent
<1>4. c \in {"native", "started"} /\ i = 1 /\ (c = "native" => r.code = "native")
  BY <1>1 DEF CodeOK
<1> HIDE DEF c, i
<1>5. /\ n.status = "claimed" /\ n.runs = r.runs + 1 /\ n.retries = r.retries
      /\ n.code = c /\ n.attempts = r.attempts
  BY <1>1, <1>2, <1>4 DEF Row
<1> HIDE DEF n
<1>6. Dispatched(n)
  BY <1>1, <1>3, <1>4, <1>5 DEF Dispatched, CodeOK
<1>7. ~Dispatched(r)
  BY <1>1, <1>3 DEF Dispatched
<1> QED BY <1>2, <1>3, <1>5, <1>6, <1>7 DEF n

(* A claim that stands after a step is a new one, or the old one, to which *)
(* nothing happened but perhaps its marker.                                *)
LEMMA ClaimStands ==
  ASSUME IInv, NEW m \in Msgs, Move(m), inbox'[m].status = "claimed",
         inbox'[m].fence = inbox[m].fence, KindOf[m] # "permission"
  PROVE  /\ inbox[m].status = "claimed" /\ inbox'[m].token = inbox[m].token
         /\ \/ \E o \in ops : Marks(m, o)
            \/ /\ inbox'[m].code = inbox[m].code /\ inbox'[m].runs = inbox[m].runs
               /\ inbox'[m].retries = inbox[m].retries
<1> DEFINE r == inbox[m]
           n == inbox'[m]
<1>1. r \in Row /\ r.fence \in Nat /\ (r.status = "absent" => r.fence = 0)
  BY DEF IInv, Shape, RowOK, Row
<1>2. CASE Stays(m)
  BY <1>2 DEF Stays, Alike
<1>3. CASE Concludes(m)
  BY <1>3 DEF Concludes, Ends, Waits, Finished
<1>4. CASE Arrives(m) \/ Queues(m) \/ Revives(m)
  <2>1. Arrives(m) => n.status = "received"
    BY DEF Arrives, Absent
  <2>2. Queues(m) \/ Revives(m) => n.status = "queued"
    BY <1>1 DEF Queues, Revives, Row
  <2> QED BY <1>4, <2>1, <2>2
<1>5. ASSUME NEW o \in ops, Marks(m, o) PROVE r.status = "claimed" /\ n.token = r.token
  BY <1>1, <1>5 DEF Marks, Current, Row
<1>6. ASSUME NEW h \in Hosts, Ticks(m, h) PROVE n = r
  <2>1. PICK k \in Row : Swept(m, k) /\ (n = k \/ n = Claim(k, h))
    BY <1>6 DEF Ticks
  <2>2. k.fence = r.fence
    BY <2>1 DEF Swept, Ends, Waits, Released
  <2>3. n # Claim(k, h)
    <3> SUFFICES ASSUME n = Claim(k, h) PROVE FALSE
      OBVIOUS
    <3>1. Claimed(k, h, n)
      BY ClaimFields
    <3>2. n.fence = k.fence + 1
      BY <3>1 DEF Claimed
    <3> QED BY <1>1, <2>2, <3>2
  <2> QED BY <2>1, <2>3 DEF Swept, Ends, Waits, Finished
<1>7. ASSUME NEW h \in Hosts, Enters(m, h) PROVE FALSE
  <2>1. PICK g \in Nat \ {0} : n = NativeClaim(g, h)
    BY <1>7 DEF Enters
  <2>2. NativeClaimed(g, h, n)
    BY <2>1, NativeFields
  <2> HIDE DEF n
  <2>3. n.fence = 1
    BY <2>2 DEF NativeClaimed
  <2> QED BY <1>1, <1>7, <2>3 DEF Enters, n
<1> QED BY <1>2, <1>3, <1>4, <1>5, <1>6, <1>7 DEF Move

(* An operation that has dispatched leaves the marker on its claim.        *)
LEMMA KeepsSpent ==
  ASSUME IInv, OpsMove, \A m \in Msgs : Move(m), NEW p \in ops'
  PROVE  Spent(p)'
<1> DEFINE m == p.msg
           r == inbox[m]
           n == inbox'[m]
<1>1. m \in Msgs /\ p.token \in Nat /\ Move(m)
  BY DEF OpsMove, Op
<1>2. /\ RowOK(n) /\ n.fence \in Nat /\ r.fence \in Nat /\ n.fence >= r.fence
  BY <1>1, MoveShape DEF IInv, Shape, RowOK, Row
<1> SUFFICES ASSUME p.phase = "run", KindOf[m] # "permission",
                    n.status = "claimed", n.token = p.token
             PROVE  Dispatched(n)
  BY DEF Spent, Dispatched
<1>3. PICK o \in ops : Follows(o, p)
  BY DEF OpsMove, Starts, Pre
<1>4. o.msg = m /\ o.token = p.token /\ o.token <= r.fence
  BY <1>3 DEF Follows, Same, IInv, OpsOK
<1>5. n.fence = r.fence
  BY <1>1, <1>2, <1>4 DEF RowOK
<1>6. CASE \E q \in ops : Marks(m, q)
  BY <1>1, <1>6, MarksDispatches
<1>7. CASE ~\E q \in ops : Marks(m, q)
  <2>1. /\ r.status = "claimed" /\ n.token = r.token /\ n.code = r.code
        /\ n.runs = r.runs /\ n.retries = r.retries
    BY <1>1, <1>5, <1>7, ClaimStands
  <2>2. o.phase = "run"
    BY <1>3, <1>4, <1>7 DEF Follows
  <2>3. Dispatched(r)
    BY <1>4, <2>1, <2>2 DEF IInv, Budgets, Spent
  <2> QED BY <2>1, <2>3 DEF Dispatched
<1> QED BY <1>6, <1>7

(* What a step does to a live claim.                                       *)
LEMMA ClaimedMoves ==
  ASSUME IInv, NEW m \in Msgs, Move(m), inbox[m].status = "claimed", inbox[m].live
  PROVE  Permitted(m) \/ inbox'[m].status = inbox[m].status
<1> DEFINE r == inbox[m]
           n == inbox'[m]
<1>1. r \in Row
  BY DEF IInv, Shape, RowOK
<1>2. CASE Stays(m)
  BY <1>2 DEF Stays, Alike
<1>3. CASE Concludes(m)
  BY <1>3 DEF Concludes
<1>4. CASE Arrives(m) \/ Queues(m) \/ Revives(m)
  BY <1>4 DEF Arrives, Queues, Revives
<1>5. ASSUME NEW o \in ops, Marks(m, o) PROVE n.status = r.status
  BY <1>1, <1>5 DEF Marks, Row
<1>6. ASSUME NEW h \in Hosts, Ticks(m, h) PROVE n.status = r.status
  BY <1>6 DEF Ticks, Swept
<1>7. ASSUME NEW h \in Hosts, Enters(m, h) PROVE FALSE
  BY <1>7 DEF Enters
<1> QED BY <1>2, <1>3, <1>4, <1>5, <1>6, <1>7 DEF Move

(* A step that counts a retry dispatches nothing.                          *)
LEMMA MoveRuns ==
  ASSUME IInv, NEW m \in Msgs, Move(m), inbox[m].retries = 0, inbox'[m].retries # 0
  PROVE  inbox'[m].runs = inbox[m].runs
<1> DEFINE r == inbox[m]
           n == inbox'[m]
<1>1. r \in Row
  BY DEF IInv, Shape, RowOK
<1>2. CASE Revives(m)
  BY <1>1, <1>2 DEF Revives, Row
<1>3. CASE Stays(m) \/ Concludes(m)
  BY <1>3 DEF Stays, Alike, Concludes, Ends, Waits, Released
<1>4. CASE Arrives(m)
  BY <1>4 DEF Arrives, Absent
<1>5. CASE Queues(m)
  BY <1>1, <1>5 DEF Queues, Row
<1>6. ASSUME NEW o \in ops, Marks(m, o) PROVE n.retries = r.retries
  BY <1>1, <1>6 DEF Marks, Row
<1>7. ASSUME NEW h \in Hosts, Ticks(m, h) PROVE n.retries = r.retries
  <2>1. PICK k \in Row : Swept(m, k) /\ (n = k \/ n = Claim(k, h))
    BY <1>7 DEF Ticks
  <2>2. k.retries = r.retries
    BY <2>1 DEF Swept, Ends, Waits, Released
  <2>3. CASE n = Claim(k, h)
    <3>1. Claimed(k, h, n)
      BY <2>3, ClaimFields
    <3> QED BY <2>2, <3>1 DEF Claimed
  <2> QED BY <2>1, <2>2, <2>3
<1>8. ASSUME NEW h \in Hosts, Enters(m, h) PROVE FALSE
  <2>1. PICK g \in Nat \ {0} : n = NativeClaim(g, h)
    BY <1>8 DEF Enters
  <2>2. NativeClaimed(g, h, n)
    BY <2>1, NativeFields
  <2> QED BY <2>2 DEF NativeClaimed
<1> QED BY <1>2, <1>3, <1>4, <1>5, <1>6, <1>7, <1>8 DEF Move


(* The order of admission.                                                 *)
LEMMA KeepsOrder ==
  ASSUME IInv, TransMove, \A m \in Msgs : Move(m)
  PROVE  NoGaps' /\ Seals'
<1>1. \A m \in Msgs : \A e \in 1..(m - 1) : e \in Msgs
  BY InboxAssumption DEF Msgs
<1>2. NoGaps'
  <2> SUFFICES ASSUME NEW m \in Msgs, NEW e \in 1..(m - 1), inbox'[m].status # "absent"
               PROVE  inbox'[e].status # "absent"
    BY DEF NoGaps
  <2>1. inbox[e].status # "absent"
    BY MoveBind DEF IInv, NoGaps
  <2> QED BY <1>1, <2>1, MoveStatus
<1>3. ASSUME NEW m \in Msgs, Sealed(m) PROVE Sealed(m)'
  BY <1>1, <1>3, MoveStatus DEF Sealed
<1>4. ASSUME NEW m \in Msgs, inbox'[m].gen # 0 PROVE Sealed(m)'
  <2>1. CASE inbox[m].gen # 0 \/ Queues(m)
    BY <1>3, <2>1 DEF IInv, Seals, Queues
  <2>2. ASSUME NEW h \in Hosts, Enters(m, h) PROVE Sealed(m)'
    <3> SUFFICES ASSUME NEW e \in 1..(m - 1), ConvOf[e] = ConvOf[m]
                 PROVE  inbox'[e].status \notin {"absent", "received"}
      BY DEF Sealed
    <3>1. e \in Msgs /\ e # m /\ inbox[e].status # "absent"
      BY <1>1, <2>2, InboxAssumption DEF Enters, Msgs
    <3>2. ~Unfinished(e) /\ inbox'[e] = inbox[e]
      BY <2>2, <3>1 DEF Enters
    <3> QED BY <3>1, <3>2 DEF Unfinished, Finished
  <2> QED BY <1>4, <2>1, <2>2, MoveBind
<1>5. ASSUME NEW h \in Hosts, NEW c \in Convs, NEW m, m = trans'[h][c].msg, m # 0
      PROVE  m \in Msgs /\ Command(m) /\ ConvOf[m] = c /\ Sealed(m)'
  <2>1. CASE m = trans[h][c].msg
    BY <1>3, <1>5, <2>1 DEF IInv, Seals
  <2>2. CASE \E n \in Msgs : ConvOf[n] = c /\ Fences(h, n)
    BY <1>3, <1>5, <2>2 DEF Fences
  <2> QED BY <1>5, <2>1, <2>2 DEF TransMove
<1>6. Seals'
  BY <1>4, <1>5 DEF Seals, Command
<1> QED BY <1>2, <1>6

(* The boundary of a /stop or /new.                                        *)
LEMMA KeepsBoundaries ==
  ASSUME IInv, TransMove, \A m \in Msgs : Move(m)
  PROVE  Boundaries'
<1> SUFFICES ASSUME NEW m \in Msgs, NEW e \in 1..(m - 1), Command(m), Raised(m)',
                    ConvOf[e] = ConvOf[m], KindOf[e] = "turn", inbox'[e].retries = 0
             PROVE  Past(e)'
  BY DEF Boundaries, Command
<1>1. e \in Msgs /\ m \in Nat \ {0} /\ ConvOf[m] \in Convs
  BY InboxAssumption DEF Msgs
<1>2. inbox[e].retries = 0
  BY <1>1, MoveShape DEF IInv, Shape, RowOK, Row
<1>3. CASE Raised(m)
  BY <1>1, <1>2, <1>3, MovePast DEF IInv, Boundaries
<1>4. CASE \E h \in Hosts : Fences(h, m)
  <2>1. \/ inbox'[e].status \in Finished
        \/ inbox'[e].status = "claimed" /\ inbox'[e].code # "none"
    BY <1>4 DEF Fences
  <2>2. CodeOK(e, inbox'[e])
    BY <1>1, MoveShape
  <2> QED BY <2>1, <2>2 DEF Past, CodeOK
<1>5. CASE inbox'[m].gen # 0 /\ ~Raised(m)
  <2>1. Queues(m) \/ \E h \in Hosts : Enters(m, h)
    BY <1>5, MoveBind DEF Raised
  <2>2. ~(\E h \in Hosts : Enters(m, h))
    BY DEF Enters, Command
  <2> QED BY <1>5, <2>1, <2>2 DEF Queues, Raised
<1>6. CASE ~(\E h \in Hosts : Fences(h, m)) /\ ~Raised(m)
           /\ \E h \in Hosts : trans'[h][ConvOf[m]].msg = m
  <2>1. PICK h \in Hosts : trans'[h][ConvOf[m]].msg = m
    BY <1>6
  <2>2. PICK n \in Msgs : ConvOf[n] = ConvOf[m] /\ Fences(h, n)
    BY <1>1, <1>6, <2>1 DEF TransMove, Raised
  <2>3. n = m
    BY <2>1, <2>2 DEF Fences
  <2> QED BY <1>6, <2>2, <2>3
<1> QED BY <1>3, <1>4, <1>5, <1>6 DEF Raised

(* The lane and its order.                                                 *)
LEMMA KeepsLane ==
  ASSUME IInv, NoGaps', Seals', \A m \in Msgs : Move(m)
  PROVE  LaneExclusive' /\ InOrder'
<1>1. ASSUME NEW m \in Msgs PROVE RowOK(inbox[m]) /\ RowOK(inbox'[m])
  BY MoveShape DEF IInv, Shape
<1>2. ASSUME NEW m \in Msgs, NEW n \in Msgs, Alone(m) \/ \E h \in Hosts : Enters(m, h),
             inbox'[n].status = "claimed"
      PROVE  n = m
  <2>1. CASE Alone(m)
    BY <1>2, <2>1 DEF Alone
  <2>2. ASSUME NEW h \in Hosts, Enters(m, h), n # m PROVE FALSE
    <3>1. inbox[n].status = "claimed" /\ inbox[n].gen = 0
      BY <1>2, <2>2 DEF Enters, Unfinished, Finished
    <3> QED BY <1>1, <3>1 DEF RowOK
  <2> QED BY <1>2, <2>1, <2>2
<1>3. LaneExclusive'
  <2> SUFFICES ASSUME NEW m \in Msgs, NEW n \in Msgs,
                      inbox'[m].status = "claimed", inbox'[n].status = "claimed"
               PROVE  m = n
    BY DEF LaneExclusive
  <2>1. CASE inbox[m].status = "claimed" /\ inbox[n].status = "claimed"
    BY <2>1 DEF IInv, LaneExclusive
  <2>2. CASE inbox[m].status # "claimed"
    BY <1>2, <2>2, MoveBind
  <2>3. CASE inbox[n].status # "claimed"
    BY <1>2, <2>3, MoveBind
  <2> QED BY <2>1, <2>2, <2>3
<1>4. InOrder'
  <2> SUFFICES ASSUME NEW e \in Msgs, NEW m \in Msgs, e < m, ConvOf[e] = ConvOf[m],
                      inbox'[m].fence > 0, inbox'[e].retries = 0
               PROVE  inbox'[e].status \in Finished
    BY DEF InOrder
  <2>1. e \in 1..(m - 1) /\ e # m
    BY InboxAssumption DEF Msgs
  <2>2. inbox[e].retries = 0 /\ inbox[m].fence \in Nat /\ inbox'[m].fence \in Nat
    BY <1>1, MoveShape DEF RowOK, Row
  <2>3. CASE inbox[m].fence > 0
    <3>1. inbox[e].status \in Finished
      BY <2>2, <2>3 DEF IInv, InOrder
    <3> QED BY <3>1, MoveStatus
  <2>4. ASSUME NEW h \in Hosts, Ticks(m, h), inbox'[m].fence # inbox[m].fence
        PROVE  inbox'[e].status \in Finished
    <3>1. Alone(m) /\ inbox'[m].gen # 0
      BY <2>4, MoveClaim
    <3>2. inbox'[e].status \notin {"absent", "received"}
      BY <2>1, <3>1 DEF Seals, Sealed
    <3>3. CASE inbox'[e].gen # 0
      BY <2>1, <3>1, <3>3 DEF Alone
    <3>4. CASE inbox'[e].gen = 0
      <4>1. inbox'[e].status \in Statuses
        BY <1>1 DEF RowOK, Row
      <4> QED BY <1>1, <3>2, <3>4, <4>1 DEF RowOK, Statuses, Finished
    <3> QED BY <3>3, <3>4
  <2>5. ASSUME NEW h \in Hosts, Enters(m, h) PROVE inbox'[e].status \in Finished
    <3>1. inbox'[e] = inbox[e] /\ ~Unfinished(e) /\ inbox[e].status # "absent"
      BY <2>1, <2>5 DEF Enters
    <3> QED BY <3>1 DEF Unfinished
  <2>6. CASE ~(inbox[m].fence > 0)
    <3>1. inbox'[m].fence # inbox[m].fence
      BY <2>2, <2>6
    <3> QED BY <2>4, <2>5, <3>1, MoveFence
  <2> QED BY <2>3, <2>6
<1> QED BY <1>3, <1>4

(* The types of what no move describes.                                    *)
LEMMA KeepsTypes ==
  ASSUME IInv, [Next]_vars
  PROVE  /\ gen' \in [Convs -> Nat \ {0}] /\ authorized' \in BOOLEAN /\ draining' \in BOOLEAN
         /\ DOMAIN inbox' = Msgs /\ inbox' = [m \in Msgs |-> inbox'[m]]
<1>1. /\ gen \in [Convs -> Nat \ {0}] /\ authorized \in BOOLEAN /\ draining \in BOOLEAN
      /\ inbox \in [Msgs -> Row]
  BY DEF IInv, Shape, TypeOK
<1>2. inbox' = [m \in Msgs |-> inbox'[m]]
  <2>1. ASSUME NEW o \in ops, Progress(o) \/ Reply(o) \/ ReplySafe(o) \/ Abort(o)
        PROVE  inbox' = [m \in Msgs |-> inbox'[m]]
    BY <1>1, <2>1 DEF Progress, Open, SessionBusy, Refuse, Begin, Mark, Return, AbortedReturns,
         Reply, ReplySafe, Abort, finishInbox, deferInboxForSessionLease
  <2>2. ASSUME NEW h \in Hosts,
               \/ Tick(h) \/ Crash(h)
               \/ \E n \in Msgs : Drive(h, n) \/ claimNativeInbox(h, n)
               \/ \E c \in Convs : commit(h, c) \/ transitionFails(h, c)
        PROVE  inbox' = [m \in Msgs |-> inbox'[m]]
    <3>1. CASE Tick(h)
      BY <3>1 DEF Tick
    <3>2. CASE \E n \in Msgs : Drive(h, n) \/ claimNativeInbox(h, n)
      BY <1>1, <3>2 DEF Drive, reject, queueInbox, fence, claimNativeInbox
    <3>3. CASE Crash(h) \/ \E c \in Convs : commit(h, c) \/ transitionFails(h, c)
      BY <1>1, <3>3 DEF Crash, commit, transitionFails
    <3> QED BY <2>2, <3>1, <3>2, <3>3
  <2>3. ASSUME NEW n \in Msgs,
               \/ acceptInbound(n) \/ LapseUnattended(n) \/ LapseStalled(n)
               \/ BackoffElapses(n) \/ OperatorCancel(n) \/ OperatorRetry(n)
        PROVE  inbox' = [m \in Msgs |-> inbox'[m]]
    BY <1>1, <2>3 DEF acceptInbound, LapseUnattended, LapseStalled, Lapse, BackoffElapses,
         OperatorCancel, OperatorRetry
  <2>4. CASE revokePrincipal \/ setRestartFence \/ clearRestartFence \/ UNCHANGED vars
    BY <1>1, <2>4 DEF revokePrincipal, setRestartFence, clearRestartFence, vars
  <2> QED BY <2>1, <2>2, <2>3, <2>4 DEF Next
<1>3. CASE UNCHANGED gen /\ UNCHANGED <<authorized, draining>>
  BY <1>1, <1>2, <1>3
<1>4. ASSUME NEW h \in Hosts, NEW c \in Convs, commit(h, c)
      PROVE  gen' \in [Convs -> Nat \ {0}] /\ UNCHANGED <<authorized, draining>>
  BY <1>1, <1>4 DEF commit
<1>5. CASE revokePrincipal \/ setRestartFence \/ clearRestartFence
  BY <1>1, <1>2, <1>5 DEF revokePrincipal, setRestartFence, clearRestartFence
<1>6. ASSUME NEW o \in ops, Progress(o) \/ Reply(o) \/ ReplySafe(o) \/ Abort(o)
      PROVE  UNCHANGED gen /\ UNCHANGED <<authorized, draining>>
  BY <1>6 DEF Progress, Open, SessionBusy, Refuse, Begin, Mark, Return, AbortedReturns,
       Reply, ReplySafe, Abort
<1>7. ASSUME NEW h \in Hosts,
             \/ Tick(h) \/ Crash(h)
             \/ \E n \in Msgs : Drive(h, n) \/ claimNativeInbox(h, n)
             \/ \E c \in Convs : transitionFails(h, c)
      PROVE  UNCHANGED gen /\ UNCHANGED <<authorized, draining>>
  BY <1>7 DEF Tick, Crash, Drive, reject, queueInbox, fence, claimNativeInbox, transitionFails
<1>8. ASSUME NEW n \in Msgs,
             \/ acceptInbound(n) \/ LapseUnattended(n) \/ LapseStalled(n)
             \/ BackoffElapses(n) \/ OperatorCancel(n) \/ OperatorRetry(n)
      PROVE  UNCHANGED gen /\ UNCHANGED <<authorized, draining>>
  BY <1>8 DEF acceptInbound, LapseUnattended, LapseStalled, Lapse, BackoffElapses,
       OperatorCancel, OperatorRetry
<1>9. CASE UNCHANGED vars
  BY <1>3, <1>9 DEF vars
<1> QED BY <1>1, <1>2, <1>3, <1>4, <1>5, <1>6, <1>7, <1>8, <1>9 DEF Next

(* Every step preserves the invariant.                                     *)
LEMMA NextIInv ==
  ASSUME IInv, [Next]_vars
  PROVE  IInv'
<1>1. (\A m \in Msgs : Move(m)) /\ OpsMove /\ TransMove
  BY EveryMove, EveryOps, EveryTrans
<1>2. \A m \in Msgs : RowOK(inbox'[m]) /\ CodeOK(m, inbox'[m]) /\ BudgetOK(m, inbox'[m])
  BY <1>1, MoveShape, MoveBudget
<1>3. inbox' \in [Msgs -> Row]
  <2>1. \A m \in Msgs : inbox'[m] \in Row
    BY <1>2 DEF RowOK
  <2> QED BY <2>1, KeepsTypes
<1>4. TypeOK'
  BY <1>1, <1>3, KeepsTypes DEF TypeOK, OpsMove, TransMove
<1>5. Shape'
  BY <1>2, <1>4 DEF Shape, CodeOK
<1>6. Budgets'
  <2>1. \A m \in Msgs : BudgetOK(m, inbox[m])' /\ TriesOK(m, inbox[m])'
    BY <1>1, <1>2, MoveTries DEF BudgetOK, TriesOK
  <2> QED BY <1>1, <2>1, KeepsUnspent, KeepsSpent DEF Budgets
<1>7. OpsOK'
  BY <1>1, KeepsOps
<1>8. NoGaps' /\ Seals'
  BY <1>1, KeepsOrder
<1>9. Boundaries' /\ LaneExclusive' /\ InOrder'
  BY <1>1, <1>8, KeepsBoundaries, KeepsLane
<1> QED BY <1>5, <1>6, <1>7, <1>8, <1>9 DEF IInv

-----------------------------------------------------------------------------
(* The theorems.                                                           *)

(* The inductive invariant.                                                *)
THEOREM Invariance == Spec => []IInv
<1>1. IInv /\ [Next]_vars => IInv'
  BY NextIInv
<1> QED BY InitIInv, <1>1, PTL DEF Spec

(* Every row, operation and transition stays well formed: a deferred claim *)
(* never takes the count of attempts below zero.                           *)
THEOREM TypeCorrect == Spec => []TypeOK
<1>1. IInv => TypeOK
  BY DEF IInv, Shape
<1> QED BY <1>1, Invariance, PTL

(* The claim columns and the attempts ledger of inbox_messages agree,      *)
(* whatever finishInbox, recoverInbox and the commands do to a row.        *)
THEOREM LedgerAgrees == Spec => []ClaimMatchesLedger
<1>1. IInv => ClaimMatchesLedger
  BY DEF IInv, Shape, RowOK, ClaimMatchesLedger
<1> QED BY <1>1, Invariance, PTL

(* claimInbox and claimNativeInbox serialise the scope: no two rows are    *)
(* ever claimed together.                                                  *)
THEOREM OneClaim == Spec => []LaneExclusive
<1>1. IInv => LaneExclusive
  BY DEF IInv
<1> QED BY <1>1, Invariance, PTL

(* No message of a conversation is claimed over an unfinished earlier one  *)
(* that no operator revived.                                               *)
THEOREM ClaimedInOrder == Spec => []InOrder
<1>1. IInv => InOrder
  BY DEF IInv
<1> QED BY <1>1, Invariance, PTL

(* After a /stop or /new is queued no earlier turn of its conversation is  *)
(* dispatched, unless an operator revived it.                              *)
THEOREM BoundaryHolds == Spec => FenceHolds
<1> DEFINE A == \A e, m \in Msgs :
                  /\ e < m /\ ConvOf[e] = ConvOf[m] /\ Command(m) /\ inbox[m].gen # 0
                  /\ KindOf[e] = "turn" /\ inbox[e].retries = 0
                  => inbox'[e].runs = inbox[e].runs
<1>1. IInv /\ [Next]_vars => A
  <2> SUFFICES ASSUME IInv, [Next]_vars, NEW e \in Msgs, NEW m \in Msgs,
                      e < m, ConvOf[e] = ConvOf[m], Command(m), inbox[m].gen # 0,
                      KindOf[e] = "turn", inbox[e].retries = 0
               PROVE  inbox'[e].runs = inbox[e].runs
    OBVIOUS
  <2>1. e \in 1..(m - 1)
    BY InboxAssumption DEF Msgs
  <2>2. Past(e) /\ Move(e)
    BY <2>1, EveryMove DEF IInv, Boundaries, Raised
  <2>3. CASE inbox'[e].retries = 0
    BY <2>2, <2>3, MovePast
  <2>4. CASE inbox'[e].retries # 0
    BY <2>2, <2>4, MoveRuns
  <2> QED BY <2>3, <2>4
<1>2. IInv /\ [Next]_vars => [A]_vars
  BY <1>1
<1> QED BY <1>2, Invariance, PTL DEF Spec, FenceHolds

(* A live claim is settled by its holder alone, or by the cancellation of  *)
(* a /stop or /new before its dispatch (finishInbox, recoverInbox,         *)
(* cancelUndispatchedInboxBefore).                                         *)
THEOREM HolderSettles == Spec => OnlyHolderSettles
<1> DEFINE B(m) == \/ \E o \in ops \ ops' : /\ o.msg = m /\ o.host = inbox[m].claimedBy
                                            /\ o.token = inbox[m].token
                   \/ inbox[m].code = "none" /\ inbox'[m].status = "dead_letter"
                      /\ \E h \in Hosts : trans'[h][ConvOf[m]].msg > m
           A == \A m \in Msgs :
                  /\ inbox[m].status = "claimed" /\ inbox[m].live
                  /\ inbox'[m].status # "claimed"
                  => B(m)
<1>1. IInv /\ [Next]_vars => A
  <2> SUFFICES ASSUME IInv, [Next]_vars, NEW m \in Msgs,
                      inbox[m].status = "claimed", inbox[m].live,
                      inbox'[m].status # "claimed"
               PROVE  B(m)
    OBVIOUS
  <2>1. Move(m)
    BY EveryMove
  <2>2. Permitted(m) \/ inbox'[m].status = inbox[m].status
    BY <2>1, ClaimedMoves
  <2> QED BY <2>2 DEF Permitted
<1>2. IInv /\ [Next]_vars => [A]_vars
  BY <1>1
<1> QED BY <1>2, Invariance, PTL DEF Spec, OnlyHolderSettles

-----------------------------------------------------------------------------
(* The Inbox implements DispatchPromise.                                   *)

(* How a row is read.                                                      *)
LEMMA OutcomeIs ==
  ASSUME NEW r
  PROVE  /\ r.status \in Finished => Outcome(r) = r.status
         /\ Dispatched(r) => Outcome(r) = "started"
         /\ r.status \notin Finished /\ ~Dispatched(r) => Outcome(r) = "waiting"
BY DEF Outcome, Dispatched, Finished

\* The counts of a row that DispatchPromise does not see change.
Kept(r, k) == k.attempts = r.attempts /\ k.runs = r.runs /\ k.retries = r.retries

(* What a message goes through as its row gives up a claim.                *)
LEMMA PromiseReleases ==
  ASSUME IInv, NEW m \in Promised, NEW k, Ends(m, k) \/ Waits(m, k)
  PROVE  LET r == inbox[m] IN
         /\ k.runs = r.runs /\ k.retries = r.retries
         /\ k.attempts \in {r.attempts, r.attempts - 1}
         /\ k.attempts # r.attempts => r.attempts > 0
         /\ \/ Outcome(r) = "waiting" /\ Outcome(k) = "waiting"
            \/ /\ k.attempts = r.attempts
               /\ \/ Outcome(r) \in {"waiting", "started"} /\ Outcome(k) = "dead_letter"
                  \/ Outcome(r) = "started" /\ Outcome(k) = "processed"
                  \/ /\ Outcome(r) = "waiting" /\ Outcome(k) = "processed"
                     /\ KindOf[m] = "turn"
<1> DEFINE r == inbox[m]
<1>1. /\ m \in Msgs /\ KindOf[m] # "permission" /\ RowOK(r) /\ CodeOK(m, r) /\ BudgetOK(m, r)
      /\ r.attempts \in Nat /\ r.runs \in Nat /\ r.retries \in Nat
  BY DEF Promised, IInv, Shape, RowOK, Row, Budgets
<1>2. /\ k.runs = r.runs /\ k.retries = r.retries
      /\ k.attempts \in {r.attempts, r.attempts - 1}
  BY DEF Ends, Waits, Released
<1>3. Outcome(r) \in {"waiting", "started"}
  BY OutcomeIs DEF Ends, Waits, Finished
<1>4. CASE Ends(m, k)
  <2>1. k.attempts = r.attempts /\ Outcome(k) = k.status /\ k.status \in Finished
    BY <1>4, OutcomeIs DEF Ends
  <2>2. CASE k.status = "processed" /\ KindOf[m] # "turn"
    <3>1. Dispatched(r)
      BY <1>1, <1>4, <2>2 DEF Ends, Earned, IInv, Budgets, Spent
    <3> QED BY <1>2, <2>1, <2>2, <3>1, OutcomeIs
  <2> QED BY <1>2, <1>3, <2>1, <2>2 DEF Finished
<1>5. CASE Waits(m, k)
  <2>1. k.status = "retry_wait" /\ r.status = "claimed" /\ r.attempts > 0
    BY <1>1, <1>5 DEF Waits, RowOK
  <2>2. Outcome(k) = "waiting"
    BY <2>1, OutcomeIs DEF Finished, Dispatched
  <2>3. ~Dispatched(r)
    <3>1. CASE r.code \notin {"native", "started"}
      BY <3>1 DEF Dispatched
    <3>2. CASE \E o \in ops : o.msg = m /\ o.token = r.token /\ Pre(o)
      <4>1. r.runs <= r.retries /\ r.code # "started"
        BY <1>1, <2>1, <3>2 DEF IInv, Budgets, Unspent
      <4> QED BY <1>1, <4>1 DEF Dispatched
    <3> QED BY <1>1, <1>5, <3>1, <3>2 DEF Waits, Undecided
  <2>4. Outcome(r) = "waiting"
    BY <2>1, <2>3, OutcomeIs DEF Finished
  <2> QED BY <1>2, <2>1, <2>2, <2>4
<1> QED BY <1>4, <1>5

(* What a message goes through is a step of DispatchPromise or a stutter.  *)
LEMMA PromiseStep ==
  ASSUME IInv, [Next]_vars, NEW m \in Promised
  PROVE  [Promise(m)!Next]_(Promise(m)!vars)
<1> DEFINE r == inbox[m]
           n == inbox'[m]
           Step == [Promise(m)!Next]_(Promise(m)!vars)
<1> SUFFICES Step
  OBVIOUS
<1>1. /\ m \in Msgs /\ KindOf[m] # "permission" /\ Move(m) /\ MaxAttempts \in Nat \ {0}
      /\ r \in Row /\ RowOK(r) /\ TriesOK(m, r) /\ BudgetOK(m, r) /\ CodeOK(m, r)
      /\ r.attempts \in Nat /\ r.runs \in Nat /\ r.retries \in Nat
      /\ TriesOK(m, n) /\ RowOK(n) /\ n.retries \in Nat
  <2>1. m \in Msgs
    BY DEF Promised
  <2>2. Move(m)
    BY <2>1, EveryMove
  <2> QED BY <2>1, <2>2, MoveTries, MoveShape, InboxAssumption
          DEF Promised, IInv, Shape, RowOK, Row, Budgets
<1>2. Outcome(r)' = Outcome(n)
  BY DEF Outcome, Dispatched
<1>3. ASSUME Kept(r, n), Outcome(n) = Outcome(r) PROVE Step
  BY <1>2, <1>3 DEF Kept, Promise!vars
<1>4. ASSUME NEW k, Ends(m, k) \/ Waits(m, k), n = k PROVE Step
  <2>1. /\ k.runs = r.runs /\ k.retries = r.retries
        /\ k.attempts \in {r.attempts, r.attempts - 1}
        /\ k.attempts # r.attempts => r.attempts > 0
        /\ \/ Outcome(r) = "waiting" /\ Outcome(k) = "waiting"
           \/ /\ k.attempts = r.attempts
              /\ \/ Outcome(r) \in {"waiting", "started"} /\ Outcome(k) = "dead_letter"
                 \/ Outcome(r) = "started" /\ Outcome(k) = "processed"
                 \/ /\ Outcome(r) = "waiting" /\ Outcome(k) = "processed"
                    /\ KindOf[m] = "turn"
    BY <1>4, PromiseReleases
  <2>2. CASE Outcome(r) = "waiting" /\ Outcome(k) = "waiting" /\ k.attempts = r.attempts
    BY <1>3, <1>4, <2>1, <2>2 DEF Kept
  <2>3. CASE Outcome(r) = "waiting" /\ Outcome(k) = "waiting" /\ k.attempts = r.attempts - 1
    <3>1. r.attempts > 0
      BY <1>1, <2>1, <2>3
    <3> QED BY <1>2, <1>4, <2>1, <2>3, <3>1 DEF Promise!Next, Promise!PutBack
  <2>4. CASE Outcome(r) \in {"waiting", "started"} /\ Outcome(k) = "dead_letter"
    BY <1>2, <1>4, <2>1, <2>4 DEF Promise!Next, Promise!GiveUp
  <2>5. CASE Outcome(k) = "processed"
    BY <1>2, <1>4, <2>1, <2>5 DEF Promise!Next, Promise!Process
  <2> QED BY <2>1, <2>2, <2>3, <2>4, <2>5
<1>5. CASE Stays(m)
  <2>1. Kept(r, n) /\ n.status = r.status /\ n.code = r.code
    BY <1>1, <1>5 DEF Stays, Alike, Kept
  <2>2. Outcome(n) = Outcome(r)
    BY <2>1 DEF Outcome, Dispatched, Kept
  <2> QED BY <1>3, <2>1, <2>2
<1>6. CASE Concludes(m)
  BY <1>4, <1>6 DEF Concludes
<1>7. CASE Arrives(m)
  <2>1. /\ n.status = "received" /\ n.attempts = 0 /\ n.runs = 0 /\ n.retries = 0
    BY <1>7 DEF Arrives, Absent
  <2>2. /\ r.status = "absent" /\ r.attempts = 0 /\ r.runs = 0 /\ r.retries = 0
    BY <1>1, <1>7 DEF Arrives, RowOK
  <2> HIDE DEF n, r, Step
  <2>3. Outcome(n) = "waiting" /\ Outcome(r) = "waiting"
    BY <2>1, <2>2, OutcomeIs DEF Finished, Dispatched
  <2> QED BY <1>3, <2>1, <2>2, <2>3 DEF Kept
<1>8. CASE Queues(m)
  <2>1. Kept(r, n) /\ n.status = "queued" /\ r.status = "received"
    BY <1>1, <1>8 DEF Queues, Row, Kept
  <2> HIDE DEF n, r, Step
  <2>2. Outcome(n) = "waiting" /\ Outcome(r) = "waiting"
    BY <2>1, OutcomeIs DEF Finished, Dispatched
  <2> QED BY <1>3, <2>1, <2>2
<1>9. CASE Revives(m)
  <2>1. /\ n.status = "queued" /\ r.status = "dead_letter" /\ n.retries = r.retries + 1
        /\ n.attempts = r.attempts /\ n.runs = r.runs
    BY <1>1, <1>9 DEF Revives, Row
  <2>2. Outcome(n) = "waiting" /\ Outcome(r) = "dead_letter"
    BY <2>1, OutcomeIs DEF Finished, Dispatched
  <2>3. 1 + n.retries = (1 + r.retries) + 1
    BY <1>1, <2>1
  <2> QED BY <1>2, <2>1, <2>2, <2>3 DEF Promise!Next, Promise!OperatorRetry
<1>10. ASSUME NEW o \in ops, Marks(m, o) PROVE Step
  <2>1. /\ n.attempts = r.attempts /\ n.runs = r.runs + 1 /\ n.retries = r.retries
        /\ r.status = "claimed" /\ r.runs <= r.retries
        /\ Dispatched(n) /\ ~Dispatched(r)
    BY <1>1, <1>10, MarksDispatches
  <2>2. Outcome(n) = "started" /\ Outcome(r) = "waiting"
    BY <2>1, OutcomeIs DEF Finished
  <2>3. r.attempts > 0 /\ r.runs < 1 + r.retries
    BY <1>1, <2>1 DEF RowOK
  <2> QED BY <1>2, <2>1, <2>2, <2>3 DEF Promise!Next, Promise!Start
<1>11. ASSUME NEW k \in Row, k.status \in {"queued", "retry_wait", "absent"}, NEW h \in Hosts,
              Kept(r, k), Outcome(r) = "waiting", n.status = "claimed", ~Dispatched(n),
              n.attempts = k.attempts + 1, n.runs = k.runs, n.retries = k.retries
       PROVE  Step
  <2>1. Outcome(n) = "waiting"
    BY <1>11, OutcomeIs DEF Finished
  <2>2. r.attempts + 1 < MaxAttempts + (1 + r.retries)
    BY <1>1, <1>11 DEF Kept, TriesOK
  <2> QED BY <1>2, <1>11, <2>1, <2>2 DEF Kept, Promise!Next, Promise!Try
<1>12. ASSUME NEW h \in Hosts, Ticks(m, h) PROVE Step
  <2>1. PICK k \in Row :
          /\ Swept(m, k)
          /\ n = k \/ (k.status \in {"queued", "retry_wait"} /\ n = Claim(k, h))
    BY <1>12 DEF Ticks
  <2>2. CASE n = k
    <3>1. CASE k = r
      BY <1>3, <2>2, <3>1 DEF Kept
    <3> QED BY <1>4, <2>1, <2>2, <3>1 DEF Swept
  <2>3. CASE k.status \in {"queued", "retry_wait"} /\ n = Claim(k, h)
    <3>1. Claimed(k, h, n) /\ IF k.code = "recovery" THEN n.code = "recovery" ELSE n.code = "none"
      BY <2>3, ClaimFields, ClaimCode
    <3>2. Outcome(k) = "waiting"
      BY <2>3, OutcomeIs DEF Finished, Dispatched
    <3>3. k = r \/ (Waits(m, k) /\ k.attempts = r.attempts)
      BY <2>1, <2>3 DEF Swept, Ends, Finished
    <3>4. Kept(r, k) /\ Outcome(r) = "waiting"
      BY <3>2, <3>3, PromiseReleases DEF Kept
    <3> HIDE DEF n, Step
    <3>5. /\ n.status = "claimed" /\ n.attempts = k.attempts + 1 /\ n.runs = k.runs
          /\ n.retries = k.retries /\ ~Dispatched(n)
      BY <3>1 DEF Claimed, Dispatched
    <3> QED BY <1>11, <2>3, <3>4, <3>5
  <2> QED BY <2>1, <2>2, <2>3
<1>13. ASSUME NEW h \in Hosts, Enters(m, h) PROVE Step
  <2>1. PICK g \in Nat \ {0} : n = NativeClaim(g, h)
    BY <1>13 DEF Enters
  <2>2. NativeClaimed(g, h, n)
    BY <2>1, NativeFields
  <2>3. r.status = "absent" /\ r.attempts = 0 /\ r.runs = 0 /\ r.retries = 0
    BY <1>1, <1>13 DEF Enters, RowOK
  <2>4. Outcome(r) = "waiting"
    BY <2>3, OutcomeIs DEF Finished, Dispatched
  <2> HIDE DEF n, Step
  <2>5. /\ n.status = "claimed" /\ n.attempts = 1 /\ n.runs = 0 /\ n.retries = 0
        /\ n.code = "native"
    BY <2>2 DEF NativeClaimed
  <2>6. ~Dispatched(n)
    BY <2>5 DEF Dispatched
  <2>7. Kept(r, r)
    BY DEF Kept
  <2> QED BY <1>1, <1>11, <2>3, <2>4, <2>5, <2>6, <2>7
<1> HIDE DEF Step
<1> QED BY <1>1, <1>5, <1>6, <1>7, <1>8, <1>9, <1>10, <1>12, <1>13 DEF Move

(* A message starts where DispatchPromise does.                            *)
LEMMA PromiseInit == Init => \A m \in Promised : Promise(m)!Init
<1> SUFFICES ASSUME Init, NEW m \in Promised PROVE Promise(m)!Init
  OBVIOUS
<1>1. inbox[m] = Absent
  BY DEF Init, Promised
<1>2. Outcome(inbox[m]) = "waiting"
  <2>1. inbox[m].status = "absent"
    BY <1>1 DEF Absent
  <2> QED BY <2>1, OutcomeIs DEF Finished, Dispatched
<1>3. inbox[m].attempts = 0 /\ inbox[m].runs = 0 /\ 1 + inbox[m].retries = 1
  BY <1>1 DEF Absent
<1> QED BY <1>2, <1>3 DEF Promise!Init

(* The coordinator, the commands, native input, recovery and the operator  *)
(* keep DispatchPromise to every message but a permission command, through *)
(* crashes, stalls, fences and any number of Hosts: tries within the       *)
(* budget, one execution per grant, no return from a dispatch but through  *)
(* the operator, and no command or native input that is processed without  *)
(* being executed.                                                         *)
THEOREM Refines == Spec => KeepsPromise
<1>1. IInv /\ [Next]_vars =>
        [\A m \in Promised : [Promise(m)!Next]_(Promise(m)!vars)]_vars
  BY PromiseStep
<1> QED BY <1>1, PromiseInit, Invariance, PTL DEF Spec, KeepsPromise

-----------------------------------------------------------------------------
(* One Host: no fresh generation beside the old.                           *)

OneHost == \A g, h \in Hosts : g = h

\* A dispatched turn that has not reached its reply boundary.
Running(o) == KindOf[o.msg] = "turn" /\ o.phase = "run" /\ inbox[o.msg].retries = 0

\* Generations only grow; what runs belongs to the newest; and while a /stop
\* or /new holds the conversation, it stays received and what runs is to end.
Rotation ==
  /\ \A m \in Msgs : inbox[m].gen <= gen[ConvOf[m]]
  /\ \A o \in ops : /\ o.gen <= gen[ConvOf[o.msg]]
                    /\ Running(o) => o.gen = gen[ConvOf[o.msg]]
  /\ \A h \in Hosts, c \in Convs : trans[h][c].msg # 0 =>
       /\ inbox[trans[h][c].msg].status = "received"
       /\ \A o \in ops : Running(o) /\ ConvOf[o.msg] = c => o.stopped

\* What a step does to the operations: they go on, dispatch, or begin.
GoesOn(o, p) ==
  /\ Same(o, p) /\ p.gen = o.gen /\ (p.phase = "run" => o.phase = "run")
  /\ o.stopped => p.stopped
Begins(p) == p.phase # "run" /\ p.gen <= gen[ConvOf[p.msg]]
TurnsMove ==
  \A p \in ops' : \/ \E o \in ops : GoesOn(o, p)
                  \/ \E o \in ops : Mark(o) /\ p = [o EXCEPT !.phase = "run"]
                  \/ Begins(p)

\* ... to the generations, which a /new rotates when all else has ended,
Rotates(h, c) ==
  /\ trans[h][c].msg # 0 /\ Drained(h, c) /\ UNCHANGED ops
  /\ trans' = [trans EXCEPT ![h][c] = NoTransition]
GensMove ==
  /\ \A c \in Convs : \/ gen'[c] = gen[c]
                      \/ gen'[c] > gen[c] /\ \E h \in Hosts : Rotates(h, c)
  /\ \A m \in Msgs : inbox'[m].gen \in {inbox[m].gen, gen'[ConvOf[m]]}

\* ... and to the command that holds a conversation.
HoldsMove ==
  \A h \in Hosts, c \in Convs : LET m == trans'[h][c].msg IN
    m # 0 => /\ inbox'[m].status = "received"
             /\ m = trans[h][c].msg \/ fence(h, m)

(* Every step does that to the operations ...                              *)
LEMMA EveryTurn ==
  ASSUME IInv, Rotation, [Next]_vars
  PROVE  TurnsMove
<1>1. /\ \A o \in ops : GoesOn(o, o)
      /\ ops \subseteq Op /\ inbox \in [Msgs -> Row] /\ gen \in [Convs -> Nat \ {0}]
  BY DEF GoesOn, Same, IInv, Shape, TypeOK
<1>2. CASE ops' \subseteq ops
  BY <1>1, <1>2 DEF TurnsMove
<1>3. ASSUME NEW o \in ops, NEW p, Update(o, p), GoesOn(o, p) PROVE TurnsMove
  BY <1>1, <1>3 DEF Update, TurnsMove
<1>4. ASSUME NEW o \in ops, Progress(o) \/ Reply(o) \/ ReplySafe(o) \/ Abort(o)
      PROVE  TurnsMove
  <2>1. CASE Mark(o)
    BY <1>1, <2>1 DEF Mark, Update, TurnsMove
  <2>2. ASSUME NEW s, s # "run" PROVE GoesOn(o, [o EXCEPT !.phase = s])
    BY <1>1, <2>2 DEF GoesOn, Same, Op
  <2>3. CASE Open(o) \/ Begin(o) \/ ReplySafe(o)
    BY <1>3, <2>2, <2>3 DEF Open, Begin, ReplySafe
  <2>4. CASE Abort(o)
    <3>1. GoesOn(o, [o EXCEPT !.aborted = TRUE])
      BY <1>1 DEF GoesOn, Same, Op
    <3> QED BY <1>3, <2>4, <3>1 DEF Abort
  <2>5. CASE SessionBusy(o) \/ Refuse(o) \/ Return(o) \/ AbortedReturns(o) \/ Reply(o)
    BY <1>2, <2>5 DEF SessionBusy, Refuse, Return, AbortedReturns, Reply
  <2> QED BY <1>4, <2>1, <2>3, <2>4, <2>5 DEF Progress
<1>5. ASSUME NEW h \in Hosts, Tick(h) PROVE TurnsMove
  <2>1. CASE ops' = ops
    BY <1>2, <2>1
  <2>2. ASSUME NEW T \in SUBSET Msgs,
               ops' = {IF o.host = h /\ o.msg \in T THEN [o EXCEPT !.tracked = FALSE] ELSE o :
                         o \in ops} \cup {NewOp(m, h, "prep") : m \in T}
        PROVE  TurnsMove
    <3> SUFFICES ASSUME NEW p \in ops'
                 PROVE  (\E o \in ops : GoesOn(o, p)) \/ Begins(p)
      BY DEF TurnsMove
    <3>1. ASSUME NEW o \in ops, p = [o EXCEPT !.tracked = FALSE] PROVE GoesOn(o, p)
      BY <1>1, <3>1 DEF GoesOn, Same, Op
    <3>2. ASSUME NEW m \in T, p = NewOp(m, h, "prep") PROVE Begins(p)
      <4>1. p.phase = "prep" /\ p.gen = inbox[m].gen /\ p.msg = m
        BY <3>2 DEF NewOp
      <4> QED BY <4>1 DEF Rotation, Begins
    <3> QED BY <1>1, <2>2, <3>1, <3>2
  <2> QED BY <1>5, <2>1, <2>2 DEF Tick
<1>6. ASSUME NEW h \in Hosts, NEW n \in Msgs, fence(h, n) PROVE TurnsMove
  <2> DEFINE S(o) == o.stopped \/ /\ o.host = h /\ Controlled(o)
                                  /\ ConvOf[o.msg] = ConvOf[n] /\ o.gen = gen[ConvOf[n]]
             V(o) == o.victim \/ /\ o.host = h /\ o.tracked
                                 /\ inbox[o.msg].status = "claimed"
                                 /\ o.msg \in Undispatched(n)
  <2>1. ops' = {[o EXCEPT !.stopped = S(o), !.victim = V(o)] : o \in ops}
    BY <1>6 DEF fence
  <2>2. ASSUME NEW o \in ops PROVE GoesOn(o, [o EXCEPT !.stopped = S(o), !.victim = V(o)])
    <3>1. o.stopped => S(o)
      OBVIOUS
    <3> HIDE DEF S, V
    <3> QED BY <1>1, <3>1 DEF GoesOn, Same, Op
  <2> HIDE DEF S, V
  <2>3. ASSUME NEW p \in ops' PROVE \E o \in ops : GoesOn(o, p)
    BY <2>1, <2>2, <2>3
  <2> QED BY <2>3 DEF TurnsMove
<1>7. ASSUME NEW h \in Hosts, NEW n \in Msgs, claimNativeInbox(h, n) PROVE TurnsMove
  <2> DEFINE g == gen[ConvOf[n]]
             q == NewOp(n, h, "open")
             p == [q EXCEPT !.gen = g]
  <2>1. ops' = ops \cup {p}
    BY <1>7 DEF claimNativeInbox
  <2>2. p.phase = "open" /\ p.gen = g /\ p.msg = n
    BY DEF NewOp
  <2>3. Begins(p)
    BY <1>1, <2>2, InboxAssumption DEF Begins
  <2> QED BY <1>1, <2>1, <2>3 DEF TurnsMove
<1>8. ASSUME NEW h \in Hosts,
             \/ Crash(h)
             \/ \E n \in Msgs : reject(h, n) \/ queueInbox(h, n)
             \/ \E c \in Convs : commit(h, c) \/ transitionFails(h, c)
      PROVE  TurnsMove
  BY <1>2, <1>8 DEF Crash, reject, queueInbox, commit, transitionFails
<1>9. ASSUME NEW n \in Msgs,
             \/ acceptInbound(n) \/ LapseUnattended(n) \/ LapseStalled(n)
             \/ BackoffElapses(n) \/ OperatorCancel(n) \/ OperatorRetry(n)
      PROVE  TurnsMove
  BY <1>2, <1>9 DEF acceptInbound, LapseUnattended, LapseStalled, Lapse, BackoffElapses,
                    OperatorCancel, OperatorRetry
<1>10. CASE revokePrincipal \/ setRestartFence \/ clearRestartFence \/ UNCHANGED vars
  BY <1>2, <1>10 DEF revokePrincipal, setRestartFence, clearRestartFence, vars
<1> QED BY <1>4, <1>5, <1>6, <1>7, <1>8, <1>9, <1>10 DEF Next, Drive

(* ... that to the generations ...                                         *)
LEMMA EveryGen ==
  ASSUME IInv, [Next]_vars
  PROVE  GensMove
<1>1. /\ gen \in [Convs -> Nat \ {0}] /\ \A m \in Msgs : inbox[m] \in Row
      /\ \A m \in Msgs : inbox[m].status = "absent" => inbox[m].gen = 0
  BY DEF IInv, Shape, TypeOK, RowOK
<1>2. ASSUME NEW m \in Msgs PROVE inbox'[m].gen \in {inbox[m].gen, gen'[ConvOf[m]]}
  <2>1. CASE Stays(m) \/ Concludes(m)
    BY <2>1 DEF Stays, Alike, Concludes, Ends, Waits, Released
  <2>2. CASE Arrives(m)
    BY <1>1, <2>2 DEF Arrives, Absent
  <2>3. CASE Queues(m) \/ Revives(m)
    BY <1>1, <2>3 DEF Queues, Revives, Row
  <2>4. CASE \E o \in ops : Marks(m, o)
    BY <1>1, <2>4 DEF Marks, Row
  <2>5. ASSUME NEW h \in Hosts, Ticks(m, h) PROVE inbox'[m].gen = inbox[m].gen
    <3>1. PICK k \in Row : Swept(m, k) /\ (inbox'[m] = k \/ inbox'[m] = Claim(k, h))
      BY <2>5 DEF Ticks
    <3>2. k.gen = inbox[m].gen
      BY <3>1 DEF Swept, Ends, Waits, Released
    <3>3. CASE inbox'[m] = Claim(k, h)
      <4>1. Claimed(k, h, inbox'[m])
        BY <3>3, ClaimFields
      <4> QED BY <3>2, <4>1 DEF Claimed
    <3> QED BY <3>1, <3>2, <3>3
  <2>6. ASSUME NEW h \in Hosts, Enters(m, h) PROVE inbox'[m].gen = gen'[ConvOf[m]]
    <3>1. PICK g \in Nat \ {0} : g = gen'[ConvOf[m]] /\ inbox'[m] = NativeClaim(g, h)
      BY <2>6 DEF Enters
    <3>2. NativeClaimed(g, h, inbox'[m])
      BY <3>1, NativeFields
    <3> QED BY <3>1, <3>2 DEF NativeClaimed
  <2>7. Move(m)
    BY EveryMove
  <2> QED BY <2>1, <2>2, <2>3, <2>4, <2>5, <2>6, <2>7 DEF Move
<1>3. ASSUME NEW h \in Hosts, NEW c \in Convs, NEW d \in Convs, commit(h, c)
      PROVE  gen'[d] = gen[d] \/ (gen'[d] > gen[d] /\ Rotates(h, d))
  <2> DEFINE t == trans[h][c]
             M == inbox[t.msg].status = "received" /\ BindingActive(t.msg, t.gen)
             up == IF KindOf[t.msg] = "new" THEN 1 ELSE 0
  <2>1. /\ t.msg # 0 /\ Drained(h, c) /\ UNCHANGED ops
        /\ trans' = [trans EXCEPT ![h][c] = NoTransition]
        /\ IF M THEN gen' = [gen EXCEPT ![c] = gen[c] + up] ELSE UNCHANGED gen
    BY <1>3 DEF commit
  <2>2. up \in {0, 1}
    OBVIOUS
  <2> HIDE DEF t, M, up
  <2>3. gen[d] \in Nat /\ gen[c] \in Nat
    BY <1>1
  <2>4. gen'[d] = gen[d] \/ (d = c /\ gen'[d] > gen[d])
    BY <1>1, <2>1, <2>2, <2>3
  <2> QED BY <2>1, <2>4 DEF Rotates, t
<1>4. UNCHANGED gen \/ \E h \in Hosts, c \in Convs : commit(h, c)
  <2>1. ASSUME NEW o \in ops, Progress(o) \/ Reply(o) \/ ReplySafe(o) \/ Abort(o)
        PROVE  UNCHANGED gen
    BY <2>1 DEF Progress, Open, SessionBusy, Refuse, Begin, Mark, Return, AbortedReturns,
                Reply, ReplySafe, Abort
  <2>2. ASSUME NEW h \in Hosts,
               \/ Tick(h) \/ Crash(h)
               \/ \E n \in Msgs : Drive(h, n) \/ claimNativeInbox(h, n)
               \/ \E c \in Convs : transitionFails(h, c)
        PROVE  UNCHANGED gen
    BY <2>2 DEF Tick, Crash, Drive, reject, queueInbox, fence, claimNativeInbox, transitionFails
  <2>3. ASSUME NEW n \in Msgs,
               \/ acceptInbound(n) \/ LapseUnattended(n) \/ LapseStalled(n)
               \/ BackoffElapses(n) \/ OperatorCancel(n) \/ OperatorRetry(n)
        PROVE  UNCHANGED gen
    BY <2>3 DEF acceptInbound, LapseUnattended, LapseStalled, Lapse, BackoffElapses,
                OperatorCancel, OperatorRetry
  <2>4. CASE revokePrincipal \/ setRestartFence \/ clearRestartFence \/ UNCHANGED vars
    BY <2>4 DEF revokePrincipal, setRestartFence, clearRestartFence, vars
  <2> QED BY <2>1, <2>2, <2>3, <2>4 DEF Next
<1> QED BY <1>2, <1>3, <1>4 DEF GensMove

(* ... and that to the command that holds a conversation.                  *)
LEMMA EveryHold ==
  ASSUME IInv, Rotation, OneHost, [Next]_vars
  PROVE  HoldsMove
<1>1. /\ trans \in [Hosts -> [Convs -> [msg : Nat, gen : Nat]]] /\ inbox \in [Msgs -> Row]
      /\ \A m \in Msgs : ConvOf[m] \in Convs
  BY InboxAssumption DEF IInv, Shape, TypeOK
<1>2. ASSUME NEW h \in Hosts, NEW c \in Convs, NEW m, m = trans[h][c].msg, m # 0
      PROVE  m \in Msgs /\ ConvOf[m] = c /\ inbox[m].status = "received"
  BY <1>2 DEF IInv, Seals, Rotation
<1>3. CASE \A h \in Hosts, c \in Convs : LET m == trans'[h][c].msg IN
             m # 0 => m = trans[h][c].msg /\ inbox'[m].status = inbox[m].status
  BY <1>2, <1>3 DEF HoldsMove
<1>4. ASSUME UNCHANGED trans,
             \A m \in Msgs : inbox[m].status = "received" => inbox'[m].status = "received"
      PROVE  HoldsMove
  BY <1>2, <1>3, <1>4
<1>5. ASSUME NEW o \in ops, Progress(o) \/ Reply(o) \/ ReplySafe(o) \/ Abort(o)
      PROVE  HoldsMove
  <2>1. UNCHANGED trans
    BY <1>5 DEF Progress, Open, SessionBusy, Refuse, Begin, Mark, Return, AbortedReturns,
                Reply, ReplySafe, Abort
  <2>2. ASSUME NEW m \in Msgs, inbox[m].status = "received"
        PROVE  inbox'[m].status = "received"
    <3>1. ASSUME NEW s, NEW d, inbox' = finishInbox(o, s, d) PROVE inbox'[m] = inbox[m]
      BY <1>1, <2>2, <3>1 DEF finishInbox, Current
    <3>2. ASSUME Current(o), inbox' = deferInboxForSessionLease(o) PROVE inbox'[m] = inbox[m]
      BY <1>1, <2>2, <3>2 DEF deferInboxForSessionLease, Current
    <3>3. CASE SessionBusy(o) \/ Refuse(o) \/ Return(o)
      BY <2>2, <3>1, <3>2, <3>3 DEF SessionBusy, Refuse, Return
    <3>4. CASE Begin(o) \/ Mark(o)
      BY <1>1, <2>2, <3>4 DEF Begin, Mark, bindForegroundTaskExecution, Markable, Current
    <3>5. CASE Reply(o)
      <4>1. inbox[m] \in Row
        BY <1>1
      <4> QED BY <1>1, <2>2, <3>5, <4>1 DEF Reply, Row
    <3>6. CASE Open(o) \/ AbortedReturns(o) \/ ReplySafe(o) \/ Abort(o)
      BY <2>2, <3>6 DEF Open, AbortedReturns, ReplySafe, Abort
    <3> QED BY <1>5, <3>3, <3>4, <3>5, <3>6 DEF Progress
  <2> QED BY <1>4, <2>1, <2>2
<1>6. ASSUME NEW h \in Hosts, Tick(h) PROVE HoldsMove
  <2>1. ASSUME NEW m \in Msgs, inbox[m].status = "received" PROVE inbox'[m].status = "received"
    <3>1. PICK k \in Row :
            /\ Swept(m, k)
            /\ inbox'[m] = k \/ k.status \in {"queued", "retry_wait"}
      BY <1>6, TickMoves DEF Ticks, IInv
    <3>2. recoverInbox(m, inbox[m]) = inbox[m] /\ Exhaust(inbox[m]) = inbox[m]
      BY <2>1 DEF recoverInbox, Exhaust
    <3> QED BY <1>1, <1>6, <2>1, <3>2 DEF Tick, Claimable
  <2> QED BY <1>4, <1>6, <2>1 DEF Tick
<1>7. ASSUME NEW h \in Hosts, NEW n \in Msgs,
             reject(h, n) \/ queueInbox(h, n) \/ fence(h, n)
      PROVE  HoldsMove
  <2>1. \A g \in Hosts : trans[g][ConvOf[n]].msg = 0
    <3>1. trans[h][ConvOf[n]] = NoTransition
      BY <1>7 DEF reject, queueInbox, fence, Drives
    <3>2. \A g \in Hosts : g = h
      BY DEF OneHost
    <3> QED BY <3>1, <3>2 DEF NoTransition
  <2>2. ASSUME NEW m \in Msgs, ConvOf[m] # ConvOf[n] PROVE inbox'[m].status = inbox[m].status
    BY <1>1, <1>7, <2>2 DEF reject, queueInbox, fence, Undispatched
  <2>3. CASE UNCHANGED trans
    BY <1>2, <1>3, <2>1, <2>2, <2>3
  <2>4. CASE fence(h, n)
    <3> SUFFICES ASSUME NEW g \in Hosts, NEW c \in Convs, NEW m, m = trans'[g][c].msg, m # 0
                 PROVE  /\ inbox'[m].status = "received"
                        /\ m = trans[g][c].msg \/ fence(g, m)
      BY DEF HoldsMove
    <3>1. CASE c = ConvOf[n]
      <4>1. g = h /\ m = n
        BY <1>1, <2>4, <3>1 DEF fence, OneHost
      <4>2. inbox[n].status = "received" /\ n \notin Undispatched(n) /\ ~(n < n)
        <5>1. n \notin 1..(n - 1) /\ ~(n < n)
          BY InboxAssumption DEF Msgs
        <5> QED BY <2>4, <5>1 DEF fence, Drives, Undispatched
      <4>3. inbox'[n] = inbox[n]
        BY <1>1, <2>4, <4>2 DEF fence
      <4> QED BY <2>4, <4>1, <4>2, <4>3
    <3>2. CASE c # ConvOf[n]
      <4>1. m = trans[g][c].msg
        BY <1>1, <2>4, <3>2 DEF fence
      <4> QED BY <1>2, <2>2, <3>2, <4>1
    <3> QED BY <3>1, <3>2
  <2> QED BY <1>7, <2>3, <2>4 DEF reject, queueInbox
<1>8. ASSUME NEW h \in Hosts, NEW n \in Msgs, claimNativeInbox(h, n) PROVE HoldsMove
  <2>1. inbox[n].status = "absent" /\ UNCHANGED trans
        /\ \A m \in Msgs : m # n => inbox'[m] = inbox[m]
    BY <1>1, <1>8 DEF claimNativeInbox, Admits
  <2> QED BY <1>4, <2>1
<1>9. ASSUME NEW h \in Hosts, NEW c \in Convs, commit(h, c) \/ transitionFails(h, c)
      PROVE  HoldsMove
  <2>1. trans' = [trans EXCEPT ![h][c] = NoTransition] /\ trans[h][c].msg # 0
    BY <1>9 DEF commit, transitionFails
  <2>2. ASSUME NEW m \in Msgs, ConvOf[m] # c PROVE inbox'[m] = inbox[m]
    <3>1. trans[h][c].msg # m
      BY <1>2, <2>1, <2>2
    <3> QED BY <1>1, <1>9, <3>1 DEF commit, transitionFails
  <2>3. \A g \in Hosts : trans'[g][c].msg = 0
    BY <1>1, <2>1 DEF OneHost, NoTransition
  <2>4. \A g \in Hosts, d \in Convs : d # c => trans'[g][d] = trans[g][d]
    BY <1>1, <2>1
  <2> QED BY <1>2, <1>3, <2>2, <2>3, <2>4
<1>10. ASSUME NEW h \in Hosts, Crash(h) PROVE HoldsMove
  BY <1>1, <1>3, <1>10 DEF Crash, NoTransition
<1>11. ASSUME NEW n \in Msgs,
              \/ acceptInbound(n) \/ LapseUnattended(n) \/ LapseStalled(n)
              \/ BackoffElapses(n) \/ OperatorCancel(n) \/ OperatorRetry(n)
       PROVE  HoldsMove
  <2>1. UNCHANGED trans
    BY <1>11 DEF acceptInbound, LapseUnattended, LapseStalled, Lapse, BackoffElapses,
                 OperatorCancel, OperatorRetry
  <2>2. ASSUME NEW m \in Msgs, inbox[m].status = "received" PROVE inbox'[m].status = "received"
    <3>1. inbox[m] \in Row
      BY <1>1
    <3>2. CASE n # m
      BY <1>1, <1>11, <2>2, <3>2
         DEF acceptInbound, LapseUnattended, LapseStalled, Lapse, BackoffElapses,
             OperatorCancel, OperatorRetry
    <3>3. CASE n = m
      BY <1>1, <1>11, <2>2, <3>1, <3>3
         DEF acceptInbound, Admits, LapseUnattended, LapseStalled, Lapse, BackoffElapses,
             OperatorCancel, OperatorRetry, Resolvable, Row
    <3> QED BY <3>2, <3>3
  <2> QED BY <1>4, <2>1, <2>2
<1>12. CASE revokePrincipal \/ setRestartFence \/ clearRestartFence \/ UNCHANGED vars
  BY <1>4, <1>12 DEF revokePrincipal, setRestartFence, clearRestartFence, vars
<1> QED BY <1>5, <1>6, <1>7, <1>8, <1>9, <1>10, <1>11, <1>12 DEF Next, Drive

(* No unretried turn dispatches while a command holds its conversation:    *)
(* before the command it is past, after it it is not even queued.          *)
LEMMA HeldMarks ==
  ASSUME IInv, Rotation, NEW h \in Hosts, NEW o \in ops, Mark(o),
         KindOf[o.msg] = "turn", inbox[o.msg].retries = 0
  PROVE  trans[h][ConvOf[o.msg]].msg = 0
<1> DEFINE e == o.msg
           m == trans[h][ConvOf[e]].msg
<1> SUFFICES ASSUME m # 0 PROVE FALSE
  OBVIOUS
<1>1. /\ e \in Msgs /\ ConvOf[e] \in Convs /\ RowOK(inbox[e])
  BY InboxAssumption DEF IInv, Shape, TypeOK, Op
<1>2. m \in Msgs /\ Command(m) /\ ConvOf[m] = ConvOf[e] /\ inbox[m].status = "received"
  BY <1>1 DEF IInv, Seals, Rotation
<1>3. /\ inbox[e].status = "claimed" /\ inbox[e].token = o.token /\ Pre(o)
  BY DEF Mark, Markable, Current, Pre, MarksFrom
<1>4. inbox[e].code = "none"
  BY <1>3 DEF IInv, Budgets, Unspent
<1>5. e # m
  BY <1>2 DEF Command
<1>6. CASE e \in 1..(m - 1)
  <2>1. Raised(m)
    BY <1>2 DEF Raised
  <2>2. Past(e)
    BY <1>2, <1>6, <2>1 DEF IInv, Boundaries
  <2> QED BY <1>3, <1>4, <2>2 DEF Past, Finished
<1>7. CASE m \in 1..(e - 1)
  <2>1. inbox[e].gen # 0
    BY <1>1, <1>3 DEF RowOK
  <2> QED BY <1>1, <1>2, <1>7, <2>1 DEF IInv, Seals, Sealed
<1> QED BY <1>1, <1>2, <1>5, <1>6, <1>7, InboxAssumption DEF Msgs

(* The rotation of one Host is orderly.                                    *)
LEMMA KeepsRotation ==
  ASSUME IInv, IInv', Rotation, OneHost, [Next]_vars
  PROVE  Rotation'
<1>1. TurnsMove /\ GensMove /\ HoldsMove
  BY EveryTurn, EveryGen, EveryHold
<1>2. /\ gen \in [Convs -> Nat \ {0}] /\ gen' \in [Convs -> Nat \ {0}]
      /\ ops \subseteq Op /\ ops' \subseteq Op
      /\ \A m \in Msgs : ConvOf[m] \in Convs /\ inbox[m].gen \in Nat
  BY InboxAssumption DEF IInv, Shape, TypeOK, RowOK, Row
<1>3. \A c \in Convs : gen'[c] >= gen[c]
  BY <1>1, <1>2 DEF GensMove
<1>4. \A m \in Msgs : inbox'[m].gen <= gen'[ConvOf[m]]
  BY <1>1, <1>2, <1>3 DEF GensMove, Rotation
<1>5. ASSUME NEW m \in Msgs, inbox'[m].retries = 0 PROVE inbox[m].retries = 0
  BY <1>5, EveryMove, MoveShape DEF IInv, Shape, RowOK, Row
<1>6. ASSUME NEW o \in ops, NEW p \in ops', GoesOn(o, p), Running(p)'
      PROVE  Running(o) /\ o.msg = p.msg /\ (o.stopped => p.stopped)
  BY <1>2, <1>5, <1>6 DEF GoesOn, Same, Running, Op
<1>7. ASSUME NEW o \in ops, NEW p \in ops', Mark(o), p = [o EXCEPT !.phase = "run"]
      PROVE  /\ p.msg = o.msg /\ p.gen = o.gen /\ UNCHANGED gen
             /\ o.gen = gen[ConvOf[o.msg]] /\ (Running(p)' => inbox[o.msg].retries = 0)
  BY <1>2, <1>5, <1>7 DEF Mark, Markable, BindingActive, Op, Running
<1>8. ASSUME NEW p \in ops'
      PROVE  /\ p.gen <= gen'[ConvOf[p.msg]]
             /\ Running(p)' => p.gen = gen'[ConvOf[p.msg]]
  <2> DEFINE c == ConvOf[p.msg]
  <2>1. c \in Convs /\ p.gen \in Nat /\ gen'[c] \in Nat /\ gen[c] \in Nat /\ gen'[c] >= gen[c]
    BY <1>2, <1>3 DEF Op
  <2>2. ASSUME NEW o \in ops, GoesOn(o, p)
        PROVE  p.gen <= gen'[c] /\ (Running(p)' => p.gen = gen'[c])
    <3>1. o.msg = p.msg /\ p.gen = o.gen /\ o.gen <= gen[c]
      BY <2>2 DEF GoesOn, Same, Rotation
    <3>2. ASSUME Running(p)' PROVE p.gen = gen'[c]
      <4>1. Running(o) /\ o.gen = gen[c]
        BY <1>6, <2>2, <3>1, <3>2 DEF Rotation
      <4>2. ASSUME NEW h \in Hosts, Rotates(h, c) PROVE FALSE
        <5>1. o.stopped /\ o.host = h /\ o.phase = "run"
          BY <1>2, <2>1, <3>1, <4>1, <4>2 DEF Rotation, Rotates, OneHost, Op, Running
        <5> QED BY <3>1, <4>2, <5>1 DEF Rotates, Drained
      <4> QED BY <1>1, <2>1, <3>1, <4>1, <4>2 DEF GensMove
    <3> QED BY <2>1, <3>1, <3>2
  <2>3. ASSUME NEW o \in ops, Mark(o), p = [o EXCEPT !.phase = "run"]
        PROVE  p.gen <= gen'[c] /\ (Running(p)' => p.gen = gen'[c])
    BY <1>7, <2>1, <2>3
  <2>4. CASE Begins(p)
    BY <2>1, <2>4 DEF Begins, Running
  <2> QED BY <1>1, <2>2, <2>3, <2>4 DEF TurnsMove
<1>9. ASSUME NEW h \in Hosts, NEW c \in Convs, trans'[h][c].msg # 0
      PROVE  /\ inbox'[trans'[h][c].msg].status = "received"
             /\ \A p \in ops' : Running(p)' /\ ConvOf[p.msg] = c => p.stopped
  <2> DEFINE m == trans'[h][c].msg
  <2>1. inbox'[m].status = "received" /\ (m = trans[h][c].msg \/ fence(h, m))
    BY <1>1, <1>9 DEF HoldsMove
  <2>2. m \in Msgs /\ ConvOf[m] = c
    BY <1>9 DEF IInv, Seals
  <2> SUFFICES ASSUME NEW p \in ops', Running(p)', ConvOf[p.msg] = c PROVE p.stopped
    BY <2>1
  <2>3. CASE m = trans[h][c].msg
    <3>1. ASSUME NEW o \in ops, GoesOn(o, p) PROVE p.stopped
      <4>1. Running(o) /\ o.msg = p.msg /\ (o.stopped => p.stopped)
        BY <1>6, <3>1
      <4> QED BY <1>9, <2>3, <4>1 DEF Rotation
    <3>2. ASSUME NEW o \in ops, Mark(o), p = [o EXCEPT !.phase = "run"] PROVE FALSE
      <4>1. p.msg = o.msg /\ inbox[o.msg].retries = 0 /\ KindOf[o.msg] = "turn"
        BY <1>7, <3>2 DEF Running
      <4>2. trans[h][c].msg = 0
        BY <3>2, <4>1, HeldMarks
      <4> QED BY <1>9, <2>3, <4>2
    <3>3. ~Begins(p)
      BY DEF Begins, Running
    <3> QED BY <1>1, <3>1, <3>2, <3>3 DEF TurnsMove
  <2>4. CASE fence(h, m)
    <3> DEFINE S(o) == o.stopped \/ /\ o.host = h /\ Controlled(o)
                                    /\ ConvOf[o.msg] = ConvOf[m] /\ o.gen = gen[ConvOf[m]]
               V(o) == o.victim \/ /\ o.host = h /\ o.tracked
                                   /\ inbox[o.msg].status = "claimed"
                                   /\ o.msg \in Undispatched(m)
    <3>1. PICK o \in ops : p = [o EXCEPT !.stopped = S(o), !.victim = V(o)]
      BY <2>4 DEF fence
    <3>2. p.stopped = S(o) /\ p.msg = o.msg /\ p.phase = o.phase
      <4> HIDE DEF S, V
      <4> QED BY <1>2, <3>1 DEF Op
    <3>3. Running(o)
      BY <1>2, <1>5, <3>2 DEF Running, Op
    <3>4. o.host = h /\ Controlled(o) /\ o.gen = gen[ConvOf[m]]
      BY <1>2, <2>2, <3>2, <3>3 DEF OneHost, Op, Controlled, Running, Rotation
    <3> QED BY <2>2, <3>2, <3>4
  <2> QED BY <2>1, <2>3, <2>4
<1> QED BY <1>4, <1>8, <1>9 DEF Rotation

(* With one Host, while a dispatched turn of an old generation has not     *)
(* reached its reply boundary, nothing of a newer one has begun: the wait  *)
(* for cancelled turns before rotateBindingAndQueueCommand is enough, and  *)
(* no turn slips past cancelUndispatchedInboxBefore.                       *)
THEOREM RotationIsLast ==
  ASSUME OneHost
  PROVE  Spec => []NoFreshBesideOld
<1>1. Init => Rotation
  <2> SUFFICES ASSUME Init PROVE Rotation
    OBVIOUS
  <2>1. \A m \in Msgs : inbox[m].gen = 0 /\ ConvOf[m] \in Convs
    BY InboxAssumption DEF Init, Absent
  <2>2. ops = {} /\ \A c \in Convs : gen[c] = 1
    BY DEF Init
  <2>3. \A h \in Hosts, c \in Convs : trans[h][c].msg = 0
    BY DEF Init, NoTransition
  <2> QED BY <2>1, <2>2, <2>3 DEF Rotation
<1>2. IInv /\ IInv' /\ Rotation /\ [Next]_vars => Rotation'
  BY KeepsRotation
<1>3. IInv /\ Rotation => NoFreshBesideOld
  <2> SUFFICES ASSUME IInv, Rotation, NEW o \in ops, NEW p \in ops,
                      ConvOf[o.msg] = ConvOf[p.msg], o.gen < p.gen, Running(o)
               PROVE  FALSE
    BY DEF NoFreshBesideOld, Running
  <2>1. o.gen \in Nat /\ p.gen \in Nat /\ p.gen <= o.gen
    BY DEF Rotation, IInv, Shape, TypeOK, Op
  <2> QED BY <2>1
<1> QED BY <1>1, <1>2, <1>3, Invariance, PTL DEF Spec
=============================================================================
