--------------------------- MODULE DelayedMessages ---------------------------
(***************************************************************************)
(* What the STDF message service promises its callers, without slots,      *)
(* flags, timer or time: messages are handled one at a time in the order   *)
(* they were posted; a delayed one can be cancelled as long as it waits,   *)
(* and is posted once when it does not.  The two ways a message is lost    *)
(* are part of it: a full table refuses one, and right after an expired    *)
(* message was posted others that wait may be swept away.  So is the one   *)
(* way the service ends: an assertion, which may take the queue with it.   *)
(* StdfOs implements it.                                                   *)
(***************************************************************************)
EXTENDS Naturals, Sequences

CONSTANTS
  Keys,      \* a handler and a message id
  MaxSends   \* bound: messages ever sent

VARIABLES
  sent,      \* number of send calls made
  waiting,   \* delayed messages
  expired,   \* {} or the message the timer has taken out and not yet posted
  sweeping,  \* an expired message was posted just now
  queue,     \* posted messages
  handled,   \* {} or the message whose handler runs
  up         \* no assertion has failed

vars == <<sent, waiting, expired, sweeping, queue, handled, up>>

Init ==
  /\ sent = 0
  /\ waiting = {} /\ expired = {} /\ queue = <<>> /\ handled = {}
  /\ sweeping = FALSE
  /\ up = TRUE

Fresh(k) == [key |-> k, seq |-> sent + 1]

Enqueue(m) == queue' = Append(queue, m) /\ up' = up
Fail == queue' = <<>> /\ up' = FALSE

(* Both kinds of send take a new message *)
Send(k) ==
  /\ up /\ sent < MaxSends /\ sent' = sent + 1
  /\ Enqueue(Fresh(k)) \/ Fail
  /\ UNCHANGED <<waiting, expired, sweeping, handled>>

SendLater(k) ==
  /\ up /\ sent < MaxSends /\ sent' = sent + 1
  /\ waiting' \in {waiting, waiting \cup {Fresh(k)}}
  /\ UNCHANGED <<expired, sweeping, queue, handled, up>>

WithKey(k) == {m \in waiting : m.key = k}

CancelFirst(k) ==
  /\ up
  /\ \E m \in WithKey(k) : waiting' = waiting \ {m}
  /\ UNCHANGED <<sent, expired, sweeping, queue, handled, up>>

CancelAll(k) ==
  /\ up
  /\ waiting' = waiting \ WithKey(k)
  /\ UNCHANGED <<sent, expired, sweeping, queue, handled, up>>

(* The timer takes a message out; from here on it cannot be cancelled *)
Expire ==
  /\ up /\ expired = {} /\ ~sweeping
  /\ \E m \in waiting : waiting' = waiting \ {m} /\ expired' = {m}
  /\ UNCHANGED <<sent, sweeping, queue, handled, up>>

Post ==
  /\ up
  /\ \E m \in expired : Enqueue(m) \/ Fail
  /\ expired' = {} /\ sweeping' = TRUE
  /\ UNCHANGED <<sent, waiting, handled>>

Sweep ==
  /\ up /\ sweeping
  /\ waiting' \in SUBSET waiting
  /\ sweeping' = FALSE
  /\ UNCHANGED <<sent, expired, queue, handled, up>>

(* The timer runs and finds nothing marked to expire, though some may wait: *)
(* an earlier run has taken out the message this one was meant for          *)
Trip ==
  /\ up /\ up' = FALSE
  /\ expired = {} /\ ~sweeping
  /\ UNCHANGED <<sent, waiting, expired, sweeping, queue, handled>>

Take ==
  /\ up /\ handled = {} /\ queue # <<>>
  /\ handled' = {Head(queue)} /\ queue' = Tail(queue)
  /\ UNCHANGED <<sent, waiting, expired, sweeping, up>>

Return ==
  /\ up /\ handled # {} /\ handled' = {}
  /\ UNCHANGED <<sent, waiting, expired, sweeping, queue, up>>

Next ==
  \/ \E k \in Keys : Send(k) \/ SendLater(k) \/ CancelFirst(k) \/ CancelAll(k)
  \/ Expire \/ Post \/ Sweep \/ Trip
  \/ Take \/ Return

Spec == Init /\ [][Next]_vars
===============================================================================
