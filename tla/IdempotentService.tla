-------------------------- MODULE IdempotentService --------------------------
(***************************************************************************)
(* What submitting with an idempotency key promises.  A call of a key      *)
(* whose success stands is answered by it; of a key that is worked on it   *)
(* shares that work; otherwise, and without a key, it does the work        *)
(* itself.  Everyone is told what its source came to, or is cancelled.     *)
(* The last Capacity successes stand; failures do not.                     *)
(***************************************************************************)
EXTENDS Naturals, Sequences, SequencesExt

CONSTANTS Submission, NoOne, KeyOf, NoKey, Capacity

VARIABLES
  source,  \* source[s]: the submission whose work s is answered by
  state,   \* state[s]: how far s is, or what it was told
  kept     \* the submissions whose success stands, the oldest first

vars == <<source, state, kept>>

Open == {"asked", "won", "lost"}

Standing(s) == {t \in ToSet(kept) : KeyOf[t] = KeyOf[s]}
Working(s) ==
  {t \in Submission : KeyOf[t] = KeyOf[s] /\ KeyOf[s] # NoKey /\ source[t] = t /\ state[t] \in Open}

Init ==
  /\ source = [s \in Submission |-> NoOne]
  /\ state = [s \in Submission |-> "new"]
  /\ kept = <<>>

Become(s, how) == state' = [state EXCEPT ![s] = how]
Follow(s, t) == state[s] = "new" /\ source' = [source EXCEPT ![s] = t] /\ UNCHANGED kept

Recall(s) == \E t \in Standing(s) : Follow(s, t) /\ Become(s, "success")

\* Work that one who shares it has cancelled is of no use to others.
Share(s) ==
  /\ Standing(s) = {}
  /\ \E t \in Working(s) : Follow(s, t)
  /\ Become(s, "asked") \/ Become(s, "cancelled")

Begin(s) ==
  /\ Standing(s) = {} /\ Working(s) = {}
  /\ Follow(s, s) /\ Become(s, "asked")

\* The oldest success is forgotten to keep a new one.
Remember(s) ==
  LET all == Append(kept, s) IN IF Len(all) > Capacity THEN Tail(all) ELSE all

Finish(s) ==
  /\ state[s] = "asked" /\ source[s] = s
  /\ \/ Become(s, "won") /\ kept' = IF KeyOf[s] = NoKey THEN kept ELSE Remember(s)
     \/ Become(s, "lost") /\ UNCHANGED kept
  /\ UNCHANGED source

Tell(s) ==
  /\ \/ state[s] = "won" /\ Become(s, "success")
     \/ state[s] = "lost" /\ Become(s, "failure")
     \/ /\ state[s] = "asked" /\ state[source[s]] \in {"success", "failure"}
        /\ Become(s, state[source[s]])
  /\ UNCHANGED <<source, kept>>

Cancel(s) == state[s] \in Open /\ Become(s, "cancelled") /\ UNCHANGED <<source, kept>>

Next ==
  \E s \in Submission :
    Recall(s) \/ Share(s) \/ Begin(s) \/ Finish(s) \/ Tell(s) \/ Cancel(s)

Spec == Init /\ [][Next]_vars
=============================================================================
