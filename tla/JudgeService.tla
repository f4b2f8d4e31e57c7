---------------------------- MODULE JudgeService ----------------------------
(***************************************************************************)
(* What a client of the judge may rely on, whatever goes on inside: until  *)
(* the submissions are reset or the process crashes, each submission that  *)
(* is accepted is judged once, and its verdict is handed out at most once  *)
(* (getResult removes a final result from the map it reads it from). A     *)
(* disk that fails may take a verdict back: when result.json cannot be     *)
(* written the verdict becomes an error, and when the result of that       *)
(* cannot be written either, an error once more; each may be handed out,   *)
(* also to a client that was given the one before.                         *)
(***************************************************************************)
EXTENDS Naturals

CONSTANTS
  Subs,         \* the submissions
  DiskMayFail,  \* may a file operation fail?
  None          \* no verdict

VARIABLES
  stage,     \* how far the service is with each submission
  verdict,   \* its verdict, once it has one
  unsaved,   \* how often the verdict may still be taken back
  disturbed  \* has there been a reset or a crash?

vars == <<stage, verdict, unsaved, disturbed>>

Init ==
  /\ stage = [s \in Subs |-> "idle"]
  /\ verdict = [s \in Subs |-> None]
  /\ unsaved = [s \in Subs |-> 0]
  /\ disturbed = FALSE

Goto(s, to) == stage' = [stage EXCEPT ![s] = to]

\* POST /submit puts the submission in the queue.
Accept(s) ==
  /\ stage[s] = "idle"
  /\ Goto(s, "accepted")
  /\ UNCHANGED <<verdict, unsaved>>

\* There is no directory for it: it is not queued, and its client hears so.
Refuse(s) ==
  /\ DiskMayFail
  /\ stage[s] = "idle"
  /\ Goto(s, "refused")
  /\ UNCHANGED <<verdict, unsaved>>

\* A worker publishes the outcome, then saves it. An error that comes of judging
\* is saved twice, one of the disk's or of the problem's once, and in vain.
Judge(s) ==
  /\ stage[s] = "accepted"
  /\ Goto(s, "judged")
  /\ \E v \in {"done", "error"}, n \in 0 .. 2 :
       /\ v = "done" <=> n = 2
       /\ verdict' = [verdict EXCEPT ![s] = v]
       /\ unsaved' = [unsaved EXCEPT ![s] = n]

TakeBack(s) ==
  /\ DiskMayFail
  /\ unsaved[s] > 0
  /\ unsaved' = [unsaved EXCEPT ![s] = @ - 1]
  /\ verdict' = [verdict EXCEPT ![s] = "error"]
  /\ Goto(s, "judged")

\* The outcome is saved: it is final.
Settle(s) ==
  /\ unsaved' = [unsaved EXCEPT ![s] = 0]
  /\ UNCHANGED <<stage, verdict>>

\* GET /result hands the outcome to one poll.
Deliver(s) ==
  /\ stage[s] = "judged"
  /\ Goto(s, "delivered")
  /\ UNCHANGED <<verdict, unsaved>>

\* After a reset or a crash ids begin again under what was accepted before:
\* nothing is promised any more.
Disturbed == disturbed'

Next ==
  \/ /\ ~disturbed'
     /\ \E s \in Subs :
          Accept(s) \/ Refuse(s) \/ Judge(s) \/ TakeBack(s) \/ Settle(s) \/ Deliver(s)
  \/ Disturbed

Spec == Init /\ [][Next]_vars
=============================================================================
