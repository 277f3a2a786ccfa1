------------------------------- MODULE Mailbox --------------------------------
(***************************************************************************)
(* What the message service promises to those who send: messages are taken *)
(* up in the order in which they came, one at a time, each is kept at most  *)
(* once, and nobody is told of an error about a message that was kept.  A  *)
(* failure may lose a message, with or without a notice.                   *)
(***************************************************************************)
EXTENDS Naturals, Sequences

CONSTANT Frames

VARIABLES fate,     \* of each message: unsent, waiting, taken, done or lost
          inbox,    \* those that wait, in order
          kept,     \* those that were kept, in order
          notice    \* what the sender was told: "none", "ok" or "error"

mailboxVars == <<fate, inbox, kept, notice>>

MailboxInit ==
  /\ fate = [f \in Frames |-> "unsent"]
  /\ inbox = <<>>
  /\ kept = <<>>
  /\ notice = [f \in Frames |-> "none"]

IsKept(f) == \E i \in 1..Len(kept) : kept[i] = f

NobodyIsTaken == \A f \in Frames : fate[f] # "taken"

Send(f) ==
  /\ fate[f] = "unsent"
  /\ fate' = [fate EXCEPT ![f] = "waiting"]
  /\ inbox' = Append(inbox, f)
  /\ UNCHANGED <<kept, notice>>

Take ==
  /\ inbox # <<>>
  /\ NobodyIsTaken
  /\ fate' = [fate EXCEPT ![Head(inbox)] = "taken"]
  /\ inbox' = Tail(inbox)
  /\ UNCHANGED <<kept, notice>>

\* Turned away at the door.
Refuse ==
  /\ inbox # <<>>
  /\ NobodyIsTaken
  /\ fate' = [fate EXCEPT ![Head(inbox)] = "done"]
  /\ inbox' = Tail(inbox)
  /\ notice' = [notice EXCEPT ![Head(inbox)] = "error"]
  /\ UNCHANGED kept

Keep(f) ==
  /\ fate[f] = "taken"
  /\ ~IsKept(f)
  /\ kept' = Append(kept, f)
  /\ UNCHANGED <<fate, inbox, notice>>

\* The end of a message that was taken up; it may be kept in the same step.
End(f) ==
  /\ fate[f] = "taken"
  /\ fate' = [fate EXCEPT ![f] = "done"]
  /\ \/ /\ notice' \in {notice, [notice EXCEPT ![f] = "ok"]}
        /\ kept' = kept \/ (~IsKept(f) /\ kept' = Append(kept, f))
     \/ /\ notice' = [notice EXCEPT ![f] = "error"]
        /\ ~IsKept(f)
        /\ UNCHANGED kept
  /\ UNCHANGED inbox

\* The service goes down, and forgets all that it has not finished.
GoDown ==
  /\ fate' = [f \in Frames |-> IF fate[f] \in {"waiting", "taken"} THEN "lost" ELSE fate[f]]
  /\ inbox' = <<>>
  /\ UNCHANGED <<kept, notice>>

MailboxNext ==
  \/ \E f \in Frames : Send(f) \/ Keep(f) \/ End(f)
  \/ Take \/ Refuse \/ GoDown

MailboxSpec == MailboxInit /\ [][MailboxNext]_mailboxVars
=============================================================================
