--------------------------- MODULE ServingProcess ----------------------------
(***************************************************************************)
(* The process that serves one journal (journaled_receiver.py, start and   *)
(* main) around the handle of module RecoveryJournal.                      *)
(*                                                                         *)
(* The command that starts it may carry --resume-token.  The token is the  *)
(* head an inspect printed, so it is the sequence of rows it was read      *)
(* from; no token is the empty sequence, a head no open accepts.  A token  *)
(* that is not the head of the rows makes the open raise resume_stale, and *)
(* a token whose resume was not applied makes start close the journal      *)
(* again: in both cases the process exits.  A command repeated with its    *)
(* old token is therefore refused for good once a commit has been made.    *)
(*                                                                         *)
(* Nothing in the code starts a process again, gives it a new command or   *)
(* stops one whose journal is held: main goes on serving 503.  That is for *)
(* the operator, of whom nothing is assumed here but what a property says. *)
(***************************************************************************)
EXTENDS RecoveryJournal

VARIABLES
  token,   \* the head --resume-token names, or << >> without one
  stage    \* "start" in start(), "resumed" once the resume is applied, "serve" in main's loop

servingVars == <<vars, token, stage>>

ServingInit == Init /\ token = << >> /\ stage = "start"

\* The operator edits the command, from an inspect of the stopped journal.
Recommand ==
  /\ pc = "down"
  /\ token' \in {<< >>, rows}
  /\ UNCHANGED <<vars, stage>>

\* MUTANT: any token is accepted.
TokenAcceptedAlways == TRUE

\* The open gets past the check of the token.
TokenAccepted == token \in {<< >>, rows}

\* start opens the journal with the request of the command; the token is asked
\* about only after the replay found nothing.
StartOpen ==
  /\ \/ Open /\ TokenAccepted
     \/ OpenHeld \/ OpenHeldUnsaved \/ OpenFails
  /\ resume' = (token # << >>)
  /\ stage' = "start"
  /\ UNCHANGED token

\* A step of a call that has begun.
Handle ==
  /\ CallStep
  /\ stage' = IF pc = "commit_slot" /\ op = "resume" THEN "resumed" ELSE stage
  /\ UNCHANGED token

\* The open is over: without a request, or with an applied one, main serves, with
\* a held journal as with a ready one.
Started ==
  /\ pc \in {"ready", "held"}
  /\ \/ stage = "resumed"
     \/ stage = "start" /\ ~resume
  /\ stage' = "serve"
  /\ UNCHANGED <<vars, token>>

\* The request was not applied: start closes the journal and the process exits.
NotApplied ==
  /\ stage = "start" /\ resume
  /\ Close
  /\ UNCHANGED <<token, stage>>

\* Ctrl-C ends main's loop, ready or held.
Stop ==
  /\ stage = "serve"
  /\ Close
  /\ UNCHANGED <<token, stage>>

\* journal_operator create makes the journal and closes it.
CreateState ==
  /\ Create
  /\ stage' = "create"
  /\ UNCHANGED token

CreatedState ==
  /\ stage = "create"
  /\ Close
  /\ UNCHANGED <<token, stage>>

\* A notification; the listener lets it in as soon as the open returned.
Notify ==
  /\ stage # "create"
  /\ AdmitStep
  /\ UNCHANGED <<token, stage>>

Fail == FailStep /\ UNCHANGED <<token, stage>>

ServingNext ==
  \/ Recommand \/ StartOpen \/ Handle \/ Started \/ NotApplied \/ Stop
  \/ CreateState \/ CreatedState \/ Notify \/ Fail

ServingSpec == ServingInit /\ [][ServingNext]_servingVars

\* What the code owes without anybody's help: a call that has begun goes on, and
\* start and create_state finish with the journal they have.
FairServing ==
  ServingSpec /\ WF_servingVars(Handle \/ Started \/ NotApplied \/ CreatedState)

-----------------------------------------------------------------------------
(* Properties *)

Undamaged == acked # << >> /\ rowFaults = 0 /\ slotFaults = 0

\* Admissions are taken, and start is not about to close the journal.
Serves == pc = "ready" /\ ~(stage = "start" /\ resume)

\* The restart record every open writes no longer fits.
Exhausted == Len(rows) >= MaxCommits

\* Whatever crashes, failed writes, holds and refused starts came before, the next
\* start of an undamaged journal serves it, if its command has no token, nothing
\* fails from here on and the restart record fits (_open_verified,
\* _run_restart_recovery, start).
Recovers ==
  \A n \in 0..MaxTrouble :
    [](/\ pc = "down" /\ Undamaged /\ ~Exhausted
       /\ [](trouble = n /\ token = << >>)
       /\ <>(pc # "down")
       => <>(Serves \/ ~Undamaged))

\* A resume is applied to exactly what the operator inspected: between the head
\* the token names and the resume lies the restart of that same start and
\* nothing else, however often the command is repeated (_open_verified,
\* _resume_at_open).
ResumesInspected ==
  [][stage # "resumed" /\ stage' = "resumed" =>
       Len(projection') = Len(token) + 2 /\ IsPrefix(token, projection')]_servingVars

\* What only the operator can do: start a process that ended, end one that
\* answers 503, and not insist on a resume token.
OperatorAttends ==
  /\ []<>(pc # "down")
  /\ []<>(pc # "held")
  /\ <>[](token = << >>)

\* docs/recovery-journal.md says of the process holds, journal_capacity_recovery
\* among them, that they clear on reopen: a process that was held on one serves
\* again once the operator has reopened the journal.
ProcessHoldsClear ==
  OperatorAttends =>
    (Undamaged /\ pc = "held" /\ hold \in ProcessCodes ~> Serves \/ ~Undamaged)

===============================================================================
