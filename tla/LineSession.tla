---------------------------- MODULE LineSession ----------------------------
(***************************************************************************)
(* What the server promises its client about a command line, with nothing  *)
(* said about commands, parameters or buffers: a line is entered, possibly *)
(* spoiled, submitted once, possibly suspended, and gets one result code;  *)
(* a spoiled line is never answered with success unless it is aborted.     *)
(***************************************************************************)
CONSTANTS Results, Error, NoReply   \* final result codes; the failure; none

VARIABLES
    phase,   \* "idle", "entry", "run", "wait"
    failed,  \* the line in hand is to be answered with Error
    reply    \* answer to the last line run

sessionVars == <<phase, failed, reply>>

Phases == {"idle", "entry", "run", "wait"}

SessionTypeOK ==
    /\ phase \in Phases
    /\ failed \in BOOLEAN
    /\ reply \in Results \cup {NoReply}

SessionInit == phase = "idle" /\ failed = FALSE /\ reply = NoReply

Open == /\ phase = "idle"
        /\ phase' = "entry"
        /\ failed' = FALSE
        /\ UNCHANGED reply

Spoil == /\ phase = "entry"
         /\ failed' = TRUE
         /\ UNCHANGED <<phase, reply>>

(* The line ends; what is still wrong with it may show only now. *)
Submit == /\ phase = "entry"
          /\ phase' = "run"
          /\ failed' \in {failed, TRUE}
          /\ reply' = NoReply

(* The last line is run again, and judged again. *)
Repeat == /\ phase = "idle"
          /\ phase' = "run"
          /\ failed' = FALSE
          /\ reply' = NoReply

Suspend == phase = "run" /\ phase' = "wait" /\ UNCHANGED <<failed, reply>>
Resume  == phase = "wait" /\ phase' = "run" /\ UNCHANGED <<failed, reply>>

Answer(code) == /\ phase' = "idle"
                /\ failed' = FALSE
                /\ reply' = code

Complete(code) == phase = "run" /\ (failed => code = Error) /\ Answer(code)
Abort(code)    == phase = "wait" /\ Answer(code)

SessionNext == \/ Open \/ Spoil \/ Submit \/ Repeat \/ Suspend \/ Resume
               \/ \E code \in Results : Complete(code) \/ Abort(code)

SessionSpec == SessionInit /\ [][SessionNext]_sessionVars
=============================================================================
