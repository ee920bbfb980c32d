------------------------------ MODULE Responses ------------------------------
(***************************************************************************)
(* What a client reads while its line runs.  Handlers print information    *)
(* texts, objects that frame what is printed between their construction    *)
(* and their destruction; the text of a result code is silenced, by        *)
(* exchanging the callback that prints, unless its command is the last of  *)
(* the line; the executor prints S parameters, the answers to test         *)
(* commands and the result code.                                           *)
(*                                                                         *)
(* The characters of a text, of a number and of a name are one token each. *)
(* "S3" and "S4" are the two characters of the frames, whatever their      *)
(* values: that they differ and occur in no text is assumed.  The echo is  *)
(* off.                                                                    *)
(***************************************************************************)
EXTENDS Server, SequencesExt

CONSTANT MaxTexts   \* bound on the texts of a line

ASSUME MaxTextsAssumption == MaxTexts \in Nat

(* How the codes that handlers may return are printed without words.  "OK" *)
(* stands for the others that have a text, as in ServerCmdline.            *)
RESULT_CODE == [OK |-> "0", ERROR |-> "4"]

VARIABLES
    m_verbose,
    m_print_char_callback,  \* the server's own or the empty one
    text,     \* the information text that exists, NoText if none does
    calling,  \* the handler called to abort its command has begun
    out,      \* what was printed for the line
    said,     \* what was to be printed, one entry for each frame
    shown     \* the command that printed a result text that was not silenced

printVars == <<m_verbose, m_print_char_callback, text, calling, out, said, shown>>
allVars   == <<vars, printVars>>

NoText    == [is_result_code |-> FALSE, callback |-> "none"]
NoCommand == -1

ResponsesInit ==
    /\ Init
    /\ m_verbose = TRUE
    /\ m_print_char_callback = "own"
    /\ text = NoText
    /\ calling = FALSE
    /\ out = <<>> /\ said = <<>>
    /\ shown = NoCommand

-----------------------------------------------------------------------------
(* Frames. *)
PrintResultCodeHeader  == IF m_verbose THEN <<"S3", "S4">> ELSE <<>>
PrintResultCodeTrailer == IF m_verbose THEN <<"S3", "S4">> ELSE <<"S3">>
PrintInformationTextHeader  == PrintResultCodeHeader
PrintInformationTextTrailer == <<"S3", "S4">>

InformationText(body) ==
    PrintInformationTextHeader \o body \o PrintInformationTextTrailer

PrintResultCode(c) ==
    PrintResultCodeHeader
      \o <<IF m_verbose THEN c ELSE RESULT_CODE[c]>>
      \o PrintResultCodeTrailer

-----------------------------------------------------------------------------
(* Handlers.  One that runs is called again and again by ExecCommand, or   *)
(* was called by feed() to abort.                                          *)
HandlerRuns ==
    /\ \/ pc = "exec" /\ fault = "none" /\ m_exec_index # m_parse_ok_index
       \/ Idle /\ m_state = "Executing"
    /\ AtCommand /\ ~IsSCmd(CurrentCmdId) /\ ~IsTest(CurrentCmdId)
    /\ text = NoText

IsRead(id) == \E c \in ExtIndices : id = ExtId(c, "READ")

(* makeInformationText, and what is printed into it. *)
MakeInformationText ==
    /\ text' = [is_result_code |-> FALSE, callback |-> m_print_char_callback]
    /\ out' = out \o PrintInformationTextHeader \o <<"text">>
    /\ said' = Append(said, <<"text">>)
    /\ UNCHANGED <<m_print_char_callback, shown>>

(* Mutant of IsSilent: it is the last command that is silenced. *)
IsSilentWhenLast(is_result_code) == is_result_code /\ IsLastCommand
IsSilent(is_result_code) == is_result_code /\ ~IsLastCommand

(* makeParameterInformationText: the base class prints its header, then    *)
(* the callback is kept and, for a silent text, exchanged.                 *)
MakeParameterInformationText(is_result_code) ==
    LET is_silent == IsSilent(is_result_code)
        body      == IF is_silent THEN <<>> ELSE <<"+name:", "parameters">>
        header    == IF is_result_code THEN PrintResultCodeHeader
                                       ELSE PrintInformationTextHeader
    IN  /\ text' = [is_result_code |-> is_result_code, callback |-> m_print_char_callback]
        /\ m_print_char_callback' = IF is_silent THEN "empty" ELSE m_print_char_callback
        /\ out' = out \o header \o body
        /\ said' = Append(said, body)
        /\ shown' = IF is_result_code /\ ~is_silent THEN m_exec_index ELSE shown

PrintText ==
    /\ HandlerRuns
    /\ Len(said) < MaxTexts
    /\ \/ MakeInformationText
       \/ /\ IsRead(CurrentCmdId)
          /\ \E is_result_code \in BOOLEAN : MakeParameterInformationText(is_result_code)
    /\ calling' = (pc = "ret")
    /\ UNCHANGED <<m_verbose, vars>>

(* Mutant of DestroyText: the base class comes first. *)
DestroyTextBaseFirst(trailer) ==
    /\ m_print_char_callback' = text.callback
    /\ out' = IF m_print_char_callback = "own" THEN out \o trailer ELSE out

(* The destructor of the derived class restores the callback, then that of *)
(* the base class prints the trailer.                                      *)
DestroyText(trailer) ==
    /\ m_print_char_callback' = text.callback
    /\ out' = IF m_print_char_callback' = "own" THEN out \o trailer ELSE out

EndText ==
    /\ text # NoText
    /\ text' = NoText
    /\ DestroyText(IF text.is_result_code THEN PrintResultCodeTrailer
                                          ELSE PrintInformationTextTrailer)
    /\ UNCHANGED <<m_verbose, calling, said, shown, vars>>

(* The handler of a basic command like V. *)
SetVerbose ==
    /\ HandlerRuns
    /\ pc = "exec"
    /\ CurrentCmdId > BasicOffset
    /\ m_verbose' = ~m_verbose
    /\ UNCHANGED <<m_print_char_callback, text, calling, out, said, shown, vars>>

-----------------------------------------------------------------------------
(* The server. *)

(* What the executor itself prints for a command, framed; a test handler,  *)
(* if there is one, may give no name.                                      *)
ServerTexts ==
    CASE IsSCmd(CurrentCmdId) /\ SParameter < 128 -> {<<"digits">>}
      [] IsTest(CurrentCmdId) /\ ExtCmds[CurrentCmdId \div 4].count > 0
                                                  -> {<<>>, <<"+name:", "ranges">>}
      [] OTHER                                    -> {<<>>}

Reply(c) == /\ out' = out \o PrintResultCode(c)
            /\ said' = Append(said, <<"result">>)

NoTextLeft == text = NoText /\ UNCHANGED <<m_verbose, m_print_char_callback, text, shown>>

RunCommand ==
    /\ ~calling /\ NoTextLeft
    /\ ExecCommand
    /\ IF reply' # NoReply
       THEN Reply(reply')
       ELSE \E body \in ServerTexts :
              IF body = <<>> THEN UNCHANGED <<out, said>>
              ELSE out' = out \o InformationText(body) /\ said' = Append(said, body)
    /\ UNCHANGED calling

RunEnd == ~calling /\ NoTextLeft /\ ExecEnd /\ Reply(reply') /\ UNCHANGED calling

AbortCommand ==
    /\ NoTextLeft
    /\ Abort
    /\ calling' = FALSE
    /\ IF m_state' = "A" THEN Reply(reply') ELSE UNCHANGED <<out, said>>

(* A character typed clears what was kept of the last line; while a line   *)
(* runs nothing comes of it.                                               *)
Parse ==
    /\ ~calling /\ text = NoText
    /\ (\E c \in Alphabet : Feed(c)) \/ Redispatch \/ FinalizeExtCmd
    /\ IF m_state = "Executing"
       THEN UNCHANGED <<out, said, shown>>
       ELSE out' = <<>> /\ said' = <<>> /\ shown' = NoCommand
    /\ UNCHANGED <<m_verbose, m_print_char_callback, text, calling>>

Completed ==
    /\ ~calling /\ text = NoText
    /\ \E id \in Asynchronous : Update(id)
    /\ UNCHANGED printVars

ResponsesNext == \/ PrintText \/ EndText \/ SetVerbose
                 \/ RunCommand \/ RunEnd \/ AbortCommand \/ Parse \/ Completed

ResponsesSpec == ResponsesInit /\ [][ResponsesNext]_allVars

-----------------------------------------------------------------------------
(* A client that knows the two characters but not when texts are switched  *)
(* on and off: a frame begins with both or with the text itself, and the   *)
(* text goes to the next S3 and the S4 behind it, if there is one.         *)
S3s(o, i)       == {j \in i .. Len(o) : o[j] = "S3"}
BothAt(o, i)    == i < Len(o) /\ o[i] = "S3" /\ o[i + 1] = "S4"
TextFrom(o, i)  == IF BothAt(o, i) THEN i + 2 ELSE i
TextEnd(o, i)   == Min(S3s(o, TextFrom(o, i)))
NextFrame(o, i) == TextEnd(o, i) + (IF BothAt(o, TextEnd(o, i)) THEN 2 ELSE 1)

(* What is read at i is not a frame. *)
Garbled(o, i) == \/ S3s(o, TextFrom(o, i)) = {}
                 \/ BothAt(o, i) /\ ~BothAt(o, TextEnd(o, i))

Frames(o) ==
    LET read[i \in 1 .. Len(o) + 1] ==
          IF i > Len(o) THEN <<>>
          ELSE IF Garbled(o, i) THEN << <<"garbled">> >>
          ELSE <<SubSeq(o, TextFrom(o, i), TextEnd(o, i) - 1)>> \o read[NextFrame(o, i)]
    IN  read[1]

ResultTexts == DOMAIN RESULT_CODE \cup {RESULT_CODE[c] : c \in DOMAIN RESULT_CODE}
Heard(frame) == IF Len(frame) = 1 /\ frame[1] \in ResultTexts THEN <<"result">> ELSE frame

(* A client reads every text and the result code as what was printed, in   *)
(* order and nothing else, although handlers switch result codes between   *)
(* words and digits and texts of inner commands are silenced.              *)
ClientReadsBack ==
    LET frames == Frames(out)
    IN  text = NoText => [i \in DOMAIN frames |-> Heard(frames[i])] = said

(* A command whose result text was printed is the last one that runs.      *)
ResultTextIsLast ==
    m_state = "Executing" /\ shown # NoCommand =>
        m_exec_index \in {shown, m_parse_ok_index}
=============================================================================
