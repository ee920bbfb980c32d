------------------------------ MODULE Terminal ------------------------------
(***************************************************************************)
(* The at_terminal example: the threads around the server.  The main       *)
(* thread holds m_mutex except while it waits on the condition variable;   *)
(* it feeds typed lines to the server and polls the I/O emulator, whose    *)
(* threads write the three registers and pace the reads.                   *)
(*                                                                         *)
(* Of the server only the line protocol is kept (LineSession, which Server *)
(* implements), and of its commands the asynchronous one, TEST4_ASYNC,     *)
(* with its handlers.  Main never lets go of m_mutex while it feeds a line *)
(* and every flag but m_write_ongoing and m_write_terminated is accessed   *)
(* with m_mutex held, so a critical section of another thread is one step. *)
(***************************************************************************)
EXTENDS Naturals, Sequences

CONSTANTS
    Values,    \* numbers a register can be given
    Lines,     \* lines that are typed: [lead, cmds], see LineType
    Checks,    \* times a writer sleeps and looks at m_write_terminated: 10
    Patient    \* the client types only while no line is being executed

Registers == 0 .. 2
Read      == [type |-> "read"]
Writes    == [type : {"write"}, params : [Registers -> Values]]
Commands  == {Read} \cup Writes

(* lead: a character comes before AT.  A line without commands is empty.   *)
LineType == [lead : BOOLEAN, cmds : Seq(Commands)]

ASSUME ValuesAssumption  == 0 \in Values
ASSUME ChecksAssumption  == Checks \in Nat \ {0}
ASSUME LinesAssumption   == Lines \subseteq LineType
ASSUME PatientAssumption == Patient \in BOOLEAN

NoLine  == [lead |-> FALSE, cmds |-> <<>>]
Threads == {0, 1}      \* a new writer starts before the last one is waited for

VARIABLES
    main,      \* where the main thread is
    after,     \* where it goes when the server returns
    notified,  \* it has been woken from l_cond.wait
    input,     \* the thread that reads a line
    m_line,    \* the line it has read
    m_ready,
    srv,       \* the server: "idle", "run" or suspended in the command
    m_cmds,    \* the commands of the line in the buffer
    m_index,   \* the command being executed
    reply,     \* the last result code printed
    shown,     \* what the last read printed
    l_write_index,
    m_d,       \* the registers
    m_write_ongoing, m_write_done, m_write_terminated, m_read_done,
    m_write_future,  \* the writer the future holds
    writer     \* the writers: [pc, index, data, left]

mainVars   == <<main, after, notified>>
inputVars  == <<input, m_line, m_ready>>
serverVars == <<srv, m_cmds, m_index, reply, shown>>
flags      == <<m_write_ongoing, m_write_done, m_write_terminated, m_read_done>>
writerVars == <<m_write_future, writer>>
vars == <<mainVars, inputVars, serverVars, l_write_index, m_d, flags,
          writerVars>>

MainPcs    == {"wait", "line", "feed", "exec", "assign", "get", "poll", "poll2"}
WriterPcs  == {"none", "lock", "check", "clear", "store", "notify", "unlock"}
WriterType == [pc : WriterPcs, index : Registers, data : Values, left : 0 .. Checks]

MainTypeOK ==
    /\ main \in MainPcs
    /\ after \in {"poll", "poll2", "wait"}
    /\ notified \in BOOLEAN
InputTypeOK ==
    /\ input \in {"getline", "lock", "done"}
    /\ m_line \in Lines \cup {NoLine}
    /\ m_ready \in BOOLEAN
ServerTypeOK ==
    /\ srv \in {"idle", "run", "write", "read"}
    /\ m_cmds \in Seq(Commands)
    /\ m_index \in Nat
    /\ reply \in {"none", "OK", "ERROR"}
    /\ shown \in [Registers -> Values]
    /\ l_write_index \in Registers
FlagTypeOK ==
    /\ m_d \in [Registers -> Values]
    /\ m_write_ongoing \in BOOLEAN /\ m_write_done \in BOOLEAN
    /\ m_write_terminated \in BOOLEAN /\ m_read_done \in BOOLEAN
WriterTypeOK ==
    /\ m_write_future \in Threads
    /\ writer \in [Threads -> WriterType]
TypeOK == MainTypeOK /\ InputTypeOK /\ ServerTypeOK /\ FlagTypeOK /\ WriterTypeOK

Zero == [r \in Registers |-> 0]
NoWriter == [pc |-> "none", index |-> 0, data |-> 0, left |-> 0]

Init ==
    /\ main = "wait" /\ after = "wait" /\ notified = FALSE
    /\ input = "getline" /\ m_line = NoLine /\ m_ready = FALSE
    /\ srv = "idle" /\ m_cmds = <<>> /\ m_index = 1 /\ reply = "none"
    /\ shown = Zero /\ m_d = Zero
    /\ l_write_index = 0
    /\ m_write_ongoing = FALSE /\ m_write_done = FALSE
    /\ m_write_terminated = FALSE /\ m_read_done = FALSE
    /\ m_write_future = 0
    /\ writer = [w \in Threads |-> NoWriter]

-----------------------------------------------------------------------------
(* The two mutexes.  m_mutex is free exactly while main waits.             *)
MutexFree == main = "wait"
HoldsData(w) == writer[w].pc \in {"check", "clear", "store", "notify", "unlock"}
DataFree == \A w \in Threads : ~HoldsData(w)

(* Mutant of Notify: a wake-up that is not kept. *)
NotifyNobody == notified' = FALSE
(* m_cond.notify_all, by a thread that has m_mutex. *)
Notify == notified' = TRUE

-----------------------------------------------------------------------------
(* AsyncInput. *)

(* std::getline returns a line.  A patient client waits for its answer.    *)
TypeLine ==
    /\ input = "getline"
    /\ Patient => srv = "idle" /\ main # "feed"
    /\ m_line' \in Lines
    /\ input' = "lock"
    /\ UNCHANGED <<mainVars, m_ready, serverVars, l_write_index, m_d,
                   flags, writerVars>>

PostLine ==
    /\ input = "lock" /\ MutexFree
    /\ m_ready' = TRUE
    /\ input' = "done"
    /\ Notify
    /\ UNCHANGED <<main, after, m_line, serverVars, l_write_index, m_d,
                   flags, writerVars>>

-----------------------------------------------------------------------------
(* The threads of AsyncIoEmulator. *)

(* read_: sleeps and reports, for ever. *)
ReadTick ==
    /\ MutexFree
    /\ m_read_done' = TRUE
    /\ Notify
    /\ UNCHANGED <<main, after, inputVars, serverVars, l_write_index,
                   m_d, m_write_ongoing, m_write_done, m_write_terminated,
                   writerVars>>

WriterGoto(w, pc) == writer' = [writer EXCEPT ![w].pc = pc]
WriterOnly == UNCHANGED <<inputVars, serverVars, l_write_index,
                          m_write_terminated, m_read_done, m_write_future>>

WriterLock(w) ==
    /\ writer[w].pc = "lock" /\ DataFree
    /\ WriterGoto(w, "check")
    /\ WriterOnly /\ UNCHANGED <<mainVars, m_d, m_write_ongoing, m_write_done>>

(* Mutant of WriterCheck: one turn too many. *)
WriterCheckLate(w) ==
    /\ writer[w].pc = "check"
    /\ \/ /\ m_write_terminated
          /\ WriterGoto(w, "clear")
       \/ /\ ~m_write_terminated
          /\ writer' = [writer EXCEPT ![w].left = @ - 1,
                                      ![w].pc = IF writer[w].left = 0 THEN "store" ELSE @]
    /\ WriterOnly /\ UNCHANGED <<mainVars, m_d, m_write_ongoing, m_write_done>>
(* One turn of the loop. *)
WriterCheck(w) ==
    /\ writer[w].pc = "check"
    /\ \/ /\ m_write_terminated
          /\ WriterGoto(w, "clear")
       \/ /\ ~m_write_terminated
          /\ writer' = [writer EXCEPT ![w].left = @ - 1,
                                      ![w].pc = IF writer[w].left = 1 THEN "store" ELSE @]
    /\ WriterOnly /\ UNCHANGED <<mainVars, m_d, m_write_ongoing, m_write_done>>

(* Mutant of WriterClear: a terminated writer leaves m_write_ongoing set. *)
WriterForgets(w) ==
    /\ writer[w].pc = "clear"
    /\ WriterGoto(w, "unlock")
    /\ WriterOnly /\ UNCHANGED <<mainVars, m_d, m_write_ongoing, m_write_done>>
WriterClear(w) ==
    /\ writer[w].pc = "clear"
    /\ m_write_ongoing' = FALSE
    /\ WriterGoto(w, "unlock")
    /\ WriterOnly /\ UNCHANGED <<mainVars, m_d, m_write_done>>

WriterStore(w) ==
    /\ writer[w].pc = "store"
    /\ m_d' = [m_d EXCEPT ![writer[w].index] = writer[w].data]
    /\ WriterGoto(w, "notify")
    /\ WriterOnly /\ UNCHANGED <<mainVars, m_write_ongoing, m_write_done>>

WriterNotify(w) ==
    /\ writer[w].pc = "notify" /\ MutexFree
    /\ m_write_done' = TRUE
    /\ Notify
    /\ WriterGoto(w, "unlock")
    /\ WriterOnly /\ UNCHANGED <<main, after, m_d, m_write_ongoing>>

WriterEnd(w) ==
    /\ writer[w].pc = "unlock"
    /\ writer' = [writer EXCEPT ![w] = NoWriter]
    /\ WriterOnly /\ UNCHANGED <<mainVars, m_d, m_write_ongoing, m_write_done>>

Writer(w) == \/ WriterLock(w) \/ WriterCheck(w) \/ WriterClear(w)
             \/ WriterStore(w) \/ WriterNotify(w) \/ WriterEnd(w)

-----------------------------------------------------------------------------
(* The calls main makes on the emulator. *)

(* write(), with m_write_ongoing and m_write_done as it finds them: a       *)
(* thread is started, and then the future assigned, which waits for the    *)
(* thread the future held.  While a write is ongoing it does nothing.      *)
StartWrite(ongoing, done, r, n) ==
    IF ongoing
    THEN /\ m_write_ongoing' = TRUE /\ m_write_done' = done
         /\ UNCHANGED <<m_write_terminated, writerVars>>
    ELSE /\ m_write_ongoing' = TRUE /\ m_write_done' = FALSE
         /\ m_write_terminated' = FALSE
         /\ m_write_future' = 1 - m_write_future
         /\ writer' = [writer EXCEPT ![1 - m_write_future] =
                [pc |-> "lock", index |-> r, data |-> n, left |-> Checks]]

-----------------------------------------------------------------------------
(* The main thread. *)

(* l_cond.wait returns, notified or not, and has m_mutex again. *)
Wake ==
    /\ main = "wait"
    /\ main' = "line"
    /\ notified' = FALSE
    /\ UNCHANGED <<after, inputVars, serverVars, l_write_index, m_d, flags,
                   writerVars>>

(* Mutant of AbortReply: the result of an abort is not printed. *)
NoAbortReply == "none"
AbortReply   == "ERROR"

(* getLine: the next line is asked for as soon as one is taken.  A line    *)
(* fed while a command is suspended aborts it with its first character:    *)
(* onWrite terminates the write and answers ERROR, onRead goes on.         *)
GetLine ==
    /\ main = "line"
    /\ \/ /\ ~m_ready
          /\ main' = "poll"
          /\ UNCHANGED <<inputVars, srv, reply, m_cmds, m_write_terminated>>
       \/ /\ m_ready
          /\ m_ready' = FALSE
          /\ input' = "getline"
          /\ m_line' = NoLine
          /\ \/ /\ srv = "idle"
                /\ m_cmds' = m_line.cmds
                /\ main' = "feed"
                /\ UNCHANGED <<srv, reply, m_write_terminated>>
             \/ /\ srv = "write"
                /\ m_write_terminated' = TRUE
                /\ srv' = "idle"
                /\ reply' = AbortReply
                /\ m_cmds' = IF m_line.lead THEN m_line.cmds ELSE <<>>
                /\ main' = "feed"
             \/ /\ srv = "read"
                /\ main' = "poll"
                /\ UNCHANGED <<srv, reply, m_cmds, m_write_terminated>>
    /\ UNCHANGED <<after, notified, m_index, shown, l_write_index, m_d,
                   m_write_ongoing, m_write_done, m_read_done, writerVars>>

(* The rest of the line reaches the server. *)
FeedLine ==
    /\ main = "feed"
    /\ \/ /\ m_cmds = <<>>
          /\ main' = "poll"
          /\ UNCHANGED <<after, srv, m_index, reply>>
       \/ /\ m_cmds # <<>>
          /\ srv' = "run"
          /\ m_index' = 1
          /\ reply' = "none"
          /\ main' = "exec"
          /\ after' = "poll"
    /\ UNCHANGED <<notified, inputVars, m_cmds, shown, l_write_index, m_d,
                   flags, writerVars>>

(* The server's execution loop: the next command is requested.             *)
Exec ==
    /\ main = "exec"
    /\ \/ /\ m_index > Len(m_cmds)
          /\ srv' = "idle"
          /\ reply' = "OK"
          /\ main' = after
          /\ UNCHANGED <<l_write_index, flags, writerVars>>
       \/ /\ m_index <= Len(m_cmds)
          /\ m_cmds[m_index].type = "write"
          /\ l_write_index' = 0
          /\ StartWrite(m_write_ongoing, m_write_done, 0, m_cmds[m_index].params[0])
          /\ srv' = "write"
          /\ main' = "assign"
          /\ UNCHANGED <<reply, m_read_done>>
       \/ /\ m_index <= Len(m_cmds)
          /\ m_cmds[m_index].type = "read"
          /\ m_read_done' = FALSE
          /\ srv' = "read"
          /\ main' = after
          /\ UNCHANGED <<reply, l_write_index, m_write_ongoing, m_write_done,
                         m_write_terminated, writerVars>>
    /\ UNCHANGED <<after, notified, inputVars, m_cmds, m_index, shown, m_d>>

(* write() returns when the thread before the new one has ended. *)
Assign ==
    /\ main = "assign"
    /\ writer[1 - m_write_future].pc = "none"
    /\ main' = after
    /\ UNCHANGED <<after, notified, inputVars, serverVars, l_write_index,
                   m_d, flags, writerVars>>

(* Mutant of LastIndex: the third register is not waited for. *)
LastIndexEarly == 1
LastIndex      == 2

(* poll(), first half: the end of a write, whichever it was, resumes a     *)
(* line that is suspended in a write.  onWrite then writes the next        *)
(* register or says OK.                                                    *)
Poll ==
    /\ main = "poll"
    /\ \/ /\ ~m_write_done
          /\ main' = "poll2"
          /\ UNCHANGED <<after, srv, m_index, l_write_index, m_write_ongoing,
                         m_write_done, m_write_terminated, writerVars>>
       \/ /\ m_write_done /\ srv # "write"
          /\ m_write_ongoing' = FALSE /\ m_write_done' = FALSE
          /\ main' = "poll2"
          /\ UNCHANGED <<after, srv, m_index, l_write_index, m_write_terminated,
                         writerVars>>
       \/ /\ m_write_done /\ srv = "write" /\ l_write_index = LastIndex
          /\ m_write_ongoing' = FALSE /\ m_write_done' = FALSE
          /\ srv' = "run"
          /\ m_index' = m_index + 1
          /\ main' = "exec"
          /\ after' = "poll2"
          /\ UNCHANGED <<l_write_index, m_write_terminated, writerVars>>
       \/ /\ m_write_done /\ srv = "write" /\ l_write_index # LastIndex
          /\ l_write_index' = l_write_index + 1
          /\ StartWrite(FALSE, FALSE, l_write_index + 1,
                        m_cmds[m_index].params[l_write_index + 1])
          /\ main' = "assign"
          /\ after' = "poll2"
          /\ UNCHANGED <<srv, m_index>>
    /\ UNCHANGED <<notified, inputVars, m_cmds, reply, shown, m_d, m_read_done>>

(* Mutant of ReadResumes: the update resumes any command. *)
ReadResumesAny == m_read_done /\ srv \in {"read", "write"}
ReadResumes    == m_read_done /\ srv = "read"

(* poll(), second half: m_read_done stays set, and resumes a line that is  *)
(* suspended in a read.                                                    *)
Poll2 ==
    /\ main = "poll2"
    /\ main' = IF ReadResumes THEN "get" ELSE "wait"
    /\ UNCHANGED <<after, notified, inputVars, serverVars, l_write_index,
                   m_d, flags, writerVars>>

(* onRead takes the registers and prints them. *)
Get ==
    /\ main = "get" /\ DataFree
    /\ shown' = m_d
    /\ srv' = "run"
    /\ m_index' = m_index + 1
    /\ main' = "exec"
    /\ after' = "wait"
    /\ UNCHANGED <<notified, inputVars, m_cmds, reply, l_write_index, m_d,
                   flags, writerVars>>

Main == GetLine \/ FeedLine \/ Exec \/ Assign \/ Poll \/ Poll2 \/ Get

Next == \/ TypeLine \/ PostLine \/ ReadTick \/ Wake \/ Main
        \/ \E w \in Threads : Writer(w)

Spec == Init /\ [][Next]_vars

(* Threads run, and one that waits for a mutex that is free again and      *)
(* again gets it (the holders sleep for a tenth of a second and more); a   *)
(* wake-up without a notification, and a client, are owed to nobody.       *)
Fairness ==
    /\ WF_vars(Main)
    /\ SF_vars(Wake /\ notified)
    /\ SF_vars(PostLine)
    /\ SF_vars(ReadTick)
    /\ \A w \in Threads : /\ WF_vars(WriterCheck(w) \/ WriterClear(w)
                                   \/ WriterStore(w) \/ WriterEnd(w))
                         /\ SF_vars(WriterLock(w))
                         /\ SF_vars(WriterNotify(w))
FairSpec == Spec /\ Fairness

-----------------------------------------------------------------------------
(* Safety. *)

(* No event is slept through: while main waits and has not been woken,     *)
(* there is no line, no ended write, and no read report it asked for.      *)
NothingSleptThrough ==
    main = "wait" /\ ~notified =>
      ~m_ready /\ ~m_write_done /\ (srv = "read" => ~m_read_done)

(* m_write_ongoing says truly whether a write is under way: it is refused  *)
(* writes only while a thread is at work, or has ended and is about to be  *)
(* polled, and then there is one such thread.                              *)
AtWork(w) == writer[w].pc \in {"lock", "check", "clear", "store", "notify"}
OneWriteAtATime ==
    /\ m_write_ongoing <=> m_write_done \/ \E w \in Threads : AtWork(w)
    /\ \A w \in Threads : AtWork(w) => ~m_write_done /\ ~AtWork(1 - w)

(* Main, which holds m_mutex, never waits for the registers of a writer    *)
(* that waits for m_mutex, nor in write() for such a writer to end.        *)
LocksInOrder ==
    \A w \in Threads :
       writer[w].pc = "notify" => main # "get" /\ ~(main = "assign" /\ w # m_write_future)

-----------------------------------------------------------------------------
(* Action properties. *)

(* A line is answered OK when the registers hold what its last write said, *)
(* and what a later read on it printed was that.                           *)
Stored ==
    \A i \in DOMAIN m_cmds :
       /\ m_cmds[i].type = "write"
       /\ \A j \in DOMAIN m_cmds : j > i => m_cmds[j] = Read
       => /\ m_d = m_cmds[i].params
          /\ i < Len(m_cmds) => shown = m_d
AnsweredOK == reply' = "OK" /\ srv = "run" /\ srv' = "idle"
OKMeansStored == [][AnsweredOK => Stored]_vars

(* The server, as the example uses it, keeps to the line protocol. *)
Session == INSTANCE LineSession WITH
    Results <- {"OK", "ERROR"},
    Error   <- "ERROR",
    NoReply <- "none",
    phase   <- IF srv \in {"write", "read"} THEN "wait" ELSE srv,
    failed  <- FALSE,
    reply   <- reply
ImplementsSession == Session!SessionSpec

-----------------------------------------------------------------------------
(* Liveness. *)

(* A line is answered: the threads do not wait for each other, and no      *)
(* report is lost.                                                         *)
LineAnswered == srv # "idle" ~> srv = "idle"
=============================================================================
