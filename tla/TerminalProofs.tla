--------------------------- MODULE TerminalProofs ---------------------------
(***************************************************************************)
(* Proofs about the threads of the terminal example, for any registers'    *)
(* values, any lines, any number of checks and either kind of client.      *)
(*                                                                         *)
(* The argument has two layers.  IInv holds of every client: what main has *)
(* seen since it was woken cannot become true again while it holds m_mutex *)
(* (Seen), so it goes back to sleep with nothing to do; and a write counts *)
(* as ongoing exactly while one thread works for it (OneWriteAtATime).     *)
(* PInv adds what a patient client buys: a thread at work belongs to the   *)
(* command in hand and writes the register that command is at (InHand), so *)
(* what is done of the line is in the registers (DoneSoFar).  Of every     *)
(* client, each step is one of the line protocol or leaves it alone        *)
(* (TerminalKeepsProtocol).                                                *)
(***************************************************************************)
EXTENDS Terminal, TLAPS

(* The command the server is suspended in, and the calls main is inside. *)
AtCommand ==
    /\ m_index >= 1
    /\ srv \in {"write", "read"} =>
          m_index <= Len(m_cmds) /\ m_cmds[m_index].type = srv
    /\ srv = "run" => m_index <= Len(m_cmds) + 1
    /\ main = "exec" <=> srv = "run"
    /\ main = "get" => srv = "read"
    /\ main = "assign" => srv = "write"
    /\ main = "feed" => srv = "idle"

(* What main has seen since it was woken. *)
Seen ==
    /\ main \notin {"wait", "line"} => ~m_ready
    /\ main \in {"poll2", "get"} \/ (main \in {"exec", "assign"} /\ after # "poll")
          => ~m_write_done
    /\ main \in {"exec", "assign"} => after \in {"poll", "poll2", "wait"}

Work ==
    /\ OneWriteAtATime
    /\ \A w \in Threads : AtWork(w) => w = m_write_future

TurnsLeft ==
    \A w \in Threads : writer[w].pc \in {"lock", "check"} => writer[w].left >= 1

(* What a patient client adds.  A line is typed while nothing is executed. *)
Waiting ==
    /\ input # "getline" => srv = "idle" /\ main # "feed"
    /\ m_ready => input # "getline"
    /\ ~m_write_terminated
    /\ \A w \in Threads : writer[w].pc # "clear"
    /\ m_write_ongoing <=> srv = "write"

(* The write in hand: the registers before the one it is at are written,   *)
(* and the thread at work writes that one.                                 *)
Param == m_cmds[m_index].params
InHand ==
    srv = "write" =>
      /\ \A r \in Registers : r < l_write_index => m_d[r] = Param[r]
      /\ m_write_done => m_d[l_write_index] = Param[l_write_index]
      /\ \A w \in Threads : AtWork(w) =>
            /\ writer[w].index = l_write_index
            /\ writer[w].data = Param[l_write_index]
            /\ writer[w].pc = "notify" => m_d[l_write_index] = Param[l_write_index]

(* The first n commands of the line are done, and can be seen to be.       *)
DoneSoFar(n) ==
    \A i \in 1 .. n :
       /\ m_cmds[i].type = "write"
       /\ \A j \in 1 .. n : j > i => m_cmds[j] = Read
       => /\ m_d = m_cmds[i].params
          /\ i < n => shown = m_d
Done == srv \in {"run", "read"} => DoneSoFar(m_index - 1)

IInv == TypeOK /\ AtCommand /\ Seen /\ NothingSleptThrough /\ Work /\ TurnsLeft
PInv == IInv /\ Waiting /\ InHand /\ Done

-----------------------------------------------------------------------------
LEMMA ThreadsAre == Threads = {0, 1} /\ \A w \in Threads : 1 - w \in Threads /\ 1 - w # w
BY DEF Threads

LEMMA CommandTypes ==
    \A c \in Commands : /\ c.type \in {"read", "write"}
                        /\ c.type = "write" => c.params \in [Registers -> Values]
                        /\ c.type = "read" => c = Read
BY DEF Commands, Read, Writes

LEMMA InitLemma == Init => IInv
<1> SUFFICES ASSUME Init PROVE IInv
  OBVIOUS
<1> USE DEF Init
<1>1. TypeOK
  BY ValuesAssumption, ChecksAssumption
     DEF TypeOK, MainTypeOK, InputTypeOK, ServerTypeOK, FlagTypeOK, WriterTypeOK,
         Zero, NoWriter, WriterType, WriterPcs, MainPcs, Threads, Registers, NoLine
<1>2. AtCommand /\ Seen /\ NothingSleptThrough
  BY DEF AtCommand, Seen, NothingSleptThrough
<1>3. Work /\ TurnsLeft
  BY DEF Work, TurnsLeft, OneWriteAtATime, AtWork, NoWriter
<1> QED BY <1>1, <1>2, <1>3 DEF IInv

-----------------------------------------------------------------------------
(* Typing. *)
LEMMA Frame ==
    /\ MainTypeOK /\ UNCHANGED mainVars => MainTypeOK'
    /\ InputTypeOK /\ UNCHANGED inputVars => InputTypeOK'
    /\ ServerTypeOK /\ UNCHANGED <<serverVars, l_write_index>> => ServerTypeOK'
    /\ FlagTypeOK /\ UNCHANGED <<m_d, flags>> => FlagTypeOK'
    /\ WriterTypeOK /\ UNCHANGED writerVars => WriterTypeOK'
<1>1. MainTypeOK /\ UNCHANGED mainVars => MainTypeOK'
  BY DEF MainTypeOK, mainVars
<1>2. InputTypeOK /\ UNCHANGED inputVars => InputTypeOK'
  BY DEF InputTypeOK, inputVars
<1>3. ServerTypeOK /\ UNCHANGED <<serverVars, l_write_index>> => ServerTypeOK'
  BY DEF ServerTypeOK, serverVars
<1>4. FlagTypeOK /\ UNCHANGED <<m_d, flags>> => FlagTypeOK'
  BY DEF FlagTypeOK, flags
<1>5. WriterTypeOK /\ UNCHANGED writerVars => WriterTypeOK'
  BY DEF WriterTypeOK, writerVars
<1> QED BY <1>1, <1>2, <1>3, <1>4, <1>5

LEMMA StartWriteType ==
    ASSUME TypeOK, NEW on \in BOOLEAN, NEW done \in BOOLEAN,
           NEW r \in Registers, NEW n \in Values, StartWrite(on, done, r, n)
    PROVE  /\ m_write_ongoing' \in BOOLEAN /\ m_write_done' \in BOOLEAN
           /\ m_write_terminated' \in BOOLEAN
           /\ WriterTypeOK'
<1> USE DEF TypeOK, FlagTypeOK, WriterTypeOK
<1>1. CASE on
  BY <1>1 DEF StartWrite, writerVars
<1>2. CASE ~on
  <2>1. [pc |-> "lock", index |-> r, data |-> n, left |-> Checks] \in WriterType
    BY ChecksAssumption DEF WriterType, WriterPcs
  <2> QED BY <1>2, <2>1, ThreadsAre DEF StartWrite
<1> QED BY <1>1, <1>2

LEMMA WriterTypeLemma == ASSUME TypeOK, TurnsLeft, NEW w \in Threads, Writer(w) PROVE TypeOK'
<1> USE DEF TypeOK
<1>1. InputTypeOK' /\ ServerTypeOK'
  BY Frame DEF Writer, WriterLock, WriterCheck, WriterClear, WriterStore, WriterNotify,
               WriterEnd, WriterOnly
<1>2. MainTypeOK'
  BY DEF Writer, WriterLock, WriterCheck, WriterClear, WriterStore, WriterNotify,
         WriterEnd, mainVars, MainTypeOK, Notify
<1>3. writer[w] \in WriterType
  BY DEF WriterTypeOK
<1>4. m_d' \in [Registers -> Values]
  <2>1. CASE WriterStore(w)
    BY <2>1, <1>3 DEF WriterStore, FlagTypeOK, WriterType
  <2>2. CASE ~WriterStore(w)
    BY <2>2 DEF Writer, WriterLock, WriterCheck, WriterClear, WriterNotify, WriterEnd,
                FlagTypeOK
  <2> QED BY <2>1, <2>2
<1>5. /\ m_write_ongoing' \in BOOLEAN /\ m_write_done' \in BOOLEAN
      /\ m_write_terminated' \in BOOLEAN /\ m_read_done' \in BOOLEAN
  BY DEF Writer, WriterLock, WriterCheck, WriterClear, WriterStore, WriterNotify,
         WriterEnd, WriterOnly, FlagTypeOK
<1>6. writer' \in [Threads -> WriterType]
  <2> USE DEF WriterTypeOK
  <2>1. CASE WriterCheck(w)
    <3>1. writer[w].left # 0 /\ writer[w].left - 1 \in 0 .. Checks
      BY <2>1, <1>3, ChecksAssumption DEF WriterCheck, WriterType, TurnsLeft
    <3> QED BY <2>1, <1>3, <3>1 DEF WriterCheck, WriterGoto, WriterType, WriterPcs
  <2>2. CASE WriterEnd(w)
    <3>1. NoWriter \in WriterType
      BY ValuesAssumption, ChecksAssumption DEF NoWriter, WriterType, WriterPcs, Registers
    <3> QED BY <2>2, <3>1 DEF WriterEnd
  <2>3. CASE WriterLock(w) \/ WriterClear(w) \/ WriterStore(w) \/ WriterNotify(w)
    BY <2>3, <1>3 DEF WriterLock, WriterClear, WriterStore, WriterNotify, WriterGoto,
                      WriterType, WriterPcs
  <2> QED BY <2>1, <2>2, <2>3 DEF Writer
<1>7. m_write_future' \in Threads
  BY DEF Writer, WriterLock, WriterCheck, WriterClear, WriterStore, WriterNotify,
         WriterEnd, WriterOnly, WriterTypeOK
<1> QED BY <1>1, <1>2, <1>4, <1>5, <1>6, <1>7 DEF FlagTypeOK, WriterTypeOK

(* The loop is at a write command. *)
LEMMA WriteBranch ==
    ASSUME TypeOK, Exec, m_index <= Len(m_cmds), m_cmds[m_index].type = "write"
    PROVE  /\ StartWrite(m_write_ongoing, m_write_done, 0, m_cmds[m_index].params[0])
           /\ l_write_index' = 0 /\ srv' = "write" /\ main' = "assign"
           /\ UNCHANGED <<reply, m_read_done>>
<1>1. ~(m_index > Len(m_cmds))
  BY DEF TypeOK, ServerTypeOK
<1>2. m_cmds[m_index].type # "read"
  OBVIOUS
<1> QED BY <1>1, <1>2 DEF Exec

LEMMA TypeLemma == ASSUME IInv, Next PROVE TypeOK'
<1> USE DEF IInv, TypeOK
<1>1. CASE TypeLine \/ PostLine
  <2>1. InputTypeOK'
    BY <1>1 DEF TypeLine, PostLine, InputTypeOK
  <2>2. MainTypeOK'
    BY <1>1 DEF TypeLine, PostLine, MainTypeOK, mainVars, Notify
  <2> QED BY <1>1, <2>1, <2>2, Frame DEF TypeLine, PostLine
<1>2. CASE ReadTick \/ Wake
  <2>1. MainTypeOK'
    BY <1>2 DEF ReadTick, Wake, MainTypeOK, MainPcs, Notify
  <2>2. FlagTypeOK'
    BY <1>2 DEF ReadTick, Wake, FlagTypeOK, flags
  <2> QED BY <1>2, <2>1, <2>2, Frame DEF ReadTick, Wake
<1>3. ASSUME NEW w \in Threads, Writer(w) PROVE TypeOK'
  BY <1>3, WriterTypeLemma
<1>4. CASE GetLine
  <2>1. m_line.cmds \in Seq(Commands)
    <3>1. NoLine.cmds \in Seq(Commands)
      BY DEF NoLine
    <3>2. \A l \in Lines : l.cmds \in Seq(Commands)
      BY LinesAssumption DEF LineType
    <3> QED BY <3>1, <3>2 DEF InputTypeOK
  <2>2. m_cmds' \in Seq(Commands)
    <3>1. m_cmds' \in {m_cmds, m_line.cmds, <<>>}
      BY <1>4 DEF GetLine
    <3>2. m_cmds \in Seq(Commands) /\ <<>> \in Seq(Commands)
      BY DEF ServerTypeOK
    <3> QED BY <3>1, <3>2, <2>1
  <2>3. ServerTypeOK'
    BY <1>4, <2>2 DEF GetLine, ServerTypeOK, AbortReply
  <2>4. InputTypeOK'
    BY <1>4 DEF GetLine, InputTypeOK, inputVars
  <2>5. MainTypeOK'
    BY <1>4 DEF GetLine, MainTypeOK, MainPcs
  <2>6. FlagTypeOK'
    BY <1>4 DEF GetLine, FlagTypeOK
  <2> QED BY <1>4, <2>3, <2>4, <2>5, <2>6, Frame DEF GetLine
<1>5. CASE FeedLine \/ Get
  <2>1. ServerTypeOK' /\ MainTypeOK'
    BY <1>5 DEF FeedLine, Get, ServerTypeOK, MainTypeOK, MainPcs, FlagTypeOK
  <2> QED BY <1>5, <2>1, Frame DEF FeedLine, Get
<1>6. CASE Assign \/ Poll2
  <2>1. MainTypeOK'
    BY <1>6 DEF Assign, Poll2, MainTypeOK, MainPcs
  <2> QED BY <1>6, <2>1, Frame DEF Assign, Poll2
<1>7. CASE Exec
  <2>1. MainTypeOK' /\ ServerTypeOK'
    BY <1>7 DEF Exec, MainTypeOK, MainPcs, ServerTypeOK, Registers
  <2>2. InputTypeOK' /\ m_d' \in [Registers -> Values]
    BY <1>7, Frame DEF Exec, FlagTypeOK
  <2>3. CASE m_index <= Len(m_cmds) /\ m_cmds[m_index].type = "write"
    <3>1. m_cmds[m_index] \in Commands
      BY <2>3 DEF AtCommand, ServerTypeOK
    <3>2. m_cmds[m_index].params[0] \in Values /\ 0 \in Registers
      BY <2>3, <3>1, CommandTypes DEF Registers
    <3>3. /\ StartWrite(m_write_ongoing, m_write_done, 0, m_cmds[m_index].params[0])
          /\ m_read_done' = m_read_done
      BY <1>7, <2>3, WriteBranch
    <3>4. /\ m_write_ongoing' \in BOOLEAN /\ m_write_done' \in BOOLEAN
          /\ m_write_terminated' \in BOOLEAN /\ WriterTypeOK'
      BY <3>2, <3>3, StartWriteType DEF FlagTypeOK
    <3> QED BY <2>1, <2>2, <3>3, <3>4 DEF FlagTypeOK
  <2>4. CASE ~(m_index <= Len(m_cmds) /\ m_cmds[m_index].type = "write")
    <3>1. FlagTypeOK' /\ UNCHANGED writerVars
      BY <1>7, <2>4, <2>2 DEF Exec, FlagTypeOK, flags
    <3> QED BY <2>1, <2>2, <3>1, Frame
  <2> QED BY <2>3, <2>4
<1>8. CASE Poll
  <2>1. InputTypeOK' /\ m_d' \in [Registers -> Values] /\ m_read_done' \in BOOLEAN
    BY <1>8, Frame DEF Poll, FlagTypeOK
  <2>2. MainTypeOK'
    BY <1>8 DEF Poll, MainTypeOK, MainPcs
  <2>3. CASE m_write_done /\ srv = "write" /\ l_write_index # LastIndex
    <3>1. m_cmds[m_index] \in Commands /\ m_cmds[m_index].type = "write"
      BY <2>3 DEF AtCommand, ServerTypeOK
    <3>2. l_write_index + 1 \in Registers
      BY <2>3 DEF Registers, LastIndex, ServerTypeOK
    <3>3. m_cmds[m_index].params[l_write_index + 1] \in Values
      BY <3>1, <3>2, CommandTypes
    <3>4. StartWrite(FALSE, FALSE, l_write_index + 1,
                     m_cmds[m_index].params[l_write_index + 1])
      BY <1>8, <2>3 DEF Poll
    <3>5. /\ m_write_ongoing' \in BOOLEAN /\ m_write_done' \in BOOLEAN
          /\ m_write_terminated' \in BOOLEAN /\ WriterTypeOK'
      BY <3>2, <3>3, <3>4, StartWriteType
    <3>6. ServerTypeOK'
      BY <1>8, <2>3, <3>2 DEF Poll, ServerTypeOK
    <3> QED BY <2>1, <2>2, <3>5, <3>6 DEF FlagTypeOK
  <2>4. CASE ~(m_write_done /\ srv = "write" /\ l_write_index # LastIndex)
    <3>1. /\ srv' \in {srv, "run"} /\ m_index' \in {m_index, m_index + 1}
          /\ UNCHANGED <<l_write_index, m_cmds, reply, shown>>
      BY <1>8, <2>4 DEF Poll
    <3>0. ServerTypeOK'
      BY <3>1 DEF ServerTypeOK
    <3>2. FlagTypeOK' /\ UNCHANGED writerVars
      BY <1>8, <2>4, <2>1 DEF Poll, FlagTypeOK
    <3> QED BY <2>1, <2>2, <3>0, <3>2, Frame
  <2> QED BY <2>3, <2>4
<1> QED BY <1>1, <1>2, <1>3, <1>4, <1>5, <1>6, <1>7, <1>8 DEF Next, Main

-----------------------------------------------------------------------------
(* Main. *)
LEMMA CommandLemma == ASSUME IInv, Next PROVE AtCommand'
<1> USE DEF IInv, TypeOK, MainTypeOK, ServerTypeOK, AtCommand, mainVars, inputVars,
            serverVars, flags, writerVars
<1>1. CASE TypeLine \/ PostLine \/ ReadTick \/ Wake
  BY <1>1 DEF TypeLine, PostLine, ReadTick, Wake
<1>2. ASSUME NEW w \in Threads, Writer(w) PROVE AtCommand'
  BY <1>2 DEF Writer, WriterLock, WriterCheck, WriterClear, WriterStore,
              WriterNotify, WriterEnd, WriterOnly
<1>3. CASE GetLine
  BY <1>3 DEF GetLine
<1>4. CASE FeedLine
  BY <1>4 DEF FeedLine
<1>5. CASE Exec
  <2>1. m_index <= Len(m_cmds) => m_cmds[m_index].type \in {"read", "write"}
    BY CommandTypes
  <2> QED BY <1>5, <2>1 DEF Exec
<1>6. CASE Poll
  BY <1>6 DEF Poll, StartWrite
<1>7. CASE Assign \/ Poll2 \/ Get
  BY <1>7 DEF Assign, Poll2, Get, ReadResumes
<1> QED BY <1>1, <1>2, <1>3, <1>4, <1>5, <1>6, <1>7 DEF Next, Main

LEMMA SeenLemma == ASSUME IInv, Next PROVE Seen' /\ NothingSleptThrough'
<1> USE DEF IInv, TypeOK, MainTypeOK, InputTypeOK, ServerTypeOK, FlagTypeOK, AtCommand, Seen,
            NothingSleptThrough, mainVars, inputVars, serverVars, flags, writerVars
<1>1. CASE TypeLine \/ PostLine \/ ReadTick \/ Wake
  BY <1>1 DEF TypeLine, PostLine, ReadTick, Wake, MutexFree, Notify
<1>2. ASSUME NEW w \in Threads, Writer(w) PROVE Seen' /\ NothingSleptThrough'
  BY <1>2 DEF Writer, WriterLock, WriterCheck, WriterClear, WriterStore,
              WriterNotify, WriterEnd, WriterOnly, MutexFree, Notify
<1>3. CASE GetLine \/ FeedLine
  BY <1>3 DEF GetLine, FeedLine
<1>4. CASE Exec
  BY <1>4 DEF Exec, StartWrite
<1>5. CASE Poll
  BY <1>5 DEF Poll, StartWrite
<1>6. CASE Assign \/ Poll2 \/ Get
  BY <1>6 DEF Assign, Poll2, Get, ReadResumes
<1> QED BY <1>1, <1>2, <1>3, <1>4, <1>5, <1>6 DEF Next, Main

-----------------------------------------------------------------------------
(* Writers. *)
LEMMA WorkKept == ASSUME Work, UNCHANGED <<m_write_ongoing, m_write_done, writerVars>>
                  PROVE  Work'
BY DEF Work, OneWriteAtATime, AtWork, writerVars

LEMMA StartWriteWork ==
    ASSUME TypeOK, Work, NEW r, NEW n,
           StartWrite(m_write_ongoing, m_write_done, r, n)
    PROVE  Work'
<1>1. CASE m_write_ongoing
  BY <1>1, WorkKept DEF StartWrite, TypeOK, FlagTypeOK
<1>2. CASE ~m_write_ongoing
  <2>1. \A w \in Threads : ~AtWork(w)
    BY <1>2 DEF Work, OneWriteAtATime
  <2>2. \A w \in Threads : AtWork(w)' <=> w = m_write_future'
    BY <1>2, <2>1, ThreadsAre DEF StartWrite, AtWork, TypeOK, WriterTypeOK
  <2> QED BY <1>2, <2>2, ThreadsAre DEF StartWrite, Work, OneWriteAtATime, TypeOK, FlagTypeOK, WriterTypeOK
<1> QED BY <1>1, <1>2

LEMMA WorkLemma == ASSUME IInv, Next PROVE Work'
<1> USE DEF IInv, mainVars, inputVars, serverVars, flags
<1>1. CASE TypeLine \/ PostLine \/ ReadTick \/ Wake
  BY <1>1, WorkKept DEF TypeLine, PostLine, ReadTick, Wake
<1>2. ASSUME NEW w \in Threads, Writer(w) PROVE Work'
  <2> USE ThreadsAre DEF TypeOK, FlagTypeOK, WriterTypeOK
  <2>1. CASE WriterLock(w) \/ WriterCheck(w) \/ WriterStore(w)
    <3>1. AtWork(w)
      BY <2>1 DEF WriterLock, WriterCheck, WriterStore, AtWork
    <3>2. AtWork(w)' /\ AtWork(1 - w)' = AtWork(1 - w)
      BY <2>1 DEF WriterLock, WriterCheck, WriterStore, WriterGoto, AtWork, WriterType
    <3>3. UNCHANGED <<m_write_ongoing, m_write_done, m_write_future>>
      BY <2>1 DEF WriterLock, WriterCheck, WriterStore, WriterOnly
    <3> QED BY <3>1, <3>2, <3>3 DEF Work, OneWriteAtATime
  <2>2. CASE WriterClear(w)
    <3>1. AtWork(w) /\ ~m_write_done /\ ~AtWork(1 - w)
      BY <2>2 DEF WriterClear, AtWork, Work, OneWriteAtATime
    <3>2. ~AtWork(w)' /\ ~AtWork(1 - w)'
      BY <2>2, <3>1 DEF WriterClear, WriterGoto, AtWork, WriterType
    <3> QED BY <2>2, <3>1, <3>2 DEF WriterClear, Work, OneWriteAtATime
  <2>3. CASE WriterNotify(w)
    <3>1. AtWork(w) /\ m_write_ongoing /\ ~AtWork(1 - w)
      BY <2>3 DEF WriterNotify, AtWork, Work, OneWriteAtATime
    <3>2. ~AtWork(w)' /\ ~AtWork(1 - w)'
      BY <2>3, <3>1 DEF WriterNotify, WriterGoto, AtWork, WriterType
    <3> QED BY <2>3, <3>1, <3>2 DEF WriterNotify, Work, OneWriteAtATime
  <2>4. CASE WriterEnd(w)
    <3>1. ~AtWork(w) /\ ~AtWork(w)' /\ AtWork(1 - w)' = AtWork(1 - w)
      BY <2>4 DEF WriterEnd, AtWork, NoWriter
    <3>2. UNCHANGED <<m_write_ongoing, m_write_done, m_write_future>>
      BY <2>4 DEF WriterEnd, WriterOnly
    <3> QED BY <3>1, <3>2 DEF Work, OneWriteAtATime
  <2> QED BY <1>2, <2>1, <2>2, <2>3, <2>4 DEF Writer
<1>3. CASE GetLine \/ FeedLine \/ Assign \/ Poll2 \/ Get
  BY <1>3, WorkKept DEF GetLine, FeedLine, Assign, Poll2, Get
<1>4. CASE Exec
  <2>1. CASE m_index <= Len(m_cmds) /\ m_cmds[m_index].type = "write"
    BY <1>4, <2>1, StartWriteWork, WriteBranch
  <2>2. CASE ~(m_index <= Len(m_cmds) /\ m_cmds[m_index].type = "write")
    BY <1>4, <2>2, WorkKept DEF Exec
  <2> QED BY <2>1, <2>2
<1>5. CASE Poll
  <2>1. CASE ~m_write_done
    BY <1>5, <2>1, WorkKept DEF Poll
  <2>2. CASE m_write_done
    <3>1. \A w \in Threads : ~AtWork(w)
      BY <2>2 DEF Work, OneWriteAtATime
    <3>2. CASE srv = "write" /\ l_write_index # LastIndex
      <4>1. \A w \in Threads : AtWork(w)' <=> w = m_write_future'
        BY <1>5, <2>2, <3>1, <3>2, ThreadsAre DEF Poll, StartWrite, AtWork, TypeOK, WriterTypeOK
      <4> QED BY <1>5, <2>2, <3>2, <4>1, ThreadsAre
              DEF Poll, StartWrite, Work, OneWriteAtATime, TypeOK, FlagTypeOK, WriterTypeOK
    <3>3. CASE ~(srv = "write" /\ l_write_index # LastIndex)
      BY <1>5, <2>2, <3>1, <3>3 DEF Poll, Work, OneWriteAtATime, AtWork, writerVars
    <3> QED BY <3>2, <3>3
  <2> QED BY <2>1, <2>2
<1> QED BY <1>1, <1>2, <1>3, <1>4, <1>5 DEF Next, Main

LEMMA TurnsLemma == ASSUME IInv, Next PROVE TurnsLeft'
<1> USE ThreadsAre DEF IInv, TypeOK, WriterTypeOK, TurnsLeft
<1>1. CASE writer' = writer
  BY <1>1
<1>2. CASE \E n \in Threads : /\ writer'[n].left = Checks
                              /\ \A w \in Threads \ {n} : writer'[w] = writer[w]
  BY <1>2, ChecksAssumption
<1>3. ASSUME NEW w \in Threads, Writer(w) PROVE TurnsLeft'
  <2>1. writer'[1 - w] = writer[1 - w]
    BY <1>3 DEF Writer, WriterLock, WriterCheck, WriterClear, WriterStore, WriterNotify,
                WriterEnd, WriterGoto
  <2>2. writer'[w].pc \in {"lock", "check"} => writer'[w].left >= 1
    <3>1. writer[w] \in WriterType
      OBVIOUS
    <3>2. CASE WriterCheck(w)
      BY <3>1, <3>2, ChecksAssumption DEF WriterCheck, WriterGoto, WriterType
    <3>3. CASE ~WriterCheck(w)
      BY <1>3, <3>1, <3>3 DEF Writer, WriterLock, WriterClear, WriterStore, WriterNotify,
                WriterEnd, WriterGoto, NoWriter, WriterType
    <3> QED BY <3>2, <3>3
  <2> QED BY <2>1, <2>2
<1>4. ASSUME NEW on, NEW done, NEW r, NEW n, StartWrite(on, done, r, n)
      PROVE  \/ writer' = writer
             \/ \E t \in Threads : /\ writer'[t].left = Checks
                                   /\ \A w \in Threads \ {t} : writer'[w] = writer[w]
  BY <1>4 DEF StartWrite, writerVars
<1>5. CASE TypeLine \/ PostLine \/ ReadTick \/ Wake \/ GetLine \/ FeedLine \/ Assign
             \/ Poll2 \/ Get
  BY <1>1, <1>5 DEF TypeLine, PostLine, ReadTick, Wake, GetLine, FeedLine, Assign, Poll2,
                    Get, writerVars
<1>6. CASE Exec
  BY <1>1, <1>2, <1>4, <1>6 DEF Exec, writerVars
<1>7. CASE Poll
  BY <1>1, <1>2, <1>4, <1>7 DEF Poll, writerVars
<1> QED BY <1>3, <1>5, <1>6, <1>7 DEF Next, Main

-----------------------------------------------------------------------------
LEMMA StepLemma == IInv /\ [Next]_vars => IInv'
<1>1. ASSUME IInv, Next PROVE IInv'
  BY <1>1, TypeLemma, CommandLemma, SeenLemma, WorkLemma, TurnsLemma DEF IInv
<1>2. ASSUME IInv, UNCHANGED vars PROVE IInv'
  BY <1>2, Frame DEF IInv, TypeOK, AtCommand, Seen, NothingSleptThrough, Work, TurnsLeft, OneWriteAtATime,
              AtWork, vars, mainVars, inputVars, serverVars, flags, writerVars
<1> QED BY <1>1, <1>2

THEOREM InvariantHolds == Spec => []IInv
BY InitLemma, StepLemma, PTL DEF Spec

(* The flags, indices and threads of the example stay in their types. *)
THEOREM TypeCorrect == Spec => []TypeOK
<1>1. IInv => TypeOK
  BY DEF IInv
<1> QED BY <1>1, InvariantHolds, PTL

(* Whoever types, main never sleeps over a line, an ended write or a read  *)
(* report it is to act on.                                                 *)
THEOREM NoLostWakeup == Spec => []NothingSleptThrough
<1>1. IInv => NothingSleptThrough
  BY DEF IInv
<1> QED BY <1>1, InvariantHolds, PTL

(* Whoever types, a write is refused only while one other is under way.    *)
THEOREM WritesOneByOne == Spec => []OneWriteAtATime
<1>1. IInv => OneWriteAtATime
  BY DEF IInv, Work
<1> QED BY <1>1, InvariantHolds, PTL

-----------------------------------------------------------------------------
(* A patient client. *)
LEMMA PInitLemma == Init => PInv
<1> SUFFICES ASSUME Init PROVE PInv
  OBVIOUS
<1>1. Waiting /\ InHand /\ Done
  BY DEF Init, Waiting, InHand, Done, NoWriter
<1> QED BY <1>1, InitLemma DEF PInv

LEMMA WaitingLemma == ASSUME Patient, PInv, Next PROVE Waiting'
<1> USE ThreadsAre DEF PInv, IInv, Waiting
<1>1. CASE TypeLine \/ PostLine
  BY <1>1 DEF TypeLine, PostLine, MutexFree, mainVars, serverVars, flags, writerVars
<1>2. CASE ReadTick \/ Wake
  BY <1>2 DEF ReadTick, Wake, inputVars, serverVars, flags, writerVars
<1>3. ASSUME NEW w \in Threads, Writer(w) PROVE Waiting'
  <2>1. \A t \in Threads : writer'[t].pc # "clear"
    BY <1>3 DEF Writer, WriterLock, WriterCheck, WriterClear, WriterStore, WriterNotify,
                WriterEnd, WriterGoto, NoWriter, TypeOK, WriterTypeOK, WriterType
  <2>2. /\ UNCHANGED <<main, input, m_ready, srv, m_write_terminated>>
        /\ m_write_ongoing' = m_write_ongoing
    BY <1>3 DEF Writer, WriterLock, WriterCheck, WriterClear, WriterStore, WriterNotify,
                WriterEnd, WriterOnly, mainVars, inputVars, serverVars
  <2> QED BY <2>1, <2>2
<1>4. CASE GetLine
  BY <1>4 DEF GetLine, inputVars, writerVars
<1>5. CASE FeedLine
  <2>1. input = "getline" /\ srv = "idle"
    BY <1>5 DEF FeedLine, AtCommand, TypeOK, InputTypeOK
  <2>2. /\ UNCHANGED <<input, m_ready, m_write_terminated, m_write_ongoing, writer>>
        /\ main' # "feed" /\ srv' \in {"idle", "run"}
    BY <1>5, <2>1 DEF FeedLine, inputVars, flags, writerVars
  <2> QED BY <2>1, <2>2
<1>6. CASE Exec
  <2>1. srv = "run" /\ ~m_write_ongoing /\ input = "getline"
    BY <1>6 DEF Exec, AtCommand
  <2>2. CASE m_index <= Len(m_cmds) /\ m_cmds[m_index].type = "write"
    <3>1. /\ StartWrite(m_write_ongoing, m_write_done, 0, m_cmds[m_index].params[0])
          /\ srv' = "write" /\ main' = "assign"
      BY <1>6, <2>2, WriteBranch
    <3>2. /\ m_write_ongoing' /\ ~m_write_terminated'
          /\ \A w \in Threads : writer'[w].pc # "clear"
      BY <2>1, <3>1 DEF StartWrite, TypeOK, WriterTypeOK
    <3> QED BY <1>6, <2>1, <3>1, <3>2 DEF Exec, inputVars
  <2>3. CASE ~(m_index <= Len(m_cmds) /\ m_cmds[m_index].type = "write")
    <3>1. /\ main' = after /\ srv' \in {"idle", "read"}
          /\ UNCHANGED <<m_write_ongoing, m_write_terminated, writer>>
      BY <1>6, <2>3 DEF Exec, flags, writerVars
    <3>2. main' # "feed"
      BY <3>1 DEF TypeOK, MainTypeOK
    <3> QED BY <1>6, <2>1, <3>1, <3>2 DEF Exec, inputVars
  <2> QED BY <2>2, <2>3
<1>7. CASE Poll
  <2>1. m_write_done => m_write_ongoing
    BY DEF Work, OneWriteAtATime
  <2>2. CASE m_write_done /\ l_write_index # LastIndex
    <3>1. StartWrite(FALSE, FALSE, l_write_index + 1,
                     m_cmds[m_index].params[l_write_index + 1]) /\ srv' = srv
      BY <1>7, <2>1, <2>2 DEF Poll
    <3>2. /\ m_write_ongoing' /\ ~m_write_terminated'
          /\ \A w \in Threads : writer'[w].pc # "clear"
      BY <3>1 DEF StartWrite, TypeOK, WriterTypeOK
    <3> QED BY <1>7, <2>1, <2>2, <3>1, <3>2 DEF Poll, inputVars
  <2>3. CASE ~(m_write_done /\ l_write_index # LastIndex)
    <3>1. /\ UNCHANGED <<input, m_ready, m_write_terminated, writer>> /\ main' # "feed"
      BY <1>7, <2>1, <2>3 DEF Poll, inputVars, writerVars
    <3>2. m_write_ongoing' <=> srv' = "write"
      <4>1. CASE m_write_done
        <5>1. srv = "write" /\ l_write_index = LastIndex
          BY <2>1, <2>3, <4>1
        <5>2. srv' = "run" /\ ~m_write_ongoing'
          BY <1>7, <4>1, <5>1 DEF Poll
        <5> QED BY <5>2
      <4>2. CASE ~m_write_done
        <5>1. srv' = srv /\ m_write_ongoing' = m_write_ongoing
          BY <1>7, <4>2 DEF Poll
        <5> QED BY <5>1
      <4> QED BY <4>1, <4>2
    <3>3. srv' = "idle" <=> srv = "idle"
      BY <1>7, <2>3 DEF Poll
    <3> QED BY <3>1, <3>2, <3>3
  <2> QED BY <2>2, <2>3
<1>8. CASE Assign \/ Poll2 \/ Get
  <2>1. main' # "feed"
    BY <1>8 DEF Assign, Poll2, Get, TypeOK, MainTypeOK
  <2> QED BY <1>8, <2>1 DEF Assign, Poll2, Get, AtCommand, inputVars, serverVars, flags,
                           writerVars
<1> QED BY <1>1, <1>2, <1>3, <1>4, <1>5, <1>6, <1>7, <1>8 DEF Next, Main

LEMMA InHandKept ==
    ASSUME InHand, UNCHANGED <<m_cmds, m_index, l_write_index, m_d, m_write_done, writer>>,
           srv' = "write" => srv = "write"
    PROVE  InHand'
BY DEF InHand, Param, AtWork

LEMMA WriterInHand ==
    ASSUME Patient, PInv, NEW w \in Threads, Writer(w) PROVE InHand'
<1> SUFFICES ASSUME srv' = "write" PROVE InHand'
  BY DEF InHand
<1> USE ThreadsAre DEF PInv, IInv
<1>1. /\ UNCHANGED <<m_cmds, m_index, l_write_index, srv>>
      /\ Param' = Param
  BY DEF Writer, WriterLock, WriterCheck, WriterClear, WriterStore, WriterNotify,
         WriterEnd, WriterOnly, serverVars, Param
<1>2. /\ l_write_index \in Registers /\ m_d \in [Registers -> Values]
      /\ writer \in [Threads -> WriterType] /\ 1 - w \in Threads
  BY DEF TypeOK, ServerTypeOK, FlagTypeOK, WriterTypeOK
<1>3. writer'[1 - w] = writer[1 - w]
  BY <1>2 DEF Writer, WriterLock, WriterCheck, WriterClear, WriterStore, WriterNotify,
              WriterEnd, WriterGoto
<1>4. CASE WriterLock(w) \/ WriterCheck(w) \/ WriterClear(w)
  <2>1. AtWork(w) /\ m_d' = m_d /\ m_write_done' = m_write_done
    BY <1>4 DEF WriterLock, WriterCheck, WriterClear, AtWork
  <2>2. /\ writer'[w].index = writer[w].index /\ writer'[w].data = writer[w].data
        /\ writer'[w].pc # "notify"
    BY <1>2, <1>4 DEF WriterLock, WriterCheck, WriterClear, WriterGoto, WriterType
  <2> QED BY <1>1, <1>2, <1>3, <2>1, <2>2 DEF InHand, AtWork
<1>5. CASE WriterStore(w)
  <2>1. /\ AtWork(w) /\ ~AtWork(1 - w)
        /\ writer[w].index = l_write_index /\ writer[w].data = Param[l_write_index]
    BY <1>1, <1>5 DEF WriterStore, AtWork, InHand, Work, OneWriteAtATime
  <2>2. m_d' = [m_d EXCEPT ![l_write_index] = Param[l_write_index]]
    BY <1>5, <2>1 DEF WriterStore
  <2>3. /\ writer'[w].index = writer[w].index /\ writer'[w].data = writer[w].data
        /\ m_write_done' = m_write_done
    BY <1>2, <1>5 DEF WriterStore, WriterGoto, WriterType
  <2>4. \A r \in Registers : r < l_write_index => m_d'[r] = Param[r]
    BY <1>1, <1>2, <2>2 DEF InHand, Registers
  <2>5. m_d'[l_write_index] = Param[l_write_index]
    BY <1>2, <2>2
  <2> QED BY <1>1, <1>2, <1>3, <2>1, <2>3, <2>4, <2>5 DEF InHand, AtWork
<1>6. CASE WriterNotify(w)
  <2>1. AtWork(w) /\ ~AtWork(1 - w) /\ m_d[l_write_index] = Param[l_write_index]
    BY <1>1, <1>6 DEF WriterNotify, AtWork, InHand, Work, OneWriteAtATime
  <2>2. ~AtWork(w)' /\ ~AtWork(1 - w)' /\ m_d' = m_d
    BY <1>2, <1>3, <1>6, <2>1 DEF WriterNotify, WriterGoto, AtWork, WriterType
  <2>3. \A t \in Threads : ~AtWork(t)'
    BY <2>2
  <2> QED BY <1>1, <2>1, <2>2, <2>3 DEF InHand
<1>7. CASE WriterEnd(w)
  <2>1. ~AtWork(w)' /\ AtWork(1 - w)' = AtWork(1 - w) /\ m_d' = m_d
        /\ m_write_done' = m_write_done
    BY <1>2, <1>3, <1>7 DEF WriterEnd, AtWork, NoWriter
  <2> QED BY <1>1, <1>3, <2>1 DEF InHand
<1> QED BY <1>4, <1>5, <1>6, <1>7 DEF Writer

LEMMA InHandLemma == ASSUME Patient, PInv, Next PROVE InHand'
<1> USE ThreadsAre DEF PInv, IInv
<1>1. CASE TypeLine \/ PostLine \/ ReadTick \/ Wake
  BY <1>1, InHandKept DEF TypeLine, PostLine, ReadTick, Wake, serverVars, flags, writerVars
<1>2. ASSUME NEW w \in Threads, Writer(w) PROVE InHand'
  BY <1>2, WriterInHand
<1>3. CASE GetLine \/ FeedLine \/ Get
  <2>1. srv' = "write" => UNCHANGED <<m_cmds, m_index, l_write_index, m_d, m_write_done,
                                      writer, srv>>
    BY <1>3 DEF GetLine, FeedLine, Get, flags, writerVars
  <2>2. CASE srv' = "write"
    BY <2>1, <2>2, InHandKept
  <2> QED BY <2>2 DEF InHand
<1>4. CASE Assign \/ Poll2
  BY <1>4, InHandKept DEF Assign, Poll2, serverVars, flags, writerVars
<1>5. CASE Exec
  <2>1. CASE m_index <= Len(m_cmds) /\ m_cmds[m_index].type = "write"
    <3>1. /\ StartWrite(m_write_ongoing, m_write_done, 0, m_cmds[m_index].params[0])
          /\ l_write_index' = 0 /\ UNCHANGED <<m_cmds, m_index>> /\ ~m_write_ongoing
      BY <1>5, <2>1, WriteBranch DEF Exec, AtCommand, Waiting
    <3>2. \A w \in Threads : ~AtWork(w)
      BY <3>1 DEF Work, OneWriteAtATime
    <3>3. /\ ~m_write_done'
          /\ \A w \in Threads : AtWork(w)' =>
                /\ writer'[w].index = 0 /\ writer'[w].data = Param[0]
                /\ writer'[w].pc # "notify"
      BY <3>1, <3>2 DEF StartWrite, AtWork, Param, TypeOK, WriterTypeOK
    <3>4. \A r \in Registers : ~(r < 0)
      BY DEF Registers
    <3> QED BY <3>1, <3>3, <3>4 DEF InHand, Param
  <2>2. CASE ~(m_index <= Len(m_cmds) /\ m_cmds[m_index].type = "write")
    BY <1>5, <2>2 DEF Exec, InHand
  <2> QED BY <2>1, <2>2
<1>6. CASE Poll
  <2>1. CASE m_write_done /\ srv = "write" /\ l_write_index # LastIndex
    <3>1. /\ StartWrite(FALSE, FALSE, l_write_index + 1, Param[l_write_index + 1])
          /\ l_write_index' = l_write_index + 1 /\ UNCHANGED <<m_cmds, m_index, m_d, srv>>
      BY <1>6, <2>1 DEF Poll, Param
    <3>2. \A w \in Threads : ~AtWork(w)
      BY <2>1 DEF Work, OneWriteAtATime
    <3>3. /\ ~m_write_done' /\ Param' = Param
          /\ \A w \in Threads : AtWork(w)' =>
                /\ writer'[w].index = l_write_index + 1
                /\ writer'[w].data = Param[l_write_index + 1]
                /\ writer'[w].pc # "notify"
      BY <3>1, <3>2 DEF StartWrite, AtWork, Param, TypeOK, WriterTypeOK
    <3>4. \A r \in Registers : r < l_write_index + 1 => m_d[r] = Param[r]
      BY <2>1 DEF Registers, InHand, TypeOK, ServerTypeOK
    <3> QED BY <3>1, <3>3, <3>4 DEF InHand
  <2>2. CASE ~(m_write_done /\ srv = "write" /\ l_write_index # LastIndex)
    <3>1. srv' = "write" => ~m_write_done
      BY <1>6, <2>2 DEF Poll
    <3>2. CASE srv' = "write"
      BY <1>6, <3>1, <3>2, InHandKept DEF Poll, writerVars
    <3> QED BY <3>2 DEF InHand
  <2> QED BY <2>1, <2>2
<1> QED BY <1>1, <1>2, <1>3, <1>4, <1>5, <1>6 DEF Next, Main

LEMMA DoneLemma == ASSUME Patient, PInv, Next PROVE Done'
<1> SUFFICES ASSUME srv' \in {"run", "read"} PROVE DoneSoFar(m_index - 1)'
  BY DEF Done
<1> USE DEF PInv, IInv
<1>1. CASE UNCHANGED <<m_cmds, m_index, m_d, shown>> /\ srv \in {"run", "read"}
  BY <1>1 DEF Done, DoneSoFar
<1>2. CASE TypeLine \/ PostLine \/ ReadTick \/ Wake \/ Assign \/ Poll2
  BY <1>1, <1>2 DEF TypeLine, PostLine, ReadTick, Wake, Assign, Poll2, serverVars
<1>3. ASSUME NEW w \in Threads, Writer(w) PROVE DoneSoFar(m_index - 1)'
  <2>1. UNCHANGED serverVars
    BY <1>3 DEF Writer, WriterLock, WriterCheck, WriterClear, WriterStore, WriterNotify,
                WriterEnd, WriterOnly
  <2>2. ~WriterStore(w)
    BY <2>1 DEF WriterStore, AtWork, Work, OneWriteAtATime, Waiting, serverVars
  <2>3. m_d' = m_d
    BY <1>3, <2>2 DEF Writer, WriterLock, WriterCheck, WriterClear, WriterNotify, WriterEnd
  <2> QED BY <1>1, <2>1, <2>3 DEF serverVars
<1>4. CASE GetLine
  BY <1>1, <1>4 DEF GetLine, Waiting
<1>5. CASE FeedLine
  <2>1. CASE m_index' = 1
    <3>1. 1 .. m_index' - 1 = {}
      BY <2>1
    <3> QED BY <3>1 DEF DoneSoFar
  <2>2. CASE m_index' # 1
    BY <1>5, <2>2 DEF FeedLine, AtCommand
  <2> QED BY <2>1, <2>2
<1>6. CASE Exec
  BY <1>1, <1>6 DEF Exec, AtCommand
<1>7. CASE Get
  <2>1. /\ srv = "read" /\ m_index' = m_index + 1 /\ shown' = m_d
        /\ UNCHANGED <<m_cmds, m_d>>
    BY <1>7 DEF Get, AtCommand
  <2>2. m_cmds[m_index].type = "read" /\ m_index \in Nat /\ m_index >= 1
    BY <2>1 DEF AtCommand, TypeOK, ServerTypeOK
  <2>3. \A i \in 1 .. m_index :
          /\ m_cmds[i].type = "write"
          /\ \A j \in 1 .. m_index : j > i => m_cmds[j] = Read
          => i \in 1 .. m_index - 1 /\ m_d = m_cmds[i].params
    <3>1. DoneSoFar(m_index - 1)
      BY <2>1 DEF Done
    <3>2. SUFFICES ASSUME NEW i \in 1 .. m_index, m_cmds[i].type = "write",
                          \A j \in 1 .. m_index : j > i => m_cmds[j] = Read
                   PROVE  i \in 1 .. m_index - 1 /\ m_d = m_cmds[i].params
      OBVIOUS
    <3>3. i # m_index
      BY <2>2, <3>2
    <3>4. i \in 1 .. m_index - 1
      BY <2>2, <3>3
    <3>5. \A j \in 1 .. m_index - 1 : j > i => m_cmds[j] = Read
      BY <2>2, <3>2
    <3> QED BY <3>1, <3>2, <3>4, <3>5 DEF DoneSoFar
  <2>4. m_index' - 1 = m_index
    BY <2>1, <2>2
  <2> QED BY <2>1, <2>3, <2>4 DEF DoneSoFar
<1>8. CASE Poll
  <2>1. CASE srv = "write"
    <3>1. /\ m_write_done /\ l_write_index = 2 /\ m_index' = m_index + 1
          /\ UNCHANGED <<m_cmds, m_d, shown>>
      BY <1>8, <2>1 DEF Poll, LastIndex
    <3>2. /\ m_cmds[m_index].type = "write" /\ m_cmds[m_index] \in Commands
          /\ m_index \in Nat /\ m_index >= 1
      BY <2>1 DEF AtCommand, TypeOK, ServerTypeOK
    <3>3. m_d = Param
      <4>1. \A r \in Registers : m_d[r] = Param[r]
        BY <2>1, <3>1 DEF InHand, Registers
      <4>2. Param \in [Registers -> Values] /\ m_d \in [Registers -> Values]
        BY <3>2, CommandTypes DEF Param, TypeOK, FlagTypeOK
      <4> QED BY <4>1, <4>2
    <3>4. \A i \in 1 .. m_index :
             (\A j \in 1 .. m_index : j > i => m_cmds[j] = Read) => i = m_index
      BY <3>2 DEF Read
    <3>5. m_index' - 1 = m_index
      BY <3>1, <3>2
    <3> QED BY <3>1, <3>3, <3>4, <3>5 DEF DoneSoFar, Param
  <2>2. CASE srv # "write"
    BY <1>1, <1>8, <2>2 DEF Poll
  <2> QED BY <2>1, <2>2
<1> QED BY <1>2, <1>3, <1>4, <1>5, <1>6, <1>7, <1>8 DEF Next, Main

LEMMA PStepLemma == ASSUME Patient PROVE PInv /\ [Next]_vars => PInv'
<1>1. ASSUME PInv, Next PROVE PInv'
  BY <1>1, StepLemma, WaitingLemma, InHandLemma, DoneLemma DEF PInv
<1>2. ASSUME PInv, UNCHANGED vars PROVE PInv'
  <2>1. IInv'
    BY <1>2, StepLemma DEF PInv
  <2>2. Waiting' /\ InHand' /\ Done'
    BY <1>2 DEF PInv, Waiting, InHand, Done, DoneSoFar, Param, AtWork, vars, mainVars,
                inputVars, serverVars, flags, writerVars
  <2> QED BY <2>1, <2>2 DEF PInv
<1> QED BY <1>1, <1>2

THEOREM PatientInvariantHolds == ASSUME Patient PROVE Spec => []PInv
BY PInitLemma, PStepLemma, PTL DEF Spec

(* With a client that waits for its answers main never blocks on a mutex   *)
(* or on a thread that itself waits for the mutex main holds.              *)
THEOREM PatientNeverDeadlocks == ASSUME Patient PROVE Spec => []LocksInOrder
<1>1. PInv => LocksInOrder
  BY DEF PInv, IInv, Waiting, Work, OneWriteAtATime, AtWork, AtCommand, LocksInOrder
<1> QED BY <1>1, PatientInvariantHolds, PTL

(* With such a client OK says that the registers were written and that     *)
(* what a later read printed was in them.                                  *)
THEOREM PatientOKIsTrue == ASSUME Patient PROVE Spec => OKMeansStored
<1> DEFINE Told == AnsweredOK => Stored
<1>1. PInv /\ [Next]_vars => [Told]_vars
  <2> SUFFICES ASSUME PInv, Next, AnsweredOK PROVE Stored
    OBVIOUS
  <2>1. Exec
    BY DEF AnsweredOK, Next, Main, TypeLine, PostLine, ReadTick, Wake, GetLine, FeedLine,
           Assign, Poll, Poll2, Get, Writer, WriterLock, WriterCheck, WriterClear,
           WriterStore, WriterNotify, WriterEnd, WriterOnly, serverVars, StartWrite
  <2>2. m_index > Len(m_cmds)
    BY <2>1 DEF AnsweredOK, Exec
  <2>3. m_index - 1 = Len(m_cmds) /\ DOMAIN m_cmds = 1 .. Len(m_cmds)
    BY <2>2 DEF PInv, IInv, AtCommand, AnsweredOK, TypeOK, ServerTypeOK
  <2>4. DoneSoFar(Len(m_cmds))
    BY <2>3 DEF PInv, Done, AnsweredOK
  <2> QED BY <2>3, <2>4 DEF DoneSoFar, Stored
<1>2. OKMeansStored <=> [][Told]_vars
  BY DEF OKMeansStored
<1> QED BY <1>1, <1>2, PatientInvariantHolds, PTL DEF Spec

-----------------------------------------------------------------------------
(* The line protocol.  A whole line is fed at once, so it opens and is     *)
(* submitted in one step: for the protocol it is a line run again.         *)
LEMMA SessionStutters ==
    UNCHANGED <<srv, reply>> => UNCHANGED Session!sessionVars
BY DEF Session!sessionVars

LEMMA StartIsRepeat == ASSUME IInv, FeedLine PROVE [Session!SessionNext]_(Session!sessionVars)
<1>1. CASE m_cmds = <<>>
  BY <1>1, SessionStutters DEF FeedLine
<1>2. CASE m_cmds # <<>>
  <2>1. srv = "idle" /\ srv' = "run" /\ reply' = "none"
    BY <1>2 DEF FeedLine, IInv, AtCommand
  <2>2. Session!Repeat
    BY <2>1 DEF Session!Repeat
  <2> QED BY <2>2 DEF Session!SessionNext
<1> QED BY <1>1, <1>2

LEMMA CommandsAreWaits == ASSUME IInv, Exec PROVE [Session!SessionNext]_(Session!sessionVars)
<1>1. srv = "run"
  BY DEF Exec, IInv, AtCommand
<1>2. CASE srv' = "idle" /\ reply' = "OK"
  <2>1. Session!Complete("OK")
    BY <1>1, <1>2 DEF Session!Complete, Session!Answer
  <2> QED BY <2>1 DEF Session!SessionNext
<1>3. CASE srv' \in {"write", "read"} /\ reply' = reply
  <2>1. Session!Suspend
    BY <1>1, <1>3 DEF Session!Suspend
  <2> QED BY <2>1 DEF Session!SessionNext
<1> QED BY <1>2, <1>3 DEF Exec

LEMMA UpdatesAreResumes ==
    ASSUME IInv, Poll \/ Get PROVE [Session!SessionNext]_(Session!sessionVars)
<1>1. srv \in {"write", "read"} \/ srv' = srv
  BY DEF Poll, Get, IInv, AtCommand
<1>2. reply' = reply /\ srv' \in {srv, "run"}
  BY DEF Poll, Get
<1>3. CASE srv' = srv
  BY <1>2, <1>3, SessionStutters
<1>4. CASE srv' # srv
  <2>1. Session!Resume
    BY <1>1, <1>2, <1>4 DEF Session!Resume
  <2> QED BY <2>1 DEF Session!SessionNext
<1> QED BY <1>3, <1>4

LEMMA GetLineSession == ASSUME GetLine PROVE [Session!SessionNext]_(Session!sessionVars)
<1>1. CASE UNCHANGED <<srv, reply>>
  BY <1>1, SessionStutters
<1>2. CASE ~UNCHANGED <<srv, reply>>
  <2>1. srv = "write" /\ srv' = "idle" /\ reply' = "ERROR"
    BY <1>2 DEF GetLine, AbortReply
  <2>2. Session!Abort("ERROR")
    BY <2>1 DEF Session!Abort, Session!Answer
  <2> QED BY <2>2 DEF Session!SessionNext
<1> QED BY <1>1, <1>2

(* The threads keep the server to the line protocol, whoever the client    *)
(* is: a line starts only when the one before it was answered, only a      *)
(* suspended command is resumed or aborted, and a line gets one result.    *)
(* This is what lets the example feed, poll and abort as it does.          *)
THEOREM TerminalKeepsProtocol == Spec => ImplementsSession
<1>1. Init => Session!SessionInit
  BY DEF Init, Session!SessionInit
<1>2. IInv /\ [Next]_vars => [Session!SessionNext]_(Session!sessionVars)
  <2> SUFFICES ASSUME IInv, [Next]_vars PROVE [Session!SessionNext]_(Session!sessionVars)
    OBVIOUS
  <2>1. CASE UNCHANGED vars
    BY <2>1, SessionStutters DEF vars, serverVars
  <2>2. CASE TypeLine \/ PostLine \/ ReadTick \/ Wake \/ Assign \/ Poll2
    BY <2>2, SessionStutters
       DEF TypeLine, PostLine, ReadTick, Wake, Assign, Poll2, serverVars
  <2>3. ASSUME NEW w \in Threads, Writer(w)
        PROVE  UNCHANGED <<srv, reply>>
    BY <2>3 DEF Writer, WriterLock, WriterCheck, WriterClear, WriterStore, WriterNotify,
                WriterEnd, WriterOnly, serverVars
  <2>4. CASE \E w \in Threads : Writer(w)
    BY <2>3, <2>4, SessionStutters
  <2>5. CASE GetLine \/ FeedLine \/ Exec \/ Poll \/ Get
    BY <2>5, GetLineSession, StartIsRepeat, CommandsAreWaits, UpdatesAreResumes
  <2> QED BY <2>1, <2>2, <2>4, <2>5 DEF Next, Main
<1> QED BY <1>1, <1>2, InvariantHolds, PTL DEF Spec, ImplementsSession, Session!SessionSpec
=============================================================================
