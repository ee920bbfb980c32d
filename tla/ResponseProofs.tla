--------------------------- MODULE ResponseProofs ---------------------------
(***************************************************************************)
(* What the server prints, for every command table, buffer and alphabet.   *)
(* Responses adds what is printed to the state of the server and takes     *)
(* none of its steps away, so what is proved of Server holds of it.        *)
(*                                                                         *)
(* That what was printed is frames laid end to end (Framed), a text begun  *)
(* among them excepted, lets a client take it apart.                       *)
(***************************************************************************)
EXTENDS Responses, ServerLayoutProofs

LEMMA ResponsesStep ==
    ASSUME [ResponsesNext]_allVars
    PROVE  [Next]_vars
<1>1. ASSUME UNCHANGED allVars PROVE UNCHANGED vars
  BY <1>1 DEF allVars
<1>2. ASSUME PrintText \/ EndText \/ SetVerbose PROVE UNCHANGED vars
  BY <1>2 DEF PrintText, EndText, SetVerbose
<1>3. ASSUME RunCommand \/ RunEnd \/ AbortCommand \/ Parse \/ Completed PROVE Next
  BY <1>3 DEF RunCommand, RunEnd, AbortCommand, Parse, Completed, Next, Environment, Internal
<1> QED BY <1>1, <1>2, <1>3 DEF ResponsesNext

(* Printing changes nothing of the server: every behaviour of Responses is *)
(* one of the server.                                                      *)
THEOREM ResponsesImplementServer == ResponsesSpec => Spec
<1>1. ResponsesInit => Init
  BY DEF ResponsesInit
<1>2. [ResponsesNext]_allVars => [Next]_vars
  BY ResponsesStep
<1> QED BY <1>1, <1>2, PTL DEF ResponsesSpec, Spec
-----------------------------------------------------------------------------
(* Result texts. *)

(* The command that printed one is the last of the line, and then the line *)
(* has been run.                                                           *)
ShownLast ==
    m_state = "Executing" /\ shown # NoCommand =>
      \/ m_exec_index = shown /\ IsLastCommand
      \/ m_exec_index = m_parse_ok_index

LEMMA ShownLastNext ==
    ASSUME IInv, ShownLast, [ResponsesNext]_allVars
    PROVE  ShownLast'
<1>1. ASSUME UNCHANGED <<m_cmdline, m_parse_index, m_parse_ok_index, m_exec_index>>
      PROVE  /\ IsLastCommand' = IsLastCommand
             /\ CurrentCmdId' = CurrentCmdId /\ SParameter' = SParameter
  BY <1>1 DEF IsLastCommand, CmdLength, CurrentCmdId, SLength, SParameter, IsSCmd
<1>2. ASSUME UNCHANGED vars, UNCHANGED shown PROVE ShownLast'
  <2>1. UNCHANGED <<m_cmdline, m_parse_index, m_parse_ok_index, m_exec_index, m_state>>
    BY <1>2 DEF vars, serverVars, bufVars, execVars
  <2> QED BY <1>1, <1>2, <2>1 DEF ShownLast
<1>3. CASE PrintText
  <2>1. UNCHANGED vars
    BY <1>3 DEF PrintText
  <2>2. UNCHANGED <<m_cmdline, m_parse_index, m_parse_ok_index, m_exec_index, m_state>>
    BY <2>1 DEF vars, serverVars, bufVars, execVars
  <2>3. shown' = shown \/ (shown' = m_exec_index /\ IsLastCommand)
    BY <1>3 DEF PrintText, MakeInformationText, MakeParameterInformationText, IsSilent
  <2> QED BY <1>1, <1>2, <2>1, <2>2, <2>3 DEF ShownLast
<1>4. CASE EndText \/ SetVerbose \/ UNCHANGED allVars
  BY <1>2, <1>4 DEF EndText, SetVerbose, allVars, printVars
<1>5. CASE RunCommand
  <2> DEFINE next == m_exec_index + CmdLength(CurrentCmdId)
  <2>1. ExecCommand /\ shown' = shown
    BY <1>5 DEF RunCommand, NoTextLeft
  <2>2. /\ UNCHANGED <<m_cmdline, m_parse_index, m_parse_ok_index>>
        /\ m_exec_index # m_parse_ok_index /\ next <= m_parse_ok_index
        /\ m_state = "Executing"
        /\ m_exec_index' = m_exec_index \/ m_exec_index' = next
    BY <2>1 DEF ExecCommand, AtCommand, HandleResult, Answer, ParserVars, bufVars, IInv, ControlOK
  <2>3. CASE m_exec_index' = m_exec_index
    BY <1>1, <2>1, <2>2, <2>3 DEF ShownLast
  <2>4. CASE m_exec_index' = next /\ shown # NoCommand
    <3>1. m_parse_index = next
      BY <2>2, <2>4 DEF ShownLast, IsLastCommand
    <3>2. m_parse_ok_index <= m_parse_index /\ m_parse_index \in Nat /\ m_parse_ok_index \in Nat
      BY DEF IInv, TypeOK, CmdlineTypeOK, IndicesOrdered
    <3> HIDE DEF next
    <3>3. next = m_parse_ok_index
      BY <2>2, <3>1, <3>2
    <3> QED BY <2>1, <2>2, <2>4, <3>3 DEF ShownLast
  <2> QED BY <2>1, <2>2, <2>3, <2>4 DEF ShownLast
<1>6. CASE RunEnd
  BY <1>6 DEF RunEnd, ExecEnd, Answer, ShownLast
<1>7. CASE AbortCommand
  <2>1. \/ m_state' = "A"
        \/ UNCHANGED <<m_cmdline, m_parse_index, m_parse_ok_index, m_exec_index, m_state, shown>>
    BY <1>7 DEF AbortCommand, NoTextLeft, Abort, Answer, ParserVars, bufVars
  <2> QED BY <1>1, <2>1 DEF ShownLast
<1>8. CASE Parse
  <2>1. CASE m_state # "Executing"
    BY <1>8, <2>1 DEF Parse, ShownLast
  <2>2. CASE m_state = "Executing"
    <3>1. \E c, left : Stay(left)
      <4>1. CASE \E c \in Alphabet : Feed(c)
        BY <2>2, <4>1, DispatchWaits DEF Feed
      <4>2. CASE Redispatch
        BY <2>2, <4>2, DispatchWaits DEF Redispatch
      <4>3. CASE FinalizeExtCmd
        <5>1. m_state \in FillStates
          BY <4>3 DEF FinalizeExtCmd, IInv, ControlOK
        <5> QED BY <2>2, <5>1 DEF FillStates, ParamStates, NumStates, StartStates
      <4> QED BY <1>8, <4>1, <4>2, <4>3 DEF Parse
    <3>2. UNCHANGED <<m_cmdline, m_parse_index, m_parse_ok_index, m_exec_index, m_state, shown>>
      BY <1>8, <2>2, <3>1 DEF Parse, Stay, Goto, Keep, execVars, bufVars
    <3> QED BY <1>1, <3>2 DEF ShownLast
  <2> QED BY <2>1, <2>2
<1>9. CASE Completed
  <2>1. UNCHANGED <<m_cmdline, m_parse_index, m_parse_ok_index, m_exec_index, m_state, shown>>
    BY <1>9 DEF Completed, Update, ParserVars, bufVars, execVars, printVars
  <2> QED BY <1>1, <2>1 DEF ShownLast
<1> QED BY <1>3, <1>4, <1>5, <1>6, <1>7, <1>8, <1>9 DEF ResponsesNext

(* A handler that prints its result into a text is silenced unless its     *)
(* command is the last of the line.  So of a command whose result text was *)
(* printed nothing more runs: it is called again, or the line is over.     *)
THEOREM ShownResultIsLast == ResponsesSpec => []ResultTextIsLast
<1>1. ResponsesInit => ShownLast
  BY DEF ResponsesInit, Init, ShownLast
<1>2. IInv /\ ShownLast /\ [ResponsesNext]_allVars => ShownLast'
  BY ShownLastNext
<1>3. ShownLast => ResultTextIsLast
  BY DEF ShownLast, ResultTextIsLast
<1> QED BY <1>1, <1>2, <1>3, ResponsesImplementServer, InvariantHolds, PTL DEF ResponsesSpec
-----------------------------------------------------------------------------
(* Frames.  What is printed, in the tokens of Responses. *)
Token == {"S3", "S4", "text", "+name:", "parameters", "digits", "ranges", "result"}
            \cup ResultTexts

(* The client's reading of what was printed, one step at a time.           *)
ReadFrames(o, f, i) ==
    IF i > Len(o) THEN <<>>
    ELSE IF Garbled(o, i) THEN << <<"garbled">> >>
    ELSE <<SubSeq(o, TextFrom(o, i), TextEnd(o, i) - 1)>> \o f[NextFrame(o, i)]

(* It goes forward only. *)
LEMMA ReadForward ==
    ASSUME NEW o \in Seq(Token), NEW i \in 1 .. Len(o) + 1, NEW f, NEW g,
           \A j \in i + 1 .. Len(o) + 1 : f[j] = g[j]
    PROVE  ReadFrames(o, f, i) = ReadFrames(o, g, i)
<1> SUFFICES ASSUME i <= Len(o), ~Garbled(o, i)
             PROVE  f[NextFrame(o, i)] = g[NextFrame(o, i)]
  BY DEF ReadFrames
<1> DEFINE end == TextEnd(o, i)
<1>1. TextFrom(o, i) \in Nat /\ i <= TextFrom(o, i) /\ Len(o) \in Nat /\ i \in Nat
  BY DEF TextFrom
<1>2. end \in S3s(o, TextFrom(o, i))
  <2> DEFINE S == S3s(o, TextFrom(o, i))
  <2>1. S \subseteq Nat /\ S # {}
    BY <1>1 DEF S3s, Garbled
  <2> HIDE DEF S
  <2>2. \E x \in S : \A y \in S : x <= y
    BY <2>1, LeastMember
  <2> QED BY <2>2 DEF TextEnd, Min, S
<1>3. end \in Nat /\ i <= end /\ end <= Len(o) /\ (BothAt(o, end) => end < Len(o))
  BY <1>1, <1>2 DEF S3s, BothAt
<1>4. NextFrame(o, i) = IF BothAt(o, end) THEN end + 2 ELSE end + 1
  BY <1>3 DEF NextFrame
<1> HIDE DEF end
<1>5. NextFrame(o, i) \in i + 1 .. Len(o) + 1
  BY <1>1, <1>3, <1>4
<1> QED BY <1>5

LEMMA FramesUnfold ==
    ASSUME NEW o \in Seq(Token)
    PROVE  \E read : /\ \A i \in 1 .. Len(o) + 1 : read[i] = ReadFrames(o, read, i)
                     /\ Frames(o) = read[1]
<1> DEFINE n == Len(o)
           Reads(g, k) == \A i \in k .. n + 1 : g[i] = ReadFrames(o, g, i)
           T == {k \in 0 .. n : \E g : Reads(g, n + 1 - k)}
           Unfold(g) == [i \in 1 .. n + 1 |-> ReadFrames(o, g, i)]
           read == CHOOSE g : g = Unfold(g)
<1>1. n \in Nat
  OBVIOUS
<1>2. 0 .. n \subseteq T
  <2>1. 0 \in T
    <3>1. PICK g : g = [i \in {n + 1} |-> <<>>]
      OBVIOUS
    <3>2. ASSUME NEW i \in n + 1 .. n + 1 PROVE g[i] = ReadFrames(o, g, i)
      <4>1. i = n + 1 /\ i > Len(o)
        BY <1>1, <3>2
      <4>2. g[i] = <<>>
        BY <3>1, <4>1
      <4> HIDE DEF n
      <4> QED BY <4>1, <4>2 DEF ReadFrames
    <3>3. Reads(g, n + 1 - 0)
      BY <1>1, <3>2
    <3> HIDE DEF Reads
    <3> QED BY <1>1, <3>3
  <2>2. ASSUME NEW k \in 0 .. n - 1, k \in T PROVE k + 1 \in T
    <3>1. PICK g : Reads(g, n + 1 - k)
      BY <2>2
    <3>2. PICK m \in 1 .. n : m = n + 1 - (k + 1) /\ m + 1 = n + 1 - k /\ k + 1 \in 0 .. n
      BY <1>1
    <3>3. PICK h : h = [i \in m .. n + 1 |-> IF i = m THEN ReadFrames(o, g, m) ELSE g[i]]
      OBVIOUS
    <3>4. \A j \in m + 1 .. n + 1 : h[j] = g[j]
      BY <1>1, <3>3
    <3>5. h[m] = ReadFrames(o, g, m)
      BY <1>1, <3>3
    <3>6. ASSUME NEW i \in m .. n + 1 PROVE h[i] = ReadFrames(o, h, i)
      <4>1. i \in 1 .. Len(o) + 1 /\ \A j \in i + 1 .. Len(o) + 1 : h[j] = g[j]
        BY <1>1, <3>4
      <4>2. ReadFrames(o, h, i) = ReadFrames(o, g, i)
        BY <4>1, ReadForward
      <4>3. CASE i = m
        BY <3>5, <4>2, <4>3
      <4>4. CASE i # m
        <5>1. i \in m + 1 .. n + 1 /\ i \in n + 1 - k .. n + 1
          BY <1>1, <3>2, <4>4
        <5> HIDE DEF n
        <5> QED BY <3>1, <3>4, <4>2, <5>1
      <4> QED BY <4>3, <4>4
    <3>7. Reads(h, n + 1 - (k + 1))
      BY <3>2, <3>6
    <3> HIDE DEF Reads
    <3> QED BY <3>2, <3>7
  <2> HIDE DEF T, n
  <2> QED BY <1>1, <2>1, <2>2, IntervalInduction
<1>3. \E g : Reads(g, 1)
  <2>1. n \in T
    <3> HIDE DEF T
    <3> QED BY <1>1, <1>2
  <2>2. n + 1 - n = 1
    BY <1>1
  <2> HIDE DEF Reads
  <2> QED BY <2>1, <2>2
<1>4. PICK g : Reads(g, 1)
  BY <1>3
<1>5. PICK r : r = [i \in 1 .. n + 1 |-> g[i]]
  OBVIOUS
<1>6. r = Unfold(r)
  <2>1. ASSUME NEW i \in 1 .. n + 1 PROVE r[i] = ReadFrames(o, r, i)
    <3>1. \A j \in i + 1 .. Len(o) + 1 : r[j] = g[j]
      BY <1>1, <1>5
    <3>2. ReadFrames(o, r, i) = ReadFrames(o, g, i)
      BY <3>1, ReadForward
    <3> QED BY <1>4, <1>5, <3>2
  <2>2. r = [i \in 1 .. n + 1 |-> r[i]]
    BY <1>5
  <2> HIDE DEF n
  <2> QED BY <2>1, <2>2
<1>7. read = Unfold(read)
  <2> HIDE DEF Unfold
  <2> QED BY <1>6
<1>8. Frames(o) = read[1]
  BY DEF Frames, ReadFrames
<1>9. \A i \in 1 .. Len(o) + 1 : read[i] = ReadFrames(o, read, i)
  <2> HIDE DEF read
  <2> QED BY <1>7
<1> HIDE DEF read
<1> QED BY <1>8, <1>9

(* A frame of o that begins at i and is followed at next, as printed: both *)
(* characters around the text, both behind it, or S3 alone behind it.      *)
FrameAt(o, i, next, heard) ==
    \E from, end \in 1 .. Len(o) :
       /\ 1 <= i /\ from <= end
       /\ o[i] # "S4"
       /\ \A j \in from .. end - 1 : o[j] # "S3"
       /\ o[end] = "S3"
       /\ Heard(SubSeq(o, from, end - 1)) = heard
       /\ \/ /\ from = i + 2 /\ o[i] = "S3" /\ o[i + 1] = "S4"
             /\ end < Len(o) /\ o[end + 1] = "S4" /\ next = end + 2
          \/ from = i /\ i < end /\ end < Len(o) /\ o[end + 1] = "S4" /\ next = end + 2
          \/ from = i /\ next = end + 1

(* o is nothing but frames, for s. *)
Framed(o, s) ==
    \E at \in [1 .. Len(s) + 1 -> Nat] :
       /\ at[1] = 1 /\ at[Len(s) + 1] = Len(o) + 1
       /\ \A k \in 1 .. Len(s) : FrameAt(o, at[k], at[k + 1], s[k])

(* No frame begins with S4. *)
Followed(o, next) == next = Len(o) + 1 \/ o[next] # "S4"

(* What the client makes of a frame with this text. *)
ReadsAs(o, i, next, t) == \A f : ReadFrames(o, f, i) = <<t>> \o f[next]

LEMMA FrameRead ==
    ASSUME NEW o \in Seq(Token), NEW i \in Nat, NEW next \in Nat, NEW b,
           FrameAt(o, i, next, b), Followed(o, next)
    PROVE  /\ 1 <= i /\ i < next /\ next <= Len(o) + 1
           /\ \E t \in Seq(Token) : Heard(t) = b /\ ReadsAs(o, i, next, t)
<1>1. PICK from \in 1 .. Len(o), end \in 1 .. Len(o) :
         /\ 1 <= i /\ from <= end
         /\ o[i] # "S4"
         /\ \A j \in from .. end - 1 : o[j] # "S3"
         /\ o[end] = "S3"
         /\ Heard(SubSeq(o, from, end - 1)) = b
         /\ \/ /\ from = i + 2 /\ o[i] = "S3" /\ o[i + 1] = "S4"
               /\ end < Len(o) /\ o[end + 1] = "S4" /\ next = end + 2
            \/ from = i /\ i < end /\ end < Len(o) /\ o[end + 1] = "S4" /\ next = end + 2
            \/ from = i /\ next = end + 1
  BY DEF FrameAt
<1>2. Len(o) \in Nat /\ i \in Nat /\ i < next /\ next <= Len(o) + 1 /\ i <= Len(o)
  BY <1>1
<1>3. TextFrom(o, i) = from
  <2>1. CASE from = i + 2
    BY <1>1, <1>2, <2>1 DEF TextFrom, BothAt
  <2>2. CASE from = i /\ i < end
    <3>1. o[i] # "S3"
      BY <1>1, <1>2, <2>2
    <3> QED BY <2>2, <3>1 DEF TextFrom, BothAt
  <2>3. CASE from = i /\ i = end
    <3>1. i < Len(o) => o[i + 1] # "S4"
      BY <1>1, <1>2, <2>3 DEF Followed
    <3> QED BY <2>3, <3>1 DEF TextFrom, BothAt
  <2> QED BY <1>1, <1>2, <2>1, <2>2, <2>3
<1>4. TextEnd(o, i) = end
  <2>1. end \in S3s(o, from) /\ \A j \in S3s(o, from) : end <= j
    BY <1>1 DEF S3s
  <2>2. \A x \in S3s(o, from) : (\A y \in S3s(o, from) : x <= y) => x = end
    BY <2>1 DEF S3s
  <2> HIDE DEF S3s
  <2> QED BY <1>3, <2>1, <2>2 DEF TextEnd, Min
<1>5. end \in S3s(o, from)
  BY <1>1 DEF S3s
<1>6. BothAt(o, end) <=> next = end + 2
  BY <1>1, <1>2 DEF BothAt, Followed
<1>7. NextFrame(o, i) = next
  BY <1>1, <1>4, <1>6 DEF NextFrame
<1>8. ~Garbled(o, i)
  <2>1. BothAt(o, i) => from = i + 2
    BY <1>3 DEF TextFrom
  <2>2. from = i + 2 => next = end + 2
    BY <1>1, <1>2
  <2> QED BY <1>3, <1>4, <1>5, <1>6, <2>1, <2>2 DEF Garbled
<1>9. \A f : ReadFrames(o, f, i) = <<SubSeq(o, from, end - 1)>> \o f[next]
  BY <1>2, <1>3, <1>4, <1>7, <1>8 DEF ReadFrames
<1>10. SubSeq(o, from, end - 1) \in Seq(Token)
  OBVIOUS
<1> QED BY <1>1, <1>2, <1>9, <1>10 DEF ReadsAs

LEMMA FramedRead ==
    ASSUME NEW o \in Seq(Token), NEW s \in Seq(Seq(Token)), Framed(o, s)
    PROVE  [i \in DOMAIN Frames(o) |-> Heard(Frames(o)[i])] = s
<1> DEFINE n == Len(s)
<1>1. PICK at \in [1 .. n + 1 -> Nat] :
         /\ at[1] = 1 /\ at[n + 1] = Len(o) + 1
         /\ \A k \in 1 .. n : FrameAt(o, at[k], at[k + 1], s[k])
  BY DEF Framed
<1>2. PICK read : /\ \A i \in 1 .. Len(o) + 1 : read[i] = ReadFrames(o, read, i)
                  /\ Frames(o) = read[1]
  BY FramesUnfold
<1>3. n \in Nat /\ Len(o) \in Nat
  OBVIOUS
<1> HIDE DEF n
<1> DEFINE Rest(k) == read[at[n + 1 - k]]
           Good(g, k) == /\ g \in Seq(Seq(Token)) /\ Len(g) = k
                         /\ \A j \in 1 .. k : Heard(g[j]) = s[n - k + j]
           T == {k \in 0 .. n : at[n + 1 - k] \in 1 .. Len(o) + 1 /\ Good(Rest(k), k)}
<1>4. 0 .. n \subseteq T
  <2>1. 0 \in T
    <3>1. n + 1 - 0 = n + 1 /\ Len(o) + 1 \in 1 .. Len(o) + 1 /\ Len(o) + 1 > Len(o)
      BY <1>3
    <3>2. Rest(0) = <<>>
      BY <1>1, <1>2, <3>1 DEF ReadFrames
    <3>3. Good(<<>>, 0)
      OBVIOUS
    <3>4. Good(Rest(0), 0)
      <4> HIDE DEF Rest, Good
      <4> QED BY <3>2, <3>3
    <3> HIDE DEF Rest, Good
    <3> QED BY <1>1, <1>3, <3>1, <3>4
  <2>2. ASSUME NEW k \in 0 .. n - 1, k \in T PROVE k + 1 \in T
    <3>1. PICK m \in 1 .. n : m = n - k /\ m + 1 = n + 1 - k /\ m = n + 1 - (k + 1)
      BY <1>3
    <3>2. FrameAt(o, at[m], at[m + 1], s[m])
      BY <1>1, <3>1
    <3>3. PICK i \in Nat, next \in 1 .. Len(o) + 1 : i = at[m] /\ next = at[m + 1]
      BY <1>1, <1>3, <2>2, <3>1
    <3>4. Followed(o, next)
      <4>1. CASE k = 0
        BY <1>1, <1>3, <3>1, <3>3, <4>1 DEF Followed
      <4>2. CASE k # 0
        <5>1. m + 1 \in 1 .. n
          BY <1>3, <3>1, <4>2
        <5>2. FrameAt(o, at[m + 1], at[m + 2], s[m + 1])
          BY <1>1, <1>3, <5>1
        <5> QED BY <3>3, <5>2 DEF FrameAt, Followed
      <4> QED BY <4>1, <4>2
    <3>5. PICK t \in Seq(Token) : /\ 1 <= i /\ i < next
                                  /\ Heard(t) = s[m]
                                  /\ ReadFrames(o, read, i) = <<t>> \o read[next]
      <4>1. PICK b : b = s[m]
        OBVIOUS
      <4>2. next \in Nat /\ FrameAt(o, i, next, b)
        BY <1>3, <3>2, <3>3, <4>1
      <4> HIDE DEF n, Rest, T, Good
      <4>3. /\ 1 <= i /\ i < next
            /\ \E t \in Seq(Token) : Heard(t) = b /\ ReadsAs(o, i, next, t)
        BY <3>4, <4>2, FrameRead
      <4> QED BY <4>1, <4>3 DEF ReadsAs
    <3>6. i \in 1 .. Len(o) + 1
      BY <1>3, <3>3, <3>5
    <3>7. Rest(k + 1) = <<t>> \o Rest(k)
      BY <1>2, <3>1, <3>3, <3>5, <3>6
    <3>8. Good(Rest(k), k)
      BY <2>2
    <3>9. PICK g \in Seq(Seq(Token)) : g = Rest(k) /\ Good(g, k)
      <4> HIDE DEF Rest
      <4> QED BY <3>8
    <3>10. Good(<<t>> \o g, k + 1)
      <4>1. PICK h : h = <<t>> \o g
        OBVIOUS
      <4>2. h \in Seq(Seq(Token)) /\ Len(h) = k + 1 /\ h[1] = t
            /\ \A j \in 2 .. k + 1 : h[j] = g[j - 1]
        BY <3>9, <4>1, SMTT(30)
      <4>3. ASSUME NEW j \in 1 .. k + 1 PROVE Heard(h[j]) = s[n - (k + 1) + j]
        <5>1. CASE j = 1
          <6>1. n - (k + 1) + 1 = m
            BY <1>3, <3>1
          <6> QED BY <3>5, <4>2, <5>1, <6>1
        <5>2. CASE j # 1
          <6>1. j - 1 \in 1 .. k /\ j \in 2 .. k + 1 /\ n - k + (j - 1) = n - (k + 1) + j
            BY <1>3, <5>2
          <6>2. Heard(g[j - 1]) = s[n - k + (j - 1)]
            BY <3>9, <6>1
          <6> QED BY <4>2, <6>1, <6>2
        <5> QED BY <5>1, <5>2
      <4> QED BY <4>1, <4>2, <4>3
    <3> HIDE DEF Good
    <3>11. at[n + 1 - (k + 1)] \in 1 .. Len(o) + 1 /\ k + 1 \in 0 .. n
      BY <1>3, <3>1, <3>3, <3>6
    <3>12. Good(Rest(k + 1), k + 1)
      <4> HIDE DEF Rest
      <4> QED BY <3>7, <3>9, <3>10
    <3> HIDE DEF Rest
    <3> QED BY <3>11, <3>12
  <2>3. \A k \in 0 .. n - 1 : k \in T => k + 1 \in T
    <3> HIDE DEF T
    <3> QED BY <2>2
  <2> HIDE DEF T
  <2>4. 0 \in Int /\ n \in Int
    BY <1>3
  <2> QED BY <2>1, <2>3, <2>4, IntervalInduction
<1>5. Good(Frames(o), n)
  <2>1. n \in T /\ n + 1 - n = 1
    <3> HIDE DEF T
    <3> QED BY <1>3, <1>4
  <2>2. Good(Rest(n), n)
    <3> HIDE DEF Good, Rest
    <3> QED BY <2>1
  <2>3. Rest(n) = Frames(o)
    BY <1>1, <1>2, <2>1
  <2> HIDE DEF Good, Rest
  <2> QED BY <2>2, <2>3
<1>6. DOMAIN Frames(o) = 1 .. n /\ \A j \in 1 .. n : Heard(Frames(o)[j]) = s[j]
  BY <1>3, <1>5
<1>7. s = [j \in 1 .. n |-> s[j]]
  BY DEF n
<1> QED BY <1>6, <1>7

(* What is printed later or earlier does not change a frame. *)
LEMMA FrameKept ==
    ASSUME NEW o \in Seq(Token), NEW f \in Seq(Token), NEW i \in Nat, NEW next \in Nat,
           NEW b, FrameAt(o, i, next, b)
    PROVE  FrameAt(o \o f, i, next, b)
<1>1. PICK p : p = o \o f
  OBVIOUS
<1>2. /\ p \in Seq(Token) /\ Len(p) = Len(o) + Len(f) /\ Len(o) \in Nat /\ Len(f) \in Nat
      /\ \A j \in 1 .. Len(o) : p[j] = o[j]
  BY <1>1
<1>3. PICK from \in 1 .. Len(o), end \in 1 .. Len(o) :
         /\ 1 <= i /\ from <= end
         /\ o[i] # "S4"
         /\ \A j \in from .. end - 1 : o[j] # "S3"
         /\ o[end] = "S3"
         /\ Heard(SubSeq(o, from, end - 1)) = b
         /\ \/ /\ from = i + 2 /\ o[i] = "S3" /\ o[i + 1] = "S4"
               /\ end < Len(o) /\ o[end + 1] = "S4" /\ next = end + 2
            \/ from = i /\ i < end /\ end < Len(o) /\ o[end + 1] = "S4" /\ next = end + 2
            \/ from = i /\ next = end + 1
  BY DEF FrameAt
<1>4. SubSeq(p, from, end - 1) = SubSeq(o, from, end - 1)
  <2>1. ASSUME NEW j \in 1 .. (end - 1) - from + 1
        PROVE  SubSeq(p, from, end - 1)[j] = SubSeq(o, from, end - 1)[j]
    <3>1. from + j - 1 \in 1 .. Len(o)
      BY <1>2
    <3>2. /\ SubSeq(o, from, end - 1)[j] = o[from + j - 1]
          /\ SubSeq(p, from, end - 1)[j] = p[from + j - 1]
      BY <1>2, <3>1
    <3> QED BY <1>2, <3>1, <3>2
  <2> QED BY <1>2, <2>1, SMTT(30)
<1>5. from \in 1 .. Len(p) /\ end \in 1 .. Len(p)
  BY <1>2
<1>6. i \in 1 .. Len(o) /\ p[i] = o[i] /\ p[end] = o[end]
      /\ (from = i + 2 => p[i + 1] = o[i + 1]) /\ (end < Len(o) => p[end + 1] = o[end + 1] /\ end < Len(p))
      /\ \A j \in from .. end - 1 : p[j] = o[j]
  <2>1. i \in 1 .. Len(o) /\ end \in 1 .. Len(o) /\ (from = i + 2 => i + 1 \in 1 .. Len(o))
        /\ (end < Len(o) => end + 1 \in 1 .. Len(o) /\ end < Len(p))
    BY <1>2, <1>3
  <2>2. \A j \in from .. end - 1 : j \in 1 .. Len(o)
    BY <1>2
  <2> QED BY <1>2, <2>1, <2>2
<1>7. Heard(SubSeq(p, from, end - 1)) = b
  BY <1>3, <1>4
<1>8. FrameAt(p, i, next, b)
  BY <1>3, <1>5, <1>6, <1>7, ZenonT(30) DEF FrameAt
<1> QED BY <1>1, <1>8

LEMMA FrameMoved ==
    ASSUME NEW o \in Seq(Token), NEW f \in Seq(Token), NEW b, FrameAt(f, 1, Len(f) + 1, b)
    PROVE  FrameAt(o \o f, Len(o) + 1, Len(o \o f) + 1, b)
<1>1. PICK p : p = o \o f
  OBVIOUS
<1>2. PICK l \in Nat : l = Len(o)
  OBVIOUS
<1>3. /\ p \in Seq(Token) /\ Len(p) = l + Len(f) /\ Len(f) \in Nat
      /\ \A j \in 1 .. Len(f) : p[l + j] = f[j]
  BY <1>1, <1>2
<1>4. PICK from \in 1 .. Len(f), end \in 1 .. Len(f) :
         /\ 1 <= 1 /\ from <= end
         /\ f[1] # "S4"
         /\ \A j \in from .. end - 1 : f[j] # "S3"
         /\ f[end] = "S3"
         /\ Heard(SubSeq(f, from, end - 1)) = b
         /\ \/ /\ from = 1 + 2 /\ f[1] = "S3" /\ f[1 + 1] = "S4"
               /\ end < Len(f) /\ f[end + 1] = "S4" /\ Len(f) + 1 = end + 2
            \/ from = 1 /\ 1 < end /\ end < Len(f) /\ f[end + 1] = "S4" /\ Len(f) + 1 = end + 2
            \/ from = 1 /\ Len(f) + 1 = end + 1
  BY DEF FrameAt
<1>5. PICK from2 \in 1 .. Len(p), end2 \in 1 .. Len(p) : from2 = l + from /\ end2 = l + end
  BY <1>3
<1>6. SubSeq(p, from2, end2 - 1) = SubSeq(f, from, end - 1)
  <2>1. \A j \in 1 .. (end - 1) - from + 1 : SubSeq(p, from2, end2 - 1)[j] = SubSeq(f, from, end - 1)[j]
    <3>1. ASSUME NEW j \in 1 .. (end - 1) - from + 1
          PROVE  SubSeq(p, from2, end2 - 1)[j] = SubSeq(f, from, end - 1)[j]
      <4>1. from + j - 1 \in 1 .. Len(f) /\ from2 + j - 1 = l + (from + j - 1)
            /\ j \in 1 .. (end2 - 1) - from2 + 1
        BY <1>3, <1>5
      <4>2. SubSeq(f, from, end - 1)[j] = f[from + j - 1]
        BY <1>3, SMTT(20)
      <4>3. SubSeq(p, from2, end2 - 1)[j] = p[from2 + j - 1]
        BY <1>3, <4>1
      <4> QED BY <1>3, <4>1, <4>2, <4>3
    <3> QED BY <3>1
  <2>2. PICK u, v : u = SubSeq(p, from2, end2 - 1) /\ v = SubSeq(f, from, end - 1)
    OBVIOUS
  <2>3. (end2 - 1) - from2 + 1 = (end - 1) - from + 1 /\ (from2 <= end2 - 1 <=> from <= end - 1)
    BY <1>5
  <2>4. /\ u \in Seq(Token) /\ v \in Seq(Token) /\ Len(u) = Len(v)
        /\ Len(u) = (end - 1) - from + 1 \/ Len(u) = 0
    <3>1. /\ u \in Seq(Token) /\ Len(u) = IF from2 <= end2 - 1 THEN (end2 - 1) - from2 + 1 ELSE 0
      <4>1. p \in Seq(Token) /\ from2 \in 1 .. Len(p) /\ end2 \in 1 .. Len(p)
        BY <1>3
      <4> QED BY <2>2, <4>1
    <3>2. /\ v \in Seq(Token) /\ Len(v) = IF from <= end - 1 THEN (end - 1) - from + 1 ELSE 0
      BY <2>2
    <3> QED BY <2>3, <3>1, <3>2
  <2>5. \A j \in 1 .. Len(u) : u[j] = v[j]
    BY <2>1, <2>2, <2>4
  <2>6. u = v
    BY <2>4, <2>5, SMTT(30)
  <2> QED BY <2>2, <2>6
<1>7. Heard(SubSeq(p, from2, end2 - 1)) = b
  BY <1>4, <1>6
<1>8. \A j \in from2 .. end2 - 1 : p[j] # "S3"
  <2>1. ASSUME NEW j \in from2 .. end2 - 1 PROVE p[j] # "S3"
    <3>1. PICK m \in from .. end - 1 : j = l + m /\ m \in 1 .. Len(f)
      <4>1. j - l \in from .. end - 1 /\ j - l \in 1 .. Len(f) /\ j = l + (j - l)
        BY <1>3, <1>5
      <4> QED BY <4>1
    <3> QED BY <1>3, <1>4, <3>1
  <2> QED BY <2>1
<1>9. /\ p[l + 1] = f[1] /\ p[end2] = f[end]
      /\ (from = 3 => p[l + 2] = f[2]) /\ (end < Len(f) => p[end2 + 1] = f[end + 1])
  <2>1. 1 \in 1 .. Len(f) /\ end \in 1 .. Len(f) /\ (from = 3 => 2 \in 1 .. Len(f))
        /\ (end < Len(f) => end + 1 \in 1 .. Len(f) /\ l + (end + 1) = end2 + 1)
    BY <1>3, <1>4, <1>5
  <2> QED BY <1>3, <1>5, <2>1
<1>10. PICK i, next : i = l + 1 /\ next = Len(p) + 1
  OBVIOUS
<1>11. p \in Seq(Token) /\ Len(p) = l + Len(f) /\ Len(f) \in Nat /\ i \in Nat /\ next \in Nat
  BY <1>3, <1>10
<1>12. FrameAt(p, i, next, b)
  <2>1. /\ 1 <= i /\ from2 <= end2 /\ p[i] # "S4" /\ p[end2] = "S3"
    BY <1>4, <1>5, <1>9, <1>10
  <2>2. \/ /\ from2 = i + 2 /\ p[i] = "S3" /\ p[i + 1] = "S4"
           /\ end2 < Len(p) /\ p[end2 + 1] = "S4" /\ next = end2 + 2
        \/ from2 = i /\ i < end2 /\ end2 < Len(p) /\ p[end2 + 1] = "S4" /\ next = end2 + 2
        \/ from2 = i /\ next = end2 + 1
    <3>1. i + 1 = l + 2 /\ i \in Nat /\ next \in Nat /\ 1 + 2 = 3 /\ 1 + 1 = 2
          /\ next = l + Len(f) + 1
      BY <1>3, <1>10
    <3>2. CASE from = 1 + 2 /\ f[1] = "S3" /\ f[1 + 1] = "S4"
               /\ end < Len(f) /\ f[end + 1] = "S4" /\ Len(f) + 1 = end + 2
      <4>1. from2 = i + 2 /\ end2 < Len(p) /\ next = end2 + 2 /\ from = 3 /\ end < Len(f)
        <5>1. from = 3 /\ end < Len(f) /\ Len(f) + 1 = end + 2
          BY <3>2
        <5> QED BY <1>5, <1>10, <1>11, <5>1, SMTT(30)
      <4> QED BY <1>9, <1>10, <3>1, <3>2, <4>1
    <3>3. CASE from = 1 /\ 1 < end /\ end < Len(f) /\ f[end + 1] = "S4" /\ Len(f) + 1 = end + 2
      <4>1. from2 = i /\ i < end2 /\ end2 < Len(p) /\ next = end2 + 2 /\ end < Len(f)
        BY <1>5, <1>10, <1>11, <3>3, SMTT(20)
      <4> QED BY <1>9, <3>3, <4>1
    <3>4. CASE from = 1 /\ Len(f) + 1 = end + 1
      <4>1. from2 = i /\ next = end2 + 1
        BY <1>5, <1>10, <1>11, <3>4, SMTT(30)
      <4> QED BY <4>1
    <3> QED BY <1>4, <3>2, <3>3, <3>4
  <2> QED BY <1>7, <1>8, <2>1, <2>2 DEF FrameAt
<1> QED BY <1>1, <1>2, <1>10, <1>12

LEMMA FrameAppended ==
    ASSUME NEW o \in Seq(Token), NEW s \in Seq(Seq(Token)), Framed(o, s),
           NEW f \in Seq(Token), NEW b \in Seq(Token), FrameAt(f, 1, Len(f) + 1, b)
    PROVE  Framed(o \o f, Append(s, b))
<1>1. PICK n \in Nat : n = Len(s)
  OBVIOUS
<1>2. PICK at \in [1 .. n + 1 -> Nat] :
         /\ at[1] = 1 /\ at[n + 1] = Len(o) + 1
         /\ \A k \in 1 .. n : FrameAt(o, at[k], at[k + 1], s[k])
  BY <1>1 DEF Framed
<1>3. PICK p, t : p = o \o f /\ t = Append(s, b)
  OBVIOUS
<1>4. p \in Seq(Token) /\ t \in Seq(Seq(Token)) /\ Len(t) = n + 1 /\ t[n + 1] = b /\ \A k \in 1 .. n : t[k] = s[k]
  BY <1>1, <1>3
<1>5. PICK to : to = [k \in 1 .. n + 2 |-> IF k = n + 2 THEN Len(p) + 1 ELSE at[k]]
  OBVIOUS
<1>6. to \in [1 .. (n + 1) + 1 -> Nat]
  <2>1. (n + 1) + 1 = n + 2 /\ Len(p) + 1 \in Nat
    OBVIOUS
  <2>2. \A k \in 1 .. n + 2 : k # n + 2 => k \in 1 .. n + 1
    OBVIOUS
  <2> QED BY <1>5, <2>1, <2>2
<1>7. to[1] = 1 /\ to[(n + 1) + 1] = Len(p) + 1 /\ \A k \in 1 .. n + 1 : to[k] = at[k]
  BY <1>2, <1>5
<1>8. ASSUME NEW k \in 1 .. n + 1 PROVE FrameAt(p, to[k], to[k + 1], t[k])
  <2>1. CASE k = n + 1
    <3>1. FrameAt(p, Len(o) + 1, Len(p) + 1, b)
      BY <1>3, FrameMoved
    <3> QED BY <1>2, <1>4, <1>7, <2>1, <3>1
  <2>2. CASE k # n + 1
    <3>1. k \in 1 .. n /\ k \in 1 .. n + 1 /\ k + 1 \in 1 .. n + 1
      BY <2>2
    <3>2. PICK i \in Nat, next \in Nat : i = at[k] /\ next = at[k + 1]
      BY <3>1
    <3>3. FrameAt(o, i, next, s[k])
      BY <1>2, <3>1, <3>2
    <3>4. FrameAt(p, i, next, s[k])
      BY <1>3, <3>3, FrameKept
    <3> QED BY <1>4, <1>7, <3>1, <3>2, <3>4
  <2> QED BY <2>1, <2>2
<1>9. Framed(p, t)
  BY <1>4, <1>6, <1>7, <1>8 DEF Framed
<1> QED BY <1>3, <1>9

(* A header, a text without the two characters and a trailer are a frame.  *)
(* Without a header an empty text has a trailer of one character.          *)
PlainText(body) == \A j \in 1 .. Len(body) : body[j] \notin {"S3", "S4"}
Trailer(is_result_code) ==
    IF is_result_code THEN PrintResultCodeTrailer ELSE PrintInformationTextTrailer

LEMMA FrameEnds ==
    ASSUME m_verbose \in BOOLEAN, NEW is_result_code \in BOOLEAN,
           NEW h, h = PrintResultCodeHeader, NEW t, t = Trailer(is_result_code)
    PROVE  /\ h \in Seq(Token) /\ t \in Seq(Token)
           /\ Len(h) \in {0, 2} /\ Len(t) \in {1, 2} /\ t[1] = "S3"
           /\ Len(h) = 2 => Len(t) = 2 /\ h[1] = "S3" /\ h[2] = "S4"
           /\ Len(t) = 2 => t[2] = "S4"
           /\ Len(h) = 0 /\ Len(t) = 2 => ~is_result_code
<1>1. PICK both, none, s3 : both = <<"S3", "S4">> /\ none = <<>> /\ s3 = <<"S3">>
  OBVIOUS
<1>2. both \in Seq(Token) /\ Len(both) = 2 /\ both[1] = "S3" /\ both[2] = "S4"
  <2>1. "S3" \in Token /\ "S4" \in Token
    BY DEF Token
  <2>2. PICK a \in Token, b \in Token : a = "S3" /\ b = "S4"
    BY <2>1
  <2>3. both = <<a, b>>
    BY <1>1, <2>2
  <2>4. both \in Seq(Token) /\ Len(both) = 2 /\ both[1] = a /\ both[2] = b
    BY <2>3
  <2> QED BY <2>2, <2>4
<1>3. none \in Seq(Token) /\ Len(none) = 0
  BY <1>1
<1>4. s3 \in Seq(Token) /\ Len(s3) = 1 /\ s3[1] = "S3"
  <2>1. PICK a \in Token : a = "S3"
    BY DEF Token
  <2>2. s3 = <<a>>
    BY <1>1, <2>1
  <2>3. s3 \in Seq(Token) /\ Len(s3) = 1 /\ s3[1] = a
    BY <2>2
  <2> QED BY <2>1, <2>3
<1>5. \/ h = both /\ t = both
      \/ h = none /\ t = both /\ ~is_result_code
      \/ h = none /\ t = s3
  BY <1>1 DEF PrintResultCodeHeader, Trailer, PrintResultCodeTrailer,
              PrintInformationTextHeader, PrintInformationTextTrailer
<1>6. CASE h = both /\ t = both
  <2>1. /\ h \in Seq(Token) /\ Len(h) = 2 /\ h[1] = "S3" /\ h[2] = "S4"
        /\ t \in Seq(Token) /\ Len(t) = 2 /\ t[1] = "S3" /\ t[2] = "S4"
    BY <1>2, <1>6, Zenon
  <2>2. Len(h) # 0
    BY <2>1
  <2> QED BY <2>1, <2>2, Zenon
<1>7. CASE h = none /\ t = both /\ ~is_result_code
  <2>1. /\ h \in Seq(Token) /\ Len(h) = 0
        /\ t \in Seq(Token) /\ Len(t) = 2 /\ t[1] = "S3" /\ t[2] = "S4"
    BY <1>2, <1>3, <1>7, Zenon
  <2>2. Len(h) # 2
    BY <2>1
  <2> QED BY <1>7, <2>1, <2>2, Zenon
<1>8. CASE h = none /\ t = s3
  <2>1. h \in Seq(Token) /\ t \in Seq(Token) /\ Len(h) = 0 /\ Len(t) = 1 /\ t[1] = "S3"
    BY <1>3, <1>4, <1>8
  <2>2. Len(h) # 2 /\ Len(t) # 2
    BY <2>1
  <2> QED BY <2>1, <2>2
<1> QED BY <1>5, <1>6, <1>7, <1>8

LEMMA TextFrame ==
    ASSUME m_verbose \in BOOLEAN, NEW body \in Seq(Token), NEW is_result_code \in BOOLEAN,
           PlainText(body), body = <<>> => is_result_code,
           NEW f, f = (PrintResultCodeHeader \o body) \o Trailer(is_result_code)
    PROVE  f \in Seq(Token) /\ FrameAt(f, 1, Len(f) + 1, Heard(body))
<1>1. PICK h, t : h = PrintResultCodeHeader /\ t = Trailer(is_result_code)
  OBVIOUS
<1>3. /\ h \in Seq(Token) /\ t \in Seq(Token)
      /\ Len(h) \in {0, 2} /\ Len(t) \in {1, 2} /\ t[1] = "S3"
      /\ Len(h) = 2 => Len(t) = 2 /\ h[1] = "S3" /\ h[2] = "S4"
      /\ Len(t) = 2 => t[2] = "S4"
      /\ Len(h) = 0 /\ Len(t) = 2 => body # <<>>
  BY <1>1, FrameEnds
<1>4. PICK g : g = h \o body
  OBVIOUS
<1>5. PICK m \in Nat, n \in Nat, l \in Nat : m = Len(h) /\ n = Len(body) /\ l = Len(t)
  BY <1>3
<1>6. /\ g \in Seq(Token) /\ Len(g) = m + n
      /\ \A j \in 1 .. m : g[j] = h[j]
      /\ \A j \in 1 .. n : g[m + j] = body[j]
  BY <1>3, <1>4, <1>5
<1>7. /\ f \in Seq(Token) /\ Len(f) = m + n + l
      /\ \A j \in 1 .. m + n : f[j] = g[j]
      /\ \A j \in 1 .. l : f[m + n + j] = t[j]
  <2>1. f = g \o t
    BY <1>1, <1>4
  <2>2. /\ f \in Seq(Token) /\ Len(f) = Len(g) + Len(t)
        /\ \A j \in 1 .. Len(g) : f[j] = g[j]
        /\ \A j \in 1 .. Len(t) : f[Len(g) + j] = t[j]
    <3>1. g \in Seq(Token) /\ t \in Seq(Token)
      BY <1>3, <1>6
    <3> QED BY <2>1, <3>1
  <2> QED BY <1>5, <1>6, <2>2
<1>8. /\ \A j \in 1 .. m : f[j] = h[j]
      /\ \A j \in 1 .. n : f[m + j] = body[j]
  <2>1. ASSUME NEW j \in 1 .. n PROVE f[m + j] = body[j]
    <3>1. m + j \in 1 .. m + n
      OBVIOUS
    <3> QED BY <1>6, <1>7, <3>1
  <2>2. ASSUME NEW j \in 1 .. m PROVE f[j] = h[j]
    <3>1. j \in 1 .. m + n
      OBVIOUS
    <3> QED BY <1>6, <1>7, <3>1
  <2> QED BY <2>1, <2>2
<1>9. PICK from, end : from = m + 1 /\ end = m + n + 1
  OBVIOUS
<1>10. /\ from \in 1 .. Len(f) /\ end \in 1 .. Len(f) /\ from <= end
       /\ m \in {0, 2} /\ l \in {1, 2}
  <2>1. m \in {0, 2} /\ l \in {1, 2}
    BY <1>3, <1>5
  <2>2. Len(f) = m + n + l
    BY <1>7
  <2> QED BY <1>9, <2>1, <2>2
<1>11. f[end] = "S3" /\ (l = 2 => f[end + 1] = "S4")
  <2>1. 1 \in 1 .. l /\ (l = 2 => 2 \in 1 .. l /\ m + n + 2 = end + 1)
    BY <1>9, <1>10
  <2> QED BY <1>3, <1>5, <1>7, <1>9, <2>1
<1>12. \A j \in from .. end - 1 : f[j] \notin {"S3", "S4"}
  <2>1. ASSUME NEW j \in from .. end - 1 PROVE f[j] \notin {"S3", "S4"}
    <3>1. PICK k \in 1 .. n : j = m + k
      <4>1. j - m \in 1 .. n /\ j = m + (j - m)
        BY <1>9, <1>10
      <4> QED BY <4>1
    <3> QED BY <1>5, <1>8, <3>1 DEF PlainText
  <2> QED BY <2>1
<1>13. SubSeq(f, from, end - 1) = body
  <2>1. PICK u : u = SubSeq(f, from, end - 1)
    OBVIOUS
  <2>2. u \in Seq(Token) /\ Len(u) = n
    <3>1. (end - 1) - from + 1 = n /\ (from <= end - 1 <=> 1 <= n)
      BY <1>9
    <3>2. u \in Seq(Token) /\ Len(u) = IF from <= end - 1 THEN (end - 1) - from + 1 ELSE 0
      BY <1>7, <1>10, <2>1
    <3> QED BY <3>1, <3>2
  <2>3. ASSUME NEW j \in 1 .. n PROVE u[j] = body[j]
    <3>1. j \in 1 .. (end - 1) - from + 1 /\ from + j - 1 = m + j
      BY <1>9
    <3>2. u[j] = f[from + j - 1]
      <4>1. f \in Seq(Token)
        BY <1>7
      <4> QED BY <1>10, <2>1, <3>1, <4>1, SMTT(30)
    <3> QED BY <1>8, <3>1, <3>2
  <2>4. u = body
    BY <1>5, <2>2, <2>3
  <2> QED BY <2>1, <2>4
<1>14. PICK one, next : one = 1 /\ next = Len(f) + 1
  OBVIOUS
<1>15. f[one] # "S4"
  <2>1. CASE m = 2
    <3>1. 1 \in 1 .. m
      BY <2>1
    <3> QED BY <1>3, <1>5, <1>8, <1>14, <2>1, <3>1
  <2>2. CASE m = 0 /\ n = 0
    <3>1. end = one
      BY <1>9, <1>14, <2>2
    <3> QED BY <1>11, <3>1
  <2>3. CASE m = 0 /\ n # 0
    <3>1. 1 \in from .. end - 1
      BY <1>9, <2>3
    <3> QED BY <1>12, <1>14, <3>1
  <2> QED BY <1>10, <2>1, <2>2, <2>3
<1>16. \/ /\ from = one + 2 /\ f[one] = "S3" /\ f[one + 1] = "S4"
          /\ end < Len(f) /\ f[end + 1] = "S4" /\ next = end + 2
       \/ from = one /\ one < end /\ end < Len(f) /\ f[end + 1] = "S4" /\ next = end + 2
       \/ from = one /\ next = end + 1
  <2>1. CASE m = 2
    <3>1. 1 \in 1 .. m /\ 2 \in 1 .. m /\ l = 2
      BY <1>3, <1>5, <2>1
    <3>2. f[1] = "S3" /\ f[2] = "S4"
      BY <1>3, <1>5, <1>8, <2>1, <3>1
    <3>3. from = one + 2 /\ one + 1 = 2 /\ end < Len(f) /\ next = end + 2
      BY <1>7, <1>9, <1>14, <2>1, <3>1
    <3> QED BY <1>11, <1>14, <3>1, <3>2, <3>3
  <2>2. CASE m = 0 /\ l = 2
    <3>1. n # 0
      BY <1>3, <1>5, <2>2
    <3>2. from = one /\ one < end /\ end < Len(f) /\ next = end + 2
      BY <1>7, <1>9, <1>14, <2>2, <3>1
    <3> QED BY <1>11, <2>2, <3>2
  <2>3. CASE m = 0 /\ l = 1
    BY <1>7, <1>9, <1>14, <2>3
  <2> QED BY <1>10, <2>1, <2>2, <2>3
<1>17. 1 <= one
  BY <1>14
<1>18. FrameAt(f, one, next, Heard(body))
  BY <1>10, <1>11, <1>12, <1>13, <1>15, <1>16, <1>17 DEF FrameAt
<1> QED BY <1>7, <1>14, <1>18

(* Nothing is heard for a result but a result. *)
LEMMA TextsHeard ==
    /\ \A c \in {"OK", "ERROR"}, b \in BOOLEAN :
          LET t == <<IF b THEN c ELSE RESULT_CODE[c]>>
          IN  t \in Seq(Token) /\ PlainText(t) /\ t # <<>> /\ Heard(t) = <<"result">>
    /\ \A t \in {<<"text">>, <<"digits">>, <<"+name:", "parameters">>, <<"+name:", "ranges">>} :
          t \in Seq(Token) /\ PlainText(t) /\ t # <<>> /\ Heard(t) = t
    /\ <<>> \in Seq(Token) /\ PlainText(<<>>) /\ Heard(<<>>) = <<>>
    /\ <<"result">> \in Seq(Token)
<1> DEFINE One(a) == <<a>>
           Two(a, b) == <<a, b>>
<1>1. ASSUME NEW a \in Token PROVE One(a) \in Seq(Token) /\ Len(One(a)) = 1 /\ One(a)[1] = a /\ One(a) # <<>>
  OBVIOUS
<1>2. ASSUME NEW a \in Token, NEW b \in Token
      PROVE  /\ Two(a, b) \in Seq(Token) /\ Len(Two(a, b)) = 2
             /\ Two(a, b)[1] = a /\ Two(a, b)[2] = b /\ Two(a, b) # <<>>
  OBVIOUS
<1>3. DOMAIN RESULT_CODE = {"OK", "ERROR"} /\ RESULT_CODE["OK"] = "0" /\ RESULT_CODE["ERROR"] = "4"
  BY DEF RESULT_CODE
<1>4. ResultTexts = {"OK", "ERROR", "0", "4"}
  BY <1>3 DEF ResultTexts
<1> HIDE DEF One, Two
<1>5. ASSUME NEW a \in ResultTexts
      PROVE  One(a) \in Seq(Token) /\ PlainText(One(a)) /\ One(a) # <<>> /\ Heard(One(a)) = <<"result">>
  <2>1. a \in Token /\ a \notin {"S3", "S4"}
    BY <1>4 DEF Token
  <2> QED BY <1>1, <2>1 DEF Heard, PlainText
<1>6. ASSUME NEW a \in {"text", "digits"}
      PROVE  One(a) \in Seq(Token) /\ PlainText(One(a)) /\ One(a) # <<>> /\ Heard(One(a)) = One(a)
  <2>1. a \in Token /\ a \notin {"S3", "S4"} /\ a \notin ResultTexts
    BY <1>4 DEF Token
  <2> QED BY <1>1, <2>1 DEF Heard, PlainText
<1>7. ASSUME NEW a \in {"+name:"}, NEW b \in {"parameters", "ranges"}
      PROVE  Two(a, b) \in Seq(Token) /\ PlainText(Two(a, b)) /\ Two(a, b) # <<>> /\ Heard(Two(a, b)) = Two(a, b)
  <2>1. a \in Token /\ a \notin {"S3", "S4"} /\ b \in Token /\ b \notin {"S3", "S4"}
    BY DEF Token
  <2>2. PlainText(Two(a, b))
    BY <1>2, <2>1, SMTT(20) DEF PlainText
  <2> QED BY <1>2, <2>1, <2>2 DEF Heard
<1>8. ASSUME NEW c \in {"OK", "ERROR"}, NEW b \in BOOLEAN
      PROVE  (IF b THEN c ELSE RESULT_CODE[c]) \in ResultTexts
  BY <1>3, <1>4
<1>9. <<>> \in Seq(Token) /\ PlainText(<<>>) /\ Heard(<<>>) = <<>>
  BY DEF PlainText, Heard
<1>10. One("result") \in Seq(Token)
  <2>1. "result" \in Token
    BY DEF Token
  <2> QED BY <1>1, <2>1
<1> QED BY <1>5, <1>6, <1>7, <1>8, <1>9, <1>10 DEF One, Two

(* A text that exists has been begun after whole frames. *)
TextOpen ==
    \E o \in Seq(Token), s \in Seq(Seq(Token)), body \in Seq(Token) :
       /\ Framed(o, s)
       /\ PlainText(body) /\ Heard(body) = body
       /\ body = <<>> => text.is_result_code
       /\ out = (o \o PrintResultCodeHeader) \o body
       /\ said = Append(s, body)

Printed ==
    /\ reply # "ASYNC"
    /\ m_verbose \in BOOLEAN
    /\ text = NoText => Framed(out, said) /\ m_print_char_callback = "own"
    /\ text # NoText => /\ TextOpen
                        /\ text.is_result_code \in BOOLEAN /\ text.callback = "own"
    /\ out \in Seq(Token) /\ said \in Seq(Seq(Token))

LEMMA EmptyFramed == Framed(<<>>, <<>>)
<1> DEFINE at == [k \in 1 .. 1 |-> 1]
<1>1. Len(<<>>) = 0 /\ at \in [1 .. 1 -> Nat] /\ at[1] = 1
  OBVIOUS
<1> HIDE DEF at
<1> QED BY <1>1 DEF Framed

LEMMA RepliedNext ==
    ASSUME IInv, Resumed, reply # "ASYNC", [Next]_vars
    PROVE  reply' # "ASYNC"
<1>1. SessionStep
  BY NextRefines, StutterRefines
<1>2. reply' = reply \/ reply' = NoReply \/ reply' \in ResultCodes \ {"ASYNC"}
  BY <1>1 DEF SessionStep, Session!SessionNext, Session!sessionVars, Session!Open,
              Session!Spoil, Session!Submit, Session!Repeat, Session!Suspend, Session!Resume,
              Session!Complete, Session!Abort, Session!Answer
<1> QED BY <1>2 DEF NoReply

LEMMA WholeFrame ==
    ASSUME m_verbose \in BOOLEAN, Framed(out, said), out \in Seq(Token), said \in Seq(Seq(Token)),
           NEW body \in Seq(Token), PlainText(body), NEW is_result_code \in BOOLEAN,
           body = <<>> => is_result_code, Heard(body) \in Seq(Token),
           NEW f, f = (PrintResultCodeHeader \o body) \o Trailer(is_result_code),
           out' = out \o f, said' = Append(said, Heard(body))
    PROVE  Framed(out', said') /\ out' \in Seq(Token) /\ said' \in Seq(Seq(Token))
<1>1. f \in Seq(Token) /\ FrameAt(f, 1, Len(f) + 1, Heard(body))
  BY TextFrame
<1>2. PICK b \in Seq(Token) : b = Heard(body)
  OBVIOUS
<1>3. Framed(out \o f, Append(said, b))
  BY <1>1, <1>2, FrameAppended
<1> QED BY <1>1, <1>2, <1>3

(* A result code. *)
LEMMA ReplyFrame ==
    ASSUME m_verbose \in BOOLEAN, Framed(out, said), out \in Seq(Token), said \in Seq(Seq(Token)),
           NEW c \in {"OK", "ERROR"}, Reply(c)
    PROVE  Framed(out', said') /\ out' \in Seq(Token) /\ said' \in Seq(Seq(Token))
<1>1. PICK body : body = <<IF m_verbose THEN c ELSE RESULT_CODE[c]>>
  OBVIOUS
<1>2. body \in Seq(Token) /\ PlainText(body) /\ body # <<>> /\ Heard(body) = <<"result">>
      /\ <<"result">> \in Seq(Token)
  BY <1>1, TextsHeard
<1>3. PICK is_result_code \in BOOLEAN : is_result_code = TRUE
  OBVIOUS
<1>5. PICK f : f = (PrintResultCodeHeader \o body) \o Trailer(is_result_code)
  OBVIOUS
<1>4. out' = out \o f /\ said' = Append(said, Heard(body))
  BY <1>1, <1>2, <1>3, <1>5 DEF Reply, PrintResultCode, Trailer
<1> QED BY <1>2, <1>4, <1>5, WholeFrame

(* What the executor prints itself. *)
LEMMA ServerTextFrame ==
    ASSUME m_verbose \in BOOLEAN, Framed(out, said), out \in Seq(Token), said \in Seq(Seq(Token)),
           NEW body \in ServerTexts, body # <<>>,
           out' = out \o InformationText(body), said' = Append(said, body)
    PROVE  Framed(out', said') /\ out' \in Seq(Token) /\ said' \in Seq(Seq(Token))
<1>1. body \in {<<"digits">>, <<"+name:", "ranges">>}
  BY DEF ServerTexts
<1>2. body \in Seq(Token) /\ PlainText(body) /\ Heard(body) = body
  BY <1>1, TextsHeard
<1>3. PICK is_result_code \in BOOLEAN : is_result_code = FALSE
  OBVIOUS
<1>5. PICK f : f = (PrintResultCodeHeader \o body) \o Trailer(is_result_code)
  OBVIOUS
<1>4. out' = out \o f /\ said' = Append(said, Heard(body))
  BY <1>2, <1>3, <1>5 DEF InformationText, PrintInformationTextHeader, Trailer
<1> QED BY <1>2, <1>4, <1>5, WholeFrame

LEMMA Associative ==
    ASSUME NEW a \in Seq(Token), NEW b \in Seq(Token), NEW c \in Seq(Token)
    PROVE  (a \o b) \o c = a \o (b \o c)
OBVIOUS

(* The trailer makes what was begun a frame, in the mode it was begun in.  *)
LEMMA EndFrame ==
    ASSUME m_verbose \in BOOLEAN, TextOpen, text.is_result_code \in BOOLEAN,
           out' = out \o Trailer(text.is_result_code), said' = said
    PROVE  Framed(out', said') /\ out' \in Seq(Token) /\ said' \in Seq(Seq(Token))
<1>1. PICK o \in Seq(Token), s \in Seq(Seq(Token)), body \in Seq(Token) :
         /\ Framed(o, s)
         /\ PlainText(body) /\ Heard(body) = body
         /\ body = <<>> => text.is_result_code
         /\ out = (o \o PrintResultCodeHeader) \o body
         /\ said = Append(s, body)
  BY DEF TextOpen
<1>2. PICK is_result_code \in BOOLEAN : is_result_code = text.is_result_code
  OBVIOUS
<1>3. PICK h, t, f : /\ h = PrintResultCodeHeader /\ t = Trailer(is_result_code)
                     /\ f = (h \o body) \o t
  OBVIOUS
<1>4. h \in Seq(Token) /\ t \in Seq(Token)
  BY <1>3, FrameEnds
<1>5. f \in Seq(Token) /\ FrameAt(f, 1, Len(f) + 1, Heard(body))
  BY <1>1, <1>2, <1>3, TextFrame
<1>6. out' = ((o \o h) \o body) \o t
  BY <1>1, <1>2, <1>3
<1>7. o \o f = ((o \o h) \o body) \o t
  <2>1. PICK g : g = h \o body
    OBVIOUS
  <2>2. g \in Seq(Token) /\ f = g \o t
    BY <1>3, <1>4, <2>1
  <2>3. (o \o h) \o body = o \o g
    BY <1>4, <2>1, Associative
  <2>4. (o \o g) \o t = o \o (g \o t)
    BY <1>4, <2>2, Associative, ZenonT(40)
  <2> QED BY <2>2, <2>3, <2>4
<1>8. Framed(o \o f, Append(s, body))
  BY <1>1, <1>5, FrameAppended
<1>9. out' = o \o f /\ said' = Append(s, body)
  BY <1>1, <1>6, <1>7
<1>10. o \o f \in Seq(Token) /\ Append(s, body) \in Seq(Seq(Token))
  BY <1>5
<1> QED BY <1>8, <1>9, <1>10

LEMMA BeginFrame ==
    ASSUME m_verbose \in BOOLEAN, Framed(out, said), out \in Seq(Token), said \in Seq(Seq(Token)),
           m_verbose' = m_verbose, NEW body \in Seq(Token), PlainText(body), Heard(body) = body,
           body = <<>> => text'.is_result_code,
           out' = (out \o PrintResultCodeHeader) \o body, said' = Append(said, body)
    PROVE  TextOpen' /\ out' \in Seq(Token) /\ said' \in Seq(Seq(Token))
<1>1. PrintResultCodeHeader' = PrintResultCodeHeader
  BY DEF PrintResultCodeHeader
<1>2. TextOpen'
  BY <1>1 DEF TextOpen
<1>3. PICK h : h = PrintResultCodeHeader
  OBVIOUS
<1>4. h \in Seq(Token)
  <2>1. PICK b \in BOOLEAN : b = TRUE
    OBVIOUS
  <2>2. PICK t : t = Trailer(b)
    OBVIOUS
  <2> QED BY <1>3, <2>2, FrameEnds
<1>5. out \o h \in Seq(Token)
  BY <1>4
<1>6. out' \in Seq(Token)
  BY <1>3, <1>5
<1> QED BY <1>2, <1>6

LEMMA PrintedNext ==
    ASSUME IInv, IInv', Resumed, Printed, [ResponsesNext]_allVars
    PROVE  Printed'
<1>1. reply' # "ASYNC" /\ reply' \in ResultCodes \cup {NoReply}
  BY ResponsesStep, RepliedNext DEF Printed, IInv, TypeOK, CmdlineTypeOK
<1>2. reply' # NoReply => reply' \in {"OK", "ERROR"}
  BY <1>1 DEF ResultCodes
<1>3. ASSUME UNCHANGED <<m_verbose, m_print_char_callback, text, out, said>> PROVE Printed'
  <2>1. TextOpen' = TextOpen
    BY <1>3 DEF TextOpen, PrintResultCodeHeader
  <2> QED BY <1>1, <1>3, <2>1 DEF Printed
<1>4. ASSUME text = NoText, UNCHANGED <<m_verbose, m_print_char_callback, text>>,
             Framed(out', said'), out' \in Seq(Token), said' \in Seq(Seq(Token))
      PROVE  Printed'
  BY <1>1, <1>4 DEF Printed
<1>5. CASE PrintText
  <2>1. text = NoText /\ m_verbose' = m_verbose /\ m_print_char_callback = "own"
    BY <1>5 DEF PrintText, HandlerRuns, Printed
  <2>2. /\ text' # NoText /\ text'.is_result_code \in BOOLEAN /\ text'.callback = "own"
        /\ \E body \in {<<"text">>, <<>>, <<"+name:", "parameters">>} :
              /\ body = <<>> => text'.is_result_code
              /\ out' = (out \o PrintResultCodeHeader) \o body /\ said' = Append(said, body)
    <3>1. CASE MakeInformationText
      BY <2>1, <3>1 DEF MakeInformationText, PrintInformationTextHeader, NoText
    <3>2. ASSUME NEW is_result_code \in BOOLEAN, MakeParameterInformationText(is_result_code)
          PROVE  /\ text' # NoText /\ text'.is_result_code \in BOOLEAN /\ text'.callback = "own"
                 /\ \E body \in {<<"text">>, <<>>, <<"+name:", "parameters">>} :
                       /\ body = <<>> => text'.is_result_code
                       /\ out' = (out \o PrintResultCodeHeader) \o body /\ said' = Append(said, body)
      BY <2>1, <3>2 DEF MakeParameterInformationText, PrintInformationTextHeader, NoText, IsSilent
    <3> QED BY <1>5, <3>1, <3>2 DEF PrintText
  <2>3. PICK body \in {<<"text">>, <<>>, <<"+name:", "parameters">>} :
              /\ body = <<>> => text'.is_result_code
              /\ out' = (out \o PrintResultCodeHeader) \o body /\ said' = Append(said, body)
    BY <2>2
  <2>4. body \in Seq(Token) /\ PlainText(body) /\ Heard(body) = body
    BY TextsHeard
  <2>5. TextOpen' /\ out' \in Seq(Token) /\ said' \in Seq(Seq(Token))
    BY <2>1, <2>3, <2>4, BeginFrame DEF Printed
  <2> QED BY <1>1, <2>1, <2>2, <2>5 DEF Printed
<1>6. CASE EndText
  <2>1. text # NoText /\ text' = NoText /\ m_verbose' = m_verbose /\ said' = said
        /\ m_print_char_callback' = "own" /\ out' = out \o Trailer(text.is_result_code)
    BY <1>6 DEF EndText, DestroyText, Printed, Trailer
  <2>2. Framed(out', said') /\ out' \in Seq(Token) /\ said' \in Seq(Seq(Token))
    BY <2>1, EndFrame DEF Printed
  <2> QED BY <1>1, <2>1, <2>2 DEF Printed
<1>7. CASE SetVerbose
  <2>1. text = NoText /\ UNCHANGED <<m_print_char_callback, text, out, said>>
        /\ m_verbose' \in BOOLEAN
    BY <1>7 DEF SetVerbose, HandlerRuns, Printed
  <2> QED BY <1>1, <2>1 DEF Printed
<1>8. ASSUME NoTextLeft, reply' # NoReply, Reply(reply') PROVE Printed'
  <2>1. PICK c \in {"OK", "ERROR"} : c = reply'
    BY <1>2, <1>8
  <2>2. Framed(out', said') /\ out' \in Seq(Token) /\ said' \in Seq(Seq(Token))
    BY <1>8, <2>1, ReplyFrame DEF Printed, NoTextLeft
  <2> QED BY <1>4, <1>8, <2>2 DEF NoTextLeft
<1>9. CASE RunCommand
  <2>1. NoTextLeft
    BY <1>9 DEF RunCommand
  <2>2. CASE reply' # NoReply
    BY <1>8, <1>9, <2>1, <2>2 DEF RunCommand
  <2>3. ASSUME NEW body \in ServerTexts, body = <<>>, UNCHANGED <<out, said>> PROVE Printed'
    BY <1>3, <2>1, <2>3 DEF NoTextLeft
  <2>4. ASSUME NEW body \in ServerTexts, body # <<>>,
               out' = out \o InformationText(body), said' = Append(said, body)
        PROVE  Printed'
    <3>1. Framed(out', said') /\ out' \in Seq(Token) /\ said' \in Seq(Seq(Token))
      BY <2>1, <2>4, ServerTextFrame DEF Printed, NoTextLeft
    <3> QED BY <1>4, <2>1, <3>1 DEF NoTextLeft
  <2> QED BY <1>9, <2>2, <2>3, <2>4 DEF RunCommand
<1>10. CASE RunEnd
  <2>1. NoTextLeft /\ Reply(reply') /\ reply' \in ResultCodes
    BY <1>10 DEF RunEnd, ExecEnd, Answer, FinalCode, IInv, TypeOK, CmdlineTypeOK, ResultCodes
  <2> QED BY <1>8, <2>1 DEF ResultCodes, NoReply
<1>11. CASE AbortCommand
  <2>1. NoTextLeft
    BY <1>11 DEF AbortCommand
  <2>2. CASE m_state' = "A"
    <3>1. Reply(reply') /\ reply' \in ResultCodes
      BY <1>11, <2>2 DEF AbortCommand, Abort, Answer, MayReturn, ResultCodes
    <3> QED BY <1>8, <2>1, <3>1 DEF ResultCodes, NoReply
  <2>3. CASE m_state' # "A"
    BY <1>3, <1>11, <2>1, <2>3 DEF AbortCommand, NoTextLeft
  <2> QED BY <2>2, <2>3
<1>12. CASE Parse
  <2>1. text = NoText /\ UNCHANGED <<m_verbose, m_print_char_callback, text>>
    BY <1>12 DEF Parse
  <2>2. CASE m_state = "Executing"
    BY <1>3, <1>12, <2>1, <2>2 DEF Parse
  <2>3. CASE m_state # "Executing"
    <3>1. out' = <<>> /\ said' = <<>>
      BY <1>12, <2>3 DEF Parse
    <3> QED BY <1>4, <2>1, <3>1, EmptyFramed
  <2> QED BY <2>2, <2>3
<1>13. CASE Completed \/ UNCHANGED allVars
  BY <1>3, <1>13 DEF Completed, allVars, printVars
<1> QED BY <1>5, <1>6, <1>7, <1>9, <1>10, <1>11, <1>12, <1>13 DEF ResponsesNext

(* A client that knows the two characters of the frames takes what was     *)
(* printed for a line apart into the texts and the code, whatever handlers *)
(* print, however many texts, and however they switch between words and    *)
(* digits: frames are closed in the mode they were begun in, a silenced    *)
(* text still leaves a frame, and no frame begins like the end of another. *)
THEOREM ClientTakesApart == ResponsesSpec => []ClientReadsBack
<1>1. ResponsesInit => Printed /\ Resumed
  <2> SUFFICES ASSUME ResponsesInit PROVE Printed /\ Resumed
    OBVIOUS
  <2>1. out = <<>> /\ said = <<>> /\ text = NoText /\ m_print_char_callback = "own"
        /\ m_verbose = TRUE /\ reply = NoReply /\ pc = "ret"
    BY DEF ResponsesInit, Init, CmdlineInit
  <2> QED BY <2>1, EmptyFramed DEF Printed, Resumed, NoReply
<1>2. IInv /\ IInv' /\ Resumed /\ Printed /\ [ResponsesNext]_allVars => Printed' /\ Resumed'
  BY PrintedNext, ResponsesStep, NextRefines, StutterRefines
<1>3. Printed => ClientReadsBack
  BY FramedRead DEF Printed, ClientReadsBack
<1> QED BY <1>1, <1>2, <1>3, ResponsesImplementServer, InvariantHolds, PTL DEF ResponsesSpec
=============================================================================
