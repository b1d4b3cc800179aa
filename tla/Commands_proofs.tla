-------------------------- MODULE Commands_proofs ---------------------------
(***************************************************************************)
(* Theorems about what the server makes the agent do and what it reports:  *)
(* tasks, subprocesses, terminals, settings, traffic, disks, interfaces.   *)
(*                                                                         *)
(* Every message the server may send gets the answer it is owed, for all   *)
(* thresholds, numbers of retries, addresses and redirects.  A ping is     *)
(* told by one number: that it is the least of the series, and the series  *)
(* one of the kind it is told with, is kept while the measurements come,   *)
(* with clocks that run on and kinds that change.                          *)
(*                                                                         *)
(* What a subprocess wrote is returned exactly or flagged as cut, for      *)
(* every output limit, read size, pipe size and input, and nothing of its  *)
(* group is left.                                                          *)
(*                                                                         *)
(* The slots of the terminals, for every number of dispatching threads,    *)
(* slots and terminals allowed.  The counter alone does not show that the  *)
(* limit holds: a thread that passed the gate is not running yet, and one  *)
(* that is being refused still holds a slot.  The inductive invariant      *)
(* counts all three.                                                       *)
(*                                                                         *)
(* A setting is the one of the strongest layer that gives it, for command  *)
(* lines of any length.                                                    *)
(*                                                                         *)
(* The month's traffic is counted once, for any number of interfaces: the  *)
(* counters' sum is the last one and what passed since, modulo 2^64.       *)
(*                                                                         *)
(* A disk is counted once, at the largest size a mount showed of it, for   *)
(* any list of mounts, filters and any size of the vector; and a pattern   *)
(* of any length chooses the interfaces it means.                          *)
(***************************************************************************)
EXTENDS Tasks, Subprocess, TerminalSessions, Settings, Traffic, Measures,
        SequenceTheorems, Induction_proofs

-----------------------------------------------------------------------------
\* Tasks (server/task.rs).

\* The kinds a ping of kind k is measured with.
Follows(k) ==
    IF k = "icmp" THEN {"icmp", "tcp", "http"} ELSE IF k = "tcp" THEN {"tcp", "http"} ELSE {k}

\* s with its least element b.
LeastOf(s, b) ==
    s # <<>> => (\E i \in 1..Len(s) : b = s[i]) /\ \A i \in 1..Len(s) : b <= s[i]

\* The measurements taken so far of the kind under way: all too slow to stop at.
Series ==
    /\ rtts \in Seq(Nat) /\ Len(rtts) <= MaxRetries
    /\ \A i \in 1..Len(rtts) : rtts[i] > HighLatency
    /\ LeastOf(rtts, best)
    /\ probe.kind = "tcp" /\ Len(rtts) > 1 => rtts[1] - rtts[2] <= Retransmission

\* The probe is one of the kinds that follow from what was asked.
ProbeAsked ==
    /\ probe = [kind |-> probe.kind, left |-> probe.left, spent |-> probe.spent]
    /\ probe.spent \in Nat
    /\ probe.kind \in Follows(PingFields(received).kind)
    /\ probe.kind \notin {"icmp", "tcp", "http"} => rtts = <<>>

\* What is under way was asked for, and is allowed.
Asked ==
    /\ progress \in {"exec", "script", "run"} =>
         received.utf8 /\ TextOf(received, "method") = "agent.exec" /\ TextOf(received, "task_id") # ""
    /\ progress \in {"script", "run"} => ~policy.noExec
    /\ progress \in {"ping", "probe"} =>
         received.utf8 /\ TextOf(received, "method") = "agent.ping" /\ Series /\ ProbeAsked
    /\ progress = "update" => ~policy.noShell /\ ~policy.noUpdate
    /\ progress = "terminal" => ~policy.httpOnly
    /\ progress = "arrived" => rtts = <<>>

\* There is an answer from the moment it is known; it is sent once.
Answers ==
    /\ reply.of # "none" => progress \in {"answer", "done", "lost"}
    /\ progress \in {"answer", "lost"} => reply.of # "none"
    /\ posts = IF reply.of # "none" /\ progress # "answer" THEN 1 ELSE 0
    /\ script = "written" => progress = "run"
    /\ reply.of # "none" =>
         /\ received.utf8
         /\ reply.of = "ping" => reply.id \in Nat /\ TextOf(received, "method") = "agent.ping"
         /\ reply.of = "exec" => reply.id # "" /\ TextOf(received, "method") = "agent.exec"

TaskInv ==
    /\ received \in Messages /\ policy \in Policies
    /\ Asked /\ Answers /\ PingHonest /\ ExecHonest

\* A count that is more than one when one is added was one or more.
LEMMA OneOrMore ==
  ASSUME NEW n \in Nat, NEW m, m = n + 1, m > 1
  PROVE  n = 1 \/ n > 1
  OBVIOUS

LEMMA TaskInvAnswers == TaskInv => TasksAnswered
<1> SUFFICES ASSUME TaskInv PROVE TasksAnswered
  OBVIOUS
<1>1. PingHonest /\ ExecHonest /\ Asked /\ Answers
  BY DEF TaskInv
<1>2. TaskEnded => (posts = 1 <=> reply.of # "none") /\ script # "written"
  <2> SUFFICES ASSUME TaskEnded PROVE (posts = 1 <=> reply.of # "none") /\ script # "written"
    OBVIOUS
  <2>1. progress # "answer" /\ progress # "run"
    BY DEF TaskEnded
  <2>2. posts = (IF reply.of # "none" THEN 1 ELSE 0) /\ script # "written"
    BY <1>1, <2>1 DEF Answers
  <2> QED
    BY <2>2
<1>3. /\ progress = "update" => ~policy.noShell /\ ~policy.noUpdate
      /\ progress = "terminal" => ~policy.httpOnly
  BY <1>1 DEF Asked
<1>4. reply.of # "none" =>
         /\ received.utf8
         /\ reply.of = "ping" => reply.id \in Nat /\ TextOf(received, "method") = "agent.ping"
         /\ reply.of = "exec" => reply.id # "" /\ TextOf(received, "method") = "agent.exec"
  BY <1>1 DEF Answers
<1> QED
  BY <1>1, <1>2, <1>3, <1>4, Zenon DEF TasksAnswered

LEMMA LeastIsMin ==
    ASSUME NEW S \in SUBSET Int, NEW x \in S, \A y \in S : x <= y
    PROVE  Min(S) = x
<1>1. Min(S) \in S /\ \A y \in S : Min(S) <= y
  <2>1. \E m \in S : \A y \in S : m <= y
    OBVIOUS
  <2> QED
    BY <2>1, Zenon DEF Min
<1>2. Min(S) <= x /\ x <= Min(S) /\ x \in Int /\ Min(S) \in Int
  BY <1>1
<1> QED
  BY <1>2

LEMMA InitTaskInv == TkInit => TaskInv
<1> SUFFICES ASSUME TkInit PROVE TaskInv
  OBVIOUS
<1>1. /\ received \in Messages /\ policy \in Policies /\ progress = "arrived" /\ rtts = <<>>
      /\ script # "written" /\ posts = 0 /\ reply = NoAnswer
  BY DEF TkInit
<1>2. reply.of = "none"
  BY <1>1 DEF NoAnswer
<1>3. PingHonest /\ ExecHonest
  BY <1>2 DEF PingHonest, ExecHonest
<1>4. Asked /\ Answers
  BY <1>1, <1>2 DEF Asked, Answers
<1> QED
  BY <1>1, <1>3, <1>4 DEF TaskInv

\* Steps that say nothing: the message goes on, or ends here.
LEMMA GoesKeepsInv ==
    ASSUME TaskInv, UNCHANGED <<policy, received, reply, rtts, posts>>,
           reply.of = "none", progress' \notin {"answer", "lost"},
           script' = "written" => progress' = "run", Asked'
    PROVE  TaskInv'
  BY DEF TaskInv, Answers, PingHonest, ExecHonest

\* The same with another measurement ahead.
LEMMA AnotherProbe ==
    ASSUME TaskInv, UNCHANGED <<policy, received, script, reply, posts>>, reply.of = "none",
           progress' \notin {"answer", "lost"}, script' # "written", Asked'
    PROVE  TaskInv'
  BY DEF TaskInv, Answers, PingHonest, ExecHonest

\* Steps that find the answer.
LEMMA AnswerKeepsInv ==
    ASSUME TaskInv, UNCHANGED <<policy, received, posts>>, reply.of = "none", progress' = "answer",
           script' # "written", received.utf8, reply'.of # "none",
           reply'.of = "ping" => reply'.id \in Nat /\ TextOf(received, "method") = "agent.ping",
           reply'.of = "exec" => reply'.id # "" /\ TextOf(received, "method") = "agent.exec",
           PingHonest', ExecHonest'
    PROVE  TaskInv'
<1>1. Asked'
  BY DEF Asked
<1>2. posts = 0
  BY DEF TaskInv, Answers
<1>3. Answers'
  BY <1>2 DEF Answers
<1> QED
  BY <1>1, <1>3 DEF TaskInv

LEMMA DispatchKeepsInv == ASSUME TaskInv, DispatchMessage PROVE TaskInv'
<1>0. /\ progress = "arrived" /\ reply.of = "none" /\ script # "written" /\ rtts = <<>>
      /\ UNCHANGED <<policy, received, posts, rtts, script>>
  BY DEF TaskInv, Asked, Answers, DispatchMessage, Goes, ProbeAnswers
<1>1. ASSUME NEW to \in {"session over", "done", "terminal", "file", "update", "exec"}, Goes(to),
             to = "exec" => received.utf8 /\ TextOf(received, "method") = "agent.exec"
                              /\ TextOf(received, "task_id") # "",
             to = "update" => ~policy.noShell /\ ~policy.noUpdate,
             to = "terminal" => ~policy.httpOnly
      PROVE  TaskInv'
  <2>1. Asked'
    BY <1>0, <1>1 DEF Goes, Asked
  <2> QED
    <3>1. progress' \notin {"answer", "lost"} /\ UNCHANGED reply
      BY <1>1 DEF Goes
    <3> QED
      BY <1>0, <2>1, <3>1, GoesKeepsInv
<1>2. ASSUME ProbeAnswers(StartupConfig(TextOf(received, "request_id"))), received.utf8
      PROVE  TaskInv'
  <2>1. reply'.of = "startupConfig" /\ progress' = "answer"
    BY <1>2 DEF ProbeAnswers, StartupConfig, NoAnswer
  <2> QED
    <3>1. PingHonest' /\ ExecHonest'
      BY <2>1 DEF PingHonest, ExecHonest
    <3> QED
      BY <1>0, <1>2, <2>1, <3>1, AnswerKeepsInv
<1>3. ASSUME progress' = "ping", probe' = [NoProbe EXCEPT !.kind = PingFields(received).kind],
             UNCHANGED reply, received.utf8, TextOf(received, "method") = "agent.ping"
      PROVE  TaskInv'
  <2>1. probe' = [kind |-> PingFields(received).kind, left |-> 0, spent |-> 0]
    BY <1>3 DEF NoProbe
  <2>2. Series'
    BY <1>0, TasksAssumption DEF Series, LeastOf
  <2>3. ProbeAsked'
    BY <1>0, <2>1 DEF ProbeAsked, Follows
  <2>4. Asked'
    BY <1>0, <1>3, <2>2, <2>3 DEF Asked
  <2> QED
    BY <1>0, <1>3, <2>4, GoesKeepsInv
<1> QED
  BY <1>0, <1>1, <1>2, <1>3 DEF DispatchMessage

LEMMA LastOfOne == ASSUME NEW w PROVE <<w>> # <<>> /\ Last(<<w>>) = w
  BY DEF Last

LEMMA LastOfMore ==
    ASSUME NEW S, NEW s \in Seq(S), NEW w \in S
    PROVE  s \o <<w>> # <<>> /\ Last(s \o <<w>>) = w
<1>1. Len(s \o <<w>>) = Len(s) + 1
  OBVIOUS
<1>2. (s \o <<w>>)[Len(s) + 1] = w
  OBVIOUS
<1>3. Len(s) \in Nat
  OBVIOUS
<1> QED
  BY <1>1, <1>2, <1>3 DEF Last

LEMMA CodesDiffer == 0 - 124 # 0 - 125
  OBVIOUS

Words == {"stdout", "stderr", "timed out", "truncated"}

\* The notice tells why the command ended, and so does the code, but on Windows.
Tells(code, parts) ==
    /\ LastIs(parts, "timed out") => code = 0 - 124
    /\ LastIs(parts, "truncated") => code = 0 - 125
    /\ code = 0 - 124 /\ ~policy.windows => LastIs(parts, "timed out")
    /\ code = 0 - 125 /\ ~policy.windows => LastIs(parts, "truncated")

LEMMA TellsOne ==
    ASSUME NEW w, w \notin {"timed out", "truncated"}, NEW code \in Int, code \notin {0 - 124, 0 - 125}
    PROVE  Tells(code, <<w>>)
<1>1. ~LastIs(<<w>>, "timed out") /\ ~LastIs(<<w>>, "truncated")
  BY LastOfOne DEF LastIs
<1>2. code # 0 - 124 /\ code # 0 - 125
  OBVIOUS
<1> QED
  BY <1>1, <1>2, Zenon DEF Tells

\* The answers without an output.
LEMMA TellsPlain ==
    /\ Tells(0 - 1, <<"disabled">>) /\ Tells(0, <<"no command">>)
    /\ Tells(0 - 1, <<"no script">>) /\ Tells(0 - 1, <<"error">>)
<1>1. ASSUME NEW w \in {"disabled", "no script", "error", "no command"}
      PROVE  w \notin {"timed out", "truncated"}
  OBVIOUS
<1>2. 0 - 1 \in Int /\ 0 - 1 \notin {0 - 124, 0 - 125} /\ 0 \in Int /\ 0 \notin {0 - 124, 0 - 125}
  OBVIOUS
<1> QED
  BY <1>1, <1>2, TellsOne

\* Why a command ended, its code, and what it may have written.
Endings == {"error", "exited", "timed out", "output limit"}
Outputs == {<<>>, <<"stdout">>, <<"stderr">>, <<"stdout", "stderr">>}
IsOutput(s) == s \in Seq(Words) /\ (s = <<>> \/ Last(s) \in {"stdout", "stderr"})

LEMMA OutputFacts ==
    ASSUME NEW s \in Outputs
    PROVE  IsOutput(s)
<1>1. IsOutput(<<>>)
  BY EmptySeq DEF IsOutput
<1>2. <<"stdout">> \in Seq(Words) /\ Last(<<"stdout">>) = "stdout"
  BY LastOfOne DEF Words
<1>3. <<"stderr">> \in Seq(Words) /\ Last(<<"stderr">>) = "stderr"
  BY LastOfOne DEF Words
<1>4. <<"stdout", "stderr">> \in Seq(Words) /\ Last(<<"stdout", "stderr">>) = "stderr"
  BY DEF Words, Last
<1>5. s = <<>> \/ s = <<"stdout">> \/ s = <<"stderr">> \/ s = <<"stdout", "stderr">>
  BY Zenon DEF Outputs
<1> QED
  BY <1>1, <1>2, <1>3, <1>4, <1>5, Zenon DEF IsOutput

LEMMA TellsCode ==
    ASSUME NEW s, s = <<>> \/ Last(s) \in {"stdout", "stderr"}, NEW code \in OwnCodes
    PROVE  Tells(code, s)
<1>1. ~LastIs(s, "timed out") /\ ~LastIs(s, "truncated")
  BY DEF LastIs
<1>2. ~policy.windows => code \in {0 - 1, 0, 1}
  BY DEF OwnCodes
<1>3. ~policy.windows => code # 0 - 124 /\ code # 0 - 125
  BY <1>2
<1> QED
  BY <1>1, <1>3, Zenon DEF Tells

LEMMA TellsCut ==
    ASSUME NEW s \in Seq(Words)
    PROVE  Tells(0 - 124, s \o <<"timed out">>) /\ Tells(0 - 125, s \o <<"truncated">>)
<1>1. "timed out" \in Words /\ "truncated" \in Words
  BY DEF Words
<1>2. s \o <<"timed out">> # <<>> /\ Last(s \o <<"timed out">>) = "timed out"
  BY <1>1, LastOfMore
<1>3. s \o <<"truncated">> # <<>> /\ Last(s \o <<"truncated">>) = "truncated"
  BY <1>1, LastOfMore
<1>4. LastIs(s \o <<"timed out">>, "timed out") /\ ~LastIs(s \o <<"timed out">>, "truncated")
  BY <1>2, Zenon DEF LastIs
<1>5. LastIs(s \o <<"truncated">>, "truncated") /\ ~LastIs(s \o <<"truncated">>, "timed out")
  BY <1>3, Zenon DEF LastIs
<1> QED
  BY <1>4, <1>5, CodesDiffer, Zenon DEF Tells

\* What subprocess::run returned, as exec_result tells it.
LEMMA ResultTells ==
    ASSUME NEW ended \in Endings, NEW code \in OwnCodes, NEW output \in Outputs
    PROVE  \E c, parts : ExecResult(ended, code, output) = Executed(c, parts) /\ Tells(c, parts)
<1>1. CASE ended = "error"
  BY <1>1, TellsPlain DEF ExecResult
<1>0. IsOutput(output)
  BY OutputFacts
<1>2. CASE ended = "exited"
  <2>1. Tells(code, output)
    BY <1>0, TellsCode DEF IsOutput
  <2> QED
    BY <1>2, <2>1 DEF ExecResult
<1>3. CASE ended = "timed out" \/ ended = "output limit"
  <2>1. Tells(0 - 124, output \o <<"timed out">>) /\ Tells(0 - 125, output \o <<"truncated">>)
    BY <1>0, TellsCut DEF IsOutput
  <2> QED
    BY <1>3, <2>1 DEF ExecResult
<1>4. ended = "error" \/ ended = "exited" \/ ended = "timed out" \/ ended = "output limit"
  BY DEF Endings
<1> QED
  BY <1>1, <1>2, <1>3, <1>4

\* A command's answer tells how it ended, and a command that may not run did not.
LEMMA ExecKeepsInv == ASSUME TaskInv, BeginExec \/ WriteScript \/ EndExec PROVE TaskInv'
<1>0. /\ progress \in {"exec", "script", "run"} /\ reply.of = "none"
      /\ UNCHANGED <<policy, received, posts, rtts, probe, best>>
      /\ received.utf8 /\ TextOf(received, "method") = "agent.exec" /\ TextOf(received, "task_id") # ""
      /\ script = "written" => progress = "run"
      /\ progress \in {"script", "run"} => ~policy.noExec
  BY DEF TaskInv, Asked, Answers, BeginExec, WriteScript, EndExec, Goes, ProbeAnswers
<1>1. ASSUME NEW code, NEW parts, reply' = Executed(code, parts), progress' = "answer",
             script' # "written",
             policy.noExec => parts = <<"disabled">> /\ code = 0 - 1, Tells(code, parts)
      PROVE  TaskInv'
  <2>1. /\ reply'.of = "exec" /\ reply'.id = TextOf(received, "task_id")
        /\ reply'.value = code /\ reply'.parts = parts
    BY <1>0, <1>1 DEF Executed
  <2>2. PingHonest'
    BY <2>1 DEF PingHonest
  <2>3. ExecHonest'
    <3>1. UNCHANGED policy
      BY <1>0
    <3> QED
      <4>1. policy.noExec => reply'.parts = <<"disabled">> /\ reply'.value = 0 - 1
        BY <1>1, <2>1
      <4>2. Tells(reply'.value, reply'.parts)
        BY <1>1, <2>1
      <4> QED
        BY <3>1, <4>1, <4>2 DEF ExecHonest, Tells
  <2> QED
    BY <1>0, <1>1, <2>1, <2>2, <2>3, AnswerKeepsInv
<1>2. ASSUME NEW to \in {"script", "run"}, progress' = to, UNCHANGED reply, ~policy.noExec,
             script' = "written" => to = "run"
      PROVE  TaskInv'
  <2>1. Asked'
    BY <1>0, <1>2 DEF Asked
  <2> QED
    BY <1>0, <1>2, <2>1, GoesKeepsInv
<1>3. CASE BeginExec
  <2>1. script # "written"
    BY <1>0, <1>3 DEF BeginExec
  <2>2. CASE policy.noExec /\ ProbeAnswers(Executed(0 - 1, <<"disabled">>))
    BY <1>1, <2>1, <2>2, TellsPlain DEF ProbeAnswers
  <2>3. CASE ~policy.noExec /\ ProbeAnswers(Executed(0, <<"no command">>))
    BY <1>1, <2>1, <2>3, TellsPlain DEF ProbeAnswers
  <2>4. CASE ~policy.noExec /\ Goes(IF policy.windows THEN "script" ELSE "run")
    BY <1>2, <2>1, <2>4 DEF Goes
  <2> QED
    BY <1>3, <2>2, <2>3, <2>4 DEF BeginExec
<1>4. CASE WriteScript
  <2>1. script # "written" /\ ~policy.noExec
    BY <1>0, <1>4 DEF WriteScript
  <2>2. CASE /\ script' \in {"none", "left"}
             /\ reply' = Executed(0 - 1, <<"no script">>) /\ progress' = "answer"
    BY <1>1, <2>1, <2>2, TellsPlain
  <2>3. CASE script' = "written" /\ progress' = "run" /\ UNCHANGED reply
    BY <1>2, <2>1, <2>3
  <2> QED
    BY <1>4, <2>2, <2>3 DEF WriteScript
<1>5. CASE EndExec
  <2>1. script' # "written" /\ progress' = "answer" /\ ~policy.noExec
    BY <1>0, <1>5 DEF EndExec
  <2>2. \E c, parts : reply' = Executed(c, parts) /\ Tells(c, parts)
    <3>1. PICK ended \in Endings, code \in OwnCodes, output \in Outputs :
            reply' = ExecResult(ended, code, output)
      BY <1>5, Zenon DEF EndExec, Endings, Outputs
    <3> QED
      BY <3>1, ResultTells
  <2> QED
    BY <1>1, <2>1, <2>2
<1> QED
  BY <1>3, <1>4, <1>5

\* The answer leaves.
LEMMA SentKeepsInv == ASSUME TaskInv, NEW to \in {"done", "lost"}, Sent(to) PROVE TaskInv'
<1>1. /\ progress = "answer" /\ progress' = to /\ posts' = posts + 1
      /\ UNCHANGED <<policy, received, rtts, script, reply>>
  BY DEF Sent
<1>2. Asked'
  BY <1>1 DEF Asked
<1>3. Answers
  BY DEF TaskInv
<1>4. reply.of # "none" /\ script # "written"
  BY <1>1, <1>3 DEF Answers
<1>5. posts = 0
  BY <1>1, <1>3 DEF Answers
<1>6. Answers'
  <2>1. posts' = 1 /\ reply' = reply /\ progress' \in {"done", "lost"} /\ script' # "written" /\ received' = received
    BY <1>1, <1>4, <1>5
  <2>2. reply.of # "none" =>
         /\ received.utf8
         /\ reply.of = "ping" => reply.id \in Nat /\ TextOf(received, "method") = "agent.ping"
         /\ reply.of = "exec" => reply.id # "" /\ TextOf(received, "method") = "agent.exec"
    BY <1>3 DEF Answers
  <2> QED
    BY <1>4, <2>1, <2>2 DEF Answers
<1>7. PingHonest'
  BY <1>1 DEF TaskInv, PingHonest
<1>8. ExecHonest'
  BY <1>1 DEF TaskInv, ExecHonest
<1> QED
  BY <1>1, <1>2, <1>6, <1>7, <1>8 DEF TaskInv

LEMMA MinOfTwo ==
    ASSUME NEW a \in Int, NEW b \in Int
    PROVE  Min({a, b}) = IF a <= b THEN a ELSE b
<1>1. {a, b} \in SUBSET Int
  OBVIOUS
<1>2. CASE a <= b
  <2>1. \A y \in {a, b} : a <= y
    BY <1>2
  <2> QED
    BY <1>1, <1>2, <2>1, LeastIsMin
<1>3. CASE ~(a <= b)
  <2>1. \A y \in {a, b} : b <= y
    BY <1>3
  <2> QED
    BY <1>1, <1>3, <2>1, LeastIsMin
<1> QED
  BY <1>2, <1>3

LEMMA OneMore ==
    ASSUME NEW S, NEW s \in Seq(S), NEW x
    PROVE  /\ Len(s) \in Nat /\ Len(Append(s, x)) = Len(s) + 1 /\ Append(s, x)[Len(s) + 1] = x
           /\ \A i \in 1..Len(s) : Append(s, x)[i] = s[i] /\ s[i] \in S
           /\ Last(Append(s, x)) = x
           /\ x \in S => Append(s, x) \in Seq(S)
  BY DEF Last

LEMMA LeastGrows ==
    ASSUME NEW s \in Seq(Nat), NEW b, LeastOf(s, b), NEW x \in Nat
    PROVE  LeastOf(Append(s, x), IF s = <<>> THEN x ELSE Min({b, x}))
<1>1. /\ Len(s) \in Nat /\ Len(Append(s, x)) = Len(s) + 1 /\ Append(s, x)[Len(s) + 1] = x
      /\ \A i \in 1..Len(s) : Append(s, x)[i] = s[i] /\ s[i] \in Nat
  BY OneMore
<1>2. CASE s = <<>>
  BY <1>1, <1>2 DEF LeastOf
<1>3. CASE s # <<>>
  <2>1. PICK k \in 1..Len(s) : b = s[k]
    BY <1>3 DEF LeastOf
  <2>2. b \in Nat /\ (\A i \in 1..Len(s) : b <= s[i])
    BY <1>1, <1>3, <2>1 DEF LeastOf
  <2>3. Min({b, x}) = IF b <= x THEN b ELSE x
    BY <2>2, MinOfTwo
  <2>4. ASSUME NEW m \in Nat, m = Min({b, x})
        PROVE  LeastOf(Append(s, x), m)
    <3>1. \A i \in 1..Len(s) : m <= s[i]
      BY <1>1, <2>2, <2>3, <2>4
    <3>2. m <= x
      BY <2>2, <2>3, <2>4
    <3>3. \A i \in 1..Len(Append(s, x)) : m <= Append(s, x)[i]
      BY <1>1, <3>1, <3>2
    <3>4. m = Append(s, x)[k] \/ m = Append(s, x)[Len(s) + 1]
      BY <1>1, <2>1, <2>3, <2>4
    <3>5. k \in 1..Len(Append(s, x)) /\ Len(s) + 1 \in 1..Len(Append(s, x))
      BY <1>1
    <3> QED
      BY <3>3, <3>4, <3>5 DEF LeastOf
  <2>5. Min({b, x}) \in Nat
    BY <2>2, <2>3
  <2> QED
    BY <1>3, <2>4, <2>5
<1> QED
  BY <1>2, <1>3

\* The series with one more measurement, and the value that ends it.
LEMMA KeepsLeast ==
    ASSUME Series, NEW rtt \in Nat \cup {Failed}
    PROVE  /\ Keeps(rtt) \in Nat \cup {Failed}
           /\ Keeps(rtt) = Failed => \/ rtts = <<>> /\ rtt = Failed
                                     \/ probe.kind = "tcp"
           /\ Keeps(rtt) # Failed =>
                Keeps(rtt) = Min({Append(rtts, rtt)[i] : i \in DOMAIN Append(rtts, rtt)} \ {Failed})
<1> DEFINE all == {Append(rtts, rtt)[i] : i \in DOMAIN Append(rtts, rtt)}
<1>0. /\ rtts \in Seq(Nat) /\ Len(rtts) \in Nat /\ Failed \notin Nat /\ Failed \in Int
      /\ \A i \in 1..Len(rtts) : rtts[i] \in Nat
  BY DEF Series, Failed
<1>1. /\ DOMAIN Append(rtts, rtt) = 1..(Len(rtts) + 1)
      /\ Append(rtts, rtt)[Len(rtts) + 1] = rtt
      /\ \A i \in 1..Len(rtts) : Append(rtts, rtt)[i] = rtts[i]
  BY <1>0
<1>2. all = {rtts[i] : i \in 1..Len(rtts)} \cup {rtt}
  <2>1. 1..(Len(rtts) + 1) = 1..Len(rtts) \cup {Len(rtts) + 1}
    BY <1>0
  <2> QED
    BY <1>1, <2>1
<1> HIDE DEF all
<1>3. all \ {Failed} \in SUBSET Int
  BY <1>0, <1>2
<1>4. CASE rtts = <<>>
  <2>1. Keeps(rtt) = rtt /\ all = {rtt}
    BY <1>2, <1>4 DEF Keeps
  <2>2. rtt # Failed => Min(all \ {Failed}) = rtt
    <3> SUFFICES ASSUME rtt # Failed PROVE Min(all \ {Failed}) = rtt
      OBVIOUS
    <3>1. rtt \in all \ {Failed} /\ rtt \in Nat /\ \A y \in all \ {Failed} : rtt <= y
      BY <2>1
    <3> QED
      BY <1>3, <3>1, LeastIsMin
  <2> QED
    BY <1>4, <2>1, <2>2 DEF all
<1>5. CASE rtts # <<>>
  <2>1. PICK k \in 1..Len(rtts) : best = rtts[k]
    BY <1>5 DEF Series, LeastOf
  <2>2. best \in Nat /\ best \in all \ {Failed} /\ \A i \in 1..Len(rtts) : best <= rtts[i]
    BY <1>0, <1>2, <1>5, <2>1 DEF Series, LeastOf
  <2>3. CASE rtt = Failed
    <3>1. Keeps(rtt) = best
      BY <1>5, <2>3 DEF Keeps
    <3>2. \A y \in all \ {Failed} : best <= y
      BY <1>2, <2>2, <2>3
    <3>3. Min(all \ {Failed}) = best
      BY <1>3, <2>2, <3>2, LeastIsMin
    <3> QED
      BY <1>0, <2>2, <3>1, <3>3 DEF all
  <2>4. CASE rtt # Failed
    <3>1. rtt \in Nat
      BY <2>4
    <3>2. Min({best, rtt}) = IF best <= rtt THEN best ELSE rtt
      BY <2>2, <3>1, MinOfTwo
    <3>3. Min({best, rtt}) \in all \ {Failed} /\ \A y \in all \ {Failed} : Min({best, rtt}) <= y
      <4>1. rtt \in all \ {Failed}
        BY <1>0, <1>2, <3>1
      <4>2. \A y \in all \ {Failed} : y \in Nat /\ (best <= y \/ y = rtt)
        BY <1>0, <1>2, <2>2, <3>1
      <4>3. CASE best <= rtt
        BY <2>2, <3>1, <3>2, <4>2, <4>3
      <4>4. CASE ~(best <= rtt)
        <5>1. \A y \in all \ {Failed} : rtt <= y
          BY <2>2, <3>1, <4>2, <4>4
        <5> QED
          BY <3>2, <4>1, <4>4, <5>1
      <4> QED
        BY <4>3, <4>4
    <3>4. Min(all \ {Failed}) = Min({best, rtt})
      BY <1>3, <3>3, LeastIsMin
    <3>5. CASE probe.kind = "tcp" /\ Len(rtts) = 1 /\ rtts[1] - rtt > Retransmission
      BY <1>5, <2>4, <3>5 DEF Keeps
    <3>6. CASE ~(probe.kind = "tcp" /\ Len(rtts) = 1 /\ rtts[1] - rtt > Retransmission)
      <4>1. Keeps(rtt) = Min({best, rtt}) /\ Min({best, rtt}) \in Nat
        BY <1>5, <2>2, <2>4, <3>1, <3>2, <3>6 DEF Keeps
      <4> QED
        BY <1>0, <3>4, <4>1 DEF all
    <3> QED
      BY <3>5, <3>6
  <2> QED
    BY <2>3, <2>4
<1> QED
  BY <1>4, <1>5

\* A measurement is taken: the series goes on, another kind begins one, or the
\* ping is told.
LEMMA MeasuredKeepsInv ==
    ASSUME TaskInv, progress \in {"ping", "probe"}, probe.kind \in {"icmp", "tcp", "http"},
           NEW rtt \in Nat \cup {Failed}, Measured(rtt)
    PROVE  TaskInv'
<1>7. Asked /\ Answers /\ received \in Messages
  BY DEF TaskInv
<1>8. received.utf8 /\ TextOf(received, "method") = "agent.ping" /\ Series /\ ProbeAsked
  BY <1>7 DEF Asked
<1>9. reply.of = "none" /\ script # "written"
  BY <1>7 DEF Answers
<1>10. Failed \in Int /\ Failed \notin Nat /\ HighLatency \in Nat /\ MaxRetries \in Nat /\ Retransmission \in Nat
  BY TasksAssumption DEF Failed
<1>11. rtts \in Seq(Nat) /\ Len(rtts) \in Nat /\ Len(rtts) <= MaxRetries /\ LeastOf(rtts, best)
  BY <1>8 DEF Series
<1> DEFINE asked == PingFields(received).kind
<1>1. probe.kind \in Follows(asked)
  BY <1>8 DEF ProbeAsked
<1>2. ASSUME Again(rtt), rtt > HighLatency, Len(rtts) # MaxRetries, Keeps(rtt) # Failed
      PROVE  TaskInv'
  <2>1. /\ rtt \in Nat /\ rtt # Failed
    BY <1>2, <1>10
  <2>2. /\ rtts' = Append(rtts, rtt) /\ best' = (IF rtts = <<>> THEN rtt ELSE Min({best, rtt}))
        /\ probe' = [NoProbe EXCEPT !.kind = probe.kind] /\ progress' = "ping"
        /\ UNCHANGED <<policy, received, script, reply, posts>>
    BY <1>2 DEF Again
  <2>3. /\ rtts' \in Seq(Nat) /\ Len(rtts') = Len(rtts) + 1 /\ rtts'[Len(rtts) + 1] = rtt
        /\ \A i \in 1..Len(rtts) : rtts'[i] = rtts[i] /\ rtts[i] \in Nat
    BY <1>11, <2>1, <2>2, OneMore
  <2>4. probe' = [kind |-> probe.kind, left |-> 0, spent |-> 0]
    BY <2>2 DEF NoProbe
  <2>5. ProbeAsked'
    <3>1. probe'.kind = probe.kind /\ probe'.spent = 0 /\ received' = received
      BY <2>2, <2>4
    <3> QED
      BY <1>1, <2>4, <3>1 DEF ProbeAsked
  <2>6. LeastOf(rtts', best')
    BY <1>11, <2>1, <2>2, LeastGrows
  <2>7. probe'.kind = "tcp" /\ Len(rtts') > 1 => rtts'[1] - rtts'[2] <= Retransmission
    <3> SUFFICES ASSUME probe.kind = "tcp", Len(rtts') > 1
                 PROVE  rtts'[1] - rtts'[2] <= Retransmission
      BY <2>4
    <3>1. CASE Len(rtts) = 1
      <4>0. Len(rtts) + 1 = 2 /\ 1 \in 1..Len(rtts)
        BY <3>1
      <4>1. rtts # <<>> /\ rtts'[1] = rtts[1] /\ rtts'[2] = rtt
        <5>1. rtts # <<>>
          BY <3>1
        <5>2. rtts'[2] = rtt
          BY <2>3, <4>0
        <5> QED
          BY <2>3, <4>0, <5>1, <5>2
      <4>2. ~(rtts[1] - rtt > Retransmission)
        BY <1>2, <2>1, <3>1, <4>1 DEF Keeps
      <4>3. rtts[1] \in Nat
        BY <2>3, <4>0
      <4> QED
        BY <1>10, <2>1, <4>1, <4>2, <4>3
    <3>2. CASE Len(rtts) > 1
      <4>1. 1 \in 1..Len(rtts) /\ 2 \in 1..Len(rtts)
        BY <1>11, <3>2
      <4>2. rtts'[1] = rtts[1] /\ rtts'[2] = rtts[2]
        BY <2>3, <4>1
      <4>3. rtts[1] - rtts[2] <= Retransmission
        BY <1>8, <3>2 DEF Series
      <4> QED
        BY <4>2, <4>3
    <3>3. Len(rtts) = 1 \/ Len(rtts) > 1
      <4>1. Len(rtts) \in Nat /\ Len(rtts') = Len(rtts) + 1
        BY <1>11, <2>3
      <4> QED
        BY <4>1, OneOrMore
    <3> QED
      BY <3>1, <3>2, <3>3
  <2>8. \A i \in 1..Len(rtts') : rtts'[i] > HighLatency
    <3>1. \A i \in 1..Len(rtts) : rtts[i] > HighLatency
      BY <1>8 DEF Series
    <3>2. \A i \in 1..Len(rtts') : i \in 1..Len(rtts) \/ i = Len(rtts) + 1
      BY <1>11, <2>3
    <3> QED
      BY <1>2, <2>3, <3>1, <3>2
  <2>9. Series'
    <3>1. Len(rtts') <= MaxRetries
      BY <1>2, <1>10, <1>11, <2>3
    <3> QED
      BY <2>3, <2>6, <2>7, <2>8, <3>1 DEF Series
  <2>10. Asked'
    BY <1>8, <2>2, <2>5, <2>9 DEF Asked
  <2>11. progress' \notin {"answer", "lost"} /\ script' # "written"
    BY <1>9, <2>2
  <2> QED
    BY <1>9, <2>2, <2>10, <2>11, AnotherProbe
<1>3. ASSUME Settle(Keeps(rtt)), progress' = "answer" => rtts' = Append(rtts, rtt),
             Keeps(rtt) = Failed, probe.kind \in DOMAIN Fallback
      PROVE  TaskInv'
  <2>1. /\ probe' = [NoProbe EXCEPT !.kind = Fallback[probe.kind]] /\ rtts' = <<>>
        /\ progress' = "ping" /\ UNCHANGED <<policy, received, script, reply, posts>>
    BY <1>3 DEF Settle
  <2>2. probe' = [kind |-> Fallback[probe.kind], left |-> 0, spent |-> 0]
    BY <2>1 DEF NoProbe
  <2>3. /\ probe.kind \in {"icmp", "tcp"}
        /\ probe.kind = "icmp" => Fallback[probe.kind] = "tcp"
        /\ probe.kind = "tcp" => Fallback[probe.kind] = "http"
    BY <1>3 DEF Fallback
  <2>4. Fallback[probe.kind] \in Follows(asked)
    BY <1>1, <2>3 DEF Follows
  <2>5. ProbeAsked'
    <3>1. probe'.kind = Fallback[probe.kind] /\ probe'.spent = 0 /\ received' = received /\ rtts' = <<>>
      BY <2>1, <2>2
    <3> QED
      BY <2>2, <2>4, <3>1 DEF ProbeAsked
  <2>6. Series'
    BY <1>10, <2>1 DEF Series, LeastOf
  <2>7. Asked'
    BY <1>8, <2>1, <2>5, <2>6 DEF Asked
  <2>8. progress' \notin {"answer", "lost"} /\ script' # "written"
    BY <1>9, <2>1
  <2> QED
    BY <1>9, <2>1, <2>7, <2>8, AnotherProbe
<1>4. ASSUME Settle(Keeps(rtt)), progress' = "answer" => rtts' = Append(rtts, rtt),
             Keeps(rtt) # Failed \/ probe.kind \notin DOMAIN Fallback,
             \/ rtt <= HighLatency \/ Len(rtts) = MaxRetries \/ Keeps(rtt) = Failed
      PROVE  TaskInv'
  <2>1. /\ reply' = PingAnswer(probe.kind, Keeps(rtt)) /\ progress' = "answer"
        /\ rtts' = Append(rtts, rtt) /\ UNCHANGED <<policy, received, script, posts>>
    BY <1>4 DEF Settle
  <2>2. /\ reply'.of = "ping" /\ reply'.kind = probe.kind /\ reply'.value = Keeps(rtt)
        /\ reply'.id \in Nat
    BY <1>7, <2>1, MessagesAssumption DEF PingAnswer
  <2>3. /\ Len(rtts') = Len(rtts) + 1 /\ rtts'[Len(rtts) + 1] = rtt /\ Last(rtts') = rtt
        /\ \A i \in 1..Len(rtts) : rtts'[i] = rtts[i] /\ rtts[i] \in Nat
    BY <1>11, <2>1, OneMore
  <2>4. PingHonest'
    <3> DEFINE good == {rtts'[i] : i \in DOMAIN rtts'} \ {Failed}
    <3>1. probe.kind \in CASE asked = "icmp" -> {"icmp", "tcp", "http"}
                           [] asked = "tcp" -> {"tcp", "http"}
                           [] asked = "http" -> {"http"}
                           [] OTHER -> {"unknown"}
      BY <1>1 DEF Follows
    <3>2. Keeps(rtt) = Failed => probe.kind \in {"http", "unknown"} /\ good = {}
      <4> SUFFICES ASSUME Keeps(rtt) = Failed PROVE probe.kind = "http" /\ good = {}
        OBVIOUS
      <4>1. probe.kind = "http"
        BY <1>4 DEF Fallback
      <4>2. rtts = <<>> /\ rtt = Failed
        <5>1. probe.kind # "tcp"
          BY <4>1
        <5> QED
          BY <1>8, <5>1, KeepsLeast
      <4> QED
        BY <2>1, <4>1, <4>2
    <3>3. Keeps(rtt) # Failed => Keeps(rtt) = Min(good)
      BY <1>8, <2>1, KeepsLeast
    <3>4. Keeps(rtt) # Failed /\ Keeps(rtt) > HighLatency =>
             Len(rtts') = MaxRetries + 1 \/ Last(rtts') = Failed
      <4> SUFFICES ASSUME Keeps(rtt) # Failed, Keeps(rtt) > HighLatency, rtt # Failed,
                          Len(rtts) # MaxRetries
                   PROVE  FALSE
        BY <2>3
      <4>1. rtt \in Nat /\ rtt <= HighLatency
        BY <1>4
      <4>3. rtts # <<>> /\ Keeps(rtt) = Min({best, rtt})
        BY <1>10, <4>1 DEF Keeps
      <4>4. best \in Nat
        <5>1. PICK k \in 1..Len(rtts) : best = rtts[k]
          BY <1>11, <4>3 DEF LeastOf
        <5> QED
          BY <2>3, <5>1
      <4>5. Min({best, rtt}) <= rtt /\ Min({best, rtt}) \in Nat
        BY <4>1, <4>4, MinOfTwo
      <4> QED
        BY <1>10, <4>1, <4>3, <4>5
    <3>5. Keeps(rtt) # Failed /\ probe.kind = "tcp" /\ Len(rtts') > 1 /\ rtts'[2] # Failed =>
             rtts'[1] - rtts'[2] <= Retransmission
      <4> SUFFICES ASSUME Keeps(rtt) # Failed, probe.kind = "tcp", Len(rtts') > 1, rtts'[2] # Failed
                   PROVE  rtts'[1] - rtts'[2] <= Retransmission
        OBVIOUS
      <4>1. CASE Len(rtts) = 1
        <5>0. Len(rtts) + 1 = 2 /\ 1 \in 1..Len(rtts)
          BY <4>1
        <5>1. rtts # <<>> /\ rtts'[1] = rtts[1] /\ rtts'[2] = rtt /\ rtt # Failed /\ rtts[1] \in Nat
          BY <2>3, <4>1, <5>0
        <5>2. ~(rtts[1] - rtt > Retransmission)
          BY <4>1, <5>1 DEF Keeps
        <5>3. rtt \in Nat
          BY <5>1
        <5> QED
          BY <1>10, <5>1, <5>2, <5>3
      <4>2. CASE Len(rtts) > 1
        <5>1. 1 \in 1..Len(rtts) /\ 2 \in 1..Len(rtts)
          BY <1>11, <4>2
        <5>2. rtts'[1] = rtts[1] /\ rtts'[2] = rtts[2]
          BY <2>3, <5>1
        <5>3. rtts[1] - rtts[2] <= Retransmission
          BY <1>8, <4>2 DEF Series
        <5> QED
          BY <5>2, <5>3
      <4>3. Len(rtts) = 1 \/ Len(rtts) > 1
        <5>1. Len(rtts) \in Nat /\ Len(rtts') = Len(rtts) + 1
          BY <1>11, <2>3
        <5> QED
          BY <5>1, OneOrMore
      <4> QED
        BY <4>1, <4>2, <4>3
    <3> HIDE DEF good
    <3> QED
      BY <2>1, <2>2, <3>1, <3>2, <3>3, <3>4, <3>5 DEF PingHonest, good
  <2>5. ExecHonest'
    BY <2>2 DEF ExecHonest
  <2> QED
    <3>1. script' # "written" /\ reply'.of # "none" /\ reply'.of # "exec"
      BY <1>9, <2>1, <2>2
    <3> QED
      BY <1>8, <1>9, <2>1, <2>2, <2>4, <2>5, <3>1, AnswerKeepsInv
<1>5. CASE rtt <= HighLatency \/ Len(rtts) = MaxRetries \/ Keeps(rtt) = Failed
  <2>1. Settle(Keeps(rtt)) /\ (progress' = "answer" => rtts' = Append(rtts, rtt))
    BY <1>5 DEF Measured
  <2> QED
    BY <1>3, <1>4, <1>5, <2>1
<1>6. CASE ~(rtt <= HighLatency \/ Len(rtts) = MaxRetries \/ Keeps(rtt) = Failed)
  <2>1. Again(rtt)
    BY <1>6 DEF Measured
  <2>2. rtt > HighLatency
    BY <1>6, <1>10
  <2> QED
    BY <1>2, <1>6, <2>1, <2>2
<1> QED
  BY <1>5, <1>6

\* A kind no probe is written for is told as such.
LEMMA UnknownKeepsInv == ASSUME TaskInv, PingUnknown PROVE TaskInv'
<1>1. Asked /\ Answers /\ received \in Messages
  BY DEF TaskInv
<1>2. /\ progress = "ping" /\ probe.kind \notin {"icmp", "tcp", "http"}
      /\ reply' = PingAnswer("unknown", Failed) /\ progress' = "answer"
      /\ UNCHANGED <<policy, received, posts, rtts, script>>
  BY DEF PingUnknown
<1>3. received.utf8 /\ TextOf(received, "method") = "agent.ping" /\ ProbeAsked
  BY <1>1, <1>2 DEF Asked
<1>4. reply.of = "none" /\ script' # "written"
  BY <1>1, <1>2 DEF Answers
<1>5. /\ reply'.of = "ping" /\ reply'.kind = "unknown" /\ reply'.value = Failed /\ reply'.id \in Nat
  BY <1>1, <1>2, MessagesAssumption DEF PingAnswer
<1>6. PingFields(received).kind \notin {"icmp", "tcp", "http"} /\ rtts = <<>>
  BY <1>2, <1>3 DEF ProbeAsked, Follows
<1>7. PingHonest'
  <2>1. {rtts'[i] : i \in DOMAIN rtts'} \ {Failed} = {}
    BY <1>2, <1>6
  <2> QED
    BY <1>2, <1>5, <1>6, <2>1 DEF PingHonest
<1>8. ExecHonest'
  BY <1>5 DEF ExecHonest
<1>9. reply'.of # "none" /\ reply'.of # "exec"
  BY <1>5
<1> QED
  BY <1>2, <1>3, <1>4, <1>5, <1>7, <1>8, <1>9, AnswerKeepsInv

\* A step of a probe that measures nothing yet.
LEMMA ProbeKeepsInv ==
    ASSUME TaskInv, progress \in {"ping", "probe"}, progress' = "probe",
           UNCHANGED <<policy, received, rtts, best, script, reply, posts>>,
           NEW l, NEW t \in Nat, probe' = [kind |-> probe.kind, left |-> l, spent |-> t]
    PROVE  TaskInv'
<1>1. Asked /\ Answers
  BY DEF TaskInv
<1>2. received.utf8 /\ TextOf(received, "method") = "agent.ping" /\ Series /\ ProbeAsked
  BY <1>1 DEF Asked
<1>3. reply.of = "none" /\ script' # "written"
  BY <1>1 DEF Answers
<1>4. probe'.kind = probe.kind /\ probe'.spent = t
  OBVIOUS
<1>5. Series'
  BY <1>2, <1>4 DEF Series
<1>6. ProbeAsked'
  BY <1>2, <1>4 DEF ProbeAsked
<1>7. Asked'
  BY <1>2, <1>5, <1>6 DEF Asked
<1>8. progress' \notin {"answer", "lost"}
  OBVIOUS
<1> QED
  BY <1>3, <1>7, <1>8, AnotherProbe

\* The probes themselves: what they measure, and what they do in between.
LEMMA PingKeepsInv ==
    ASSUME TaskInv, PingIcmp \/ BeginProbe \/ ConnectTcp \/ RequestHttp
    PROVE  TaskInv'
<1>1. /\ progress \in {"ping", "probe"} /\ probe.kind \in {"icmp", "tcp", "http"}
  BY DEF PingIcmp, BeginProbe, ConnectTcp, RequestHttp
<1>2. ProbeAsked
  BY <1>1 DEF TaskInv, Asked
<1>3. /\ probe.spent \in Nat /\ 0..Slow \subseteq Nat
      /\ probe = [kind |-> probe.kind, left |-> probe.left, spent |-> probe.spent]
  BY <1>2 DEF ProbeAsked
<1>4. \A t \in Nat \cup {Failed} : t \in Nat \cup {Failed} /\ AtLeastOne(t) \in Nat \cup {Failed}
  BY DEF AtLeastOne
<1>5. \A rtt \in Nat \cup {Failed} : Measured(rtt) => TaskInv'
  BY <1>1, MeasuredKeepsInv
<1>6. CASE PingIcmp
  <2>1. PICK t \in {Failed} \cup 0..Slow : Measured(AtLeastOne(t))
    BY <1>6 DEF PingIcmp
  <2> QED
    BY <1>3, <1>4, <1>5, <2>1
<1>7. CASE BeginProbe
  <2>1. CASE Measured(Failed)
    BY <1>5, <2>1
  <2>2. ASSUME NEW l, probe' = [probe EXCEPT !.left = l], progress' = "probe",
               UNCHANGED <<channel, policy, received, rtts, best, script, reply, posts>>
        PROVE  TaskInv'
    <3>1. probe' = [kind |-> probe.kind, left |-> l, spent |-> probe.spent]
      BY <1>3, <2>2
    <3> QED
      BY <1>1, <1>3, <2>2, <3>1, ProbeKeepsInv
  <2> QED
    BY <1>7, <2>1, <2>2 DEF BeginProbe
<1>8. CASE ConnectTcp
  <2>1. PICK t \in 0..Slow :
          \/ Measured(AtLeastOne(probe.spent + t))
          \/ Measured(Failed)
          \/ /\ probe' = [probe EXCEPT !.left = @ - 1, !.spent = @ + t]
             /\ UNCHANGED <<channel, policy, received, progress, rtts, best, script, reply, posts>>
    BY <1>8 DEF ConnectTcp
  <2>2. t \in Nat /\ probe.spent + t \in Nat /\ progress = "probe"
    <3>1. progress = "probe"
      BY <1>8 DEF ConnectTcp
    <3>2. t \in Nat /\ probe.spent + t \in Nat
      BY <1>3
    <3> QED
      BY <3>1, <3>2
  <2>3. CASE Measured(AtLeastOne(probe.spent + t)) \/ Measured(Failed)
    BY <1>4, <1>5, <2>2, <2>3
  <2>4. CASE /\ probe' = [probe EXCEPT !.left = @ - 1, !.spent = @ + t]
             /\ UNCHANGED <<channel, policy, received, progress, rtts, best, script, reply, posts>>
    <3>1. probe' = [kind |-> probe.kind, left |-> probe.left - 1, spent |-> probe.spent + t]
      BY <1>3, <2>4
    <3> QED
      BY <1>1, <2>2, <2>4, <3>1, ProbeKeepsInv
  <2> QED
    BY <2>1, <2>3, <2>4
<1>9. CASE RequestHttp
  <2>1. PICK t \in 0..Slow :
          \/ Measured(AtLeastOne(t))
          \/ Measured(t)
          \/ Measured(Failed)
          \/ /\ probe' = [probe EXCEPT !.left = @ - 1]
             /\ UNCHANGED <<channel, policy, received, progress, rtts, best, script, reply, posts>>
    BY <1>9 DEF RequestHttp
  <2>2. t \in Nat /\ progress = "probe"
    BY <1>3, <1>9 DEF RequestHttp
  <2>3. CASE Measured(AtLeastOne(t)) \/ Measured(t) \/ Measured(Failed)
    BY <1>4, <1>5, <2>2, <2>3
  <2>4. CASE /\ probe' = [probe EXCEPT !.left = @ - 1]
             /\ UNCHANGED <<channel, policy, received, progress, rtts, best, script, reply, posts>>
    <3>1. probe' = [kind |-> probe.kind, left |-> probe.left - 1, spent |-> probe.spent]
      BY <1>3, <2>4
    <3> QED
      BY <1>1, <1>3, <2>2, <2>4, <3>1, ProbeKeepsInv
  <2> QED
    BY <2>1, <2>3, <2>4
<1> QED
  BY <1>6, <1>7, <1>8, <1>9

LEMMA NextTaskInv == TaskInv /\ [TkNext]_tkVars => TaskInv'
<1> SUFFICES ASSUME TaskInv, [TkNext]_tkVars PROVE TaskInv'
  OBVIOUS
<1>1. CASE SendOnSocket \/ PostAnswer
  BY <1>1, SentKeepsInv DEF SendOnSocket, PostAnswer
<1>2. CASE UNCHANGED tkVars
  <2>1. Asked' /\ Answers'
    BY <1>2 DEF tkVars, TaskInv, Asked, Answers, Series, ProbeAsked
  <2>2. UNCHANGED <<received, progress, reply, rtts, policy>>
    BY <1>2 DEF tkVars
  <2>3. PingHonest'
    BY <2>2 DEF TaskInv, PingHonest
  <2>4. ExecHonest'
    BY <2>2 DEF TaskInv, ExecHonest
  <2> QED
    BY <1>2, <2>1, <2>3, <2>4 DEF tkVars, TaskInv
<1> QED
  BY <1>1, <1>2, DispatchKeepsInv, ExecKeepsInv, UnknownKeepsInv, PingKeepsInv DEF TkNext

\* Every task gets one answer, sent once and about that task, whatever is
\* measured, however often, and whatever the command does: a round trip that is
\* told is the least of its series, a time-out or a cut is never hidden.
THEOREM EveryTaskAnswered == TkSpec => []TasksAnswered
  BY InitTaskInv, NextTaskInv, TaskInvAnswers, PTL DEF TkSpec

-----------------------------------------------------------------------------
\* Subprocess (process.rs).

-----------------------------------------------------------------------------
(* The least of two or three numbers, which is what reads and cuts take.   *)

\* Least picks the smaller of two (slice bounds of run and capture).
LEMMA LeastOfTwo ==
    ASSUME NEW a \in Int, NEW b \in Int
    PROVE  Least({a, b}) = IF a <= b THEN a ELSE b
<1>1. PICK x \in {a, b} : \A y \in {a, b} : x <= y
    <2>1. CASE a <= b
        BY <2>1
    <2>2. CASE b < a
        BY <2>2
    <2> QED BY <2>1, <2>2
<1>2. /\ Least({a, b}) \in {a, b}
      /\ \A y \in {a, b} : Least({a, b}) <= y
    BY <1>1, Zenon DEF Least
<1> QED BY <1>2

\* Least picks the smallest of three: budget, buffer and pipe in capture.
LEMMA LeastOfThree ==
    ASSUME NEW a \in Int, NEW b \in Int, NEW c \in Int
    PROVE  /\ Least({a, b, c}) \in {a, b, c}
           /\ Least({a, b, c}) <= a
           /\ Least({a, b, c}) <= b
           /\ Least({a, b, c}) <= c
<1>1. \E x \in {a, b, c} : \A y \in {a, b, c} : x <= y
    <2>1. CASE a <= b /\ a <= c
        BY <2>1
    <2>2. CASE b <= a /\ b <= c
        BY <2>2
    <2>3. CASE c <= a /\ c <= b
        BY <2>3
    <2> QED BY <2>1, <2>2, <2>3
<1>2. /\ Least({a, b, c}) \in {a, b, c}
      /\ \A y \in {a, b, c} : Least({a, b, c}) <= y
    BY <1>1, Zenon DEF Least
<1> QED BY <1>2

-----------------------------------------------------------------------------
(* capture.                                                                *)

\* A read takes no more than the pipe holds and the budget allows, and it takes
\* nothing only when there is nothing or the budget is used up (capture).
LEMMA AvailableFacts ==
    ASSUME SpTypeOK, NEW s \in Streams
    PROVE  /\ Total \in 0..(Limit + 1)
           /\ Available(s) \in Nat
           /\ Available(s) <= pipe[s]
           /\ Total + Available(s) <= Limit + 1
           /\ Available(s) = 0 => pipe[s] = 0 \/ Total = Limit + 1
<1> USE SubprocessAssumption
<1>1. /\ got["out"] \in Nat /\ got["err"] \in Nat
      /\ Total \in 0..(Limit + 1)
      /\ pipe[s] \in Nat
    BY DEF SpTypeOK, Streams, Total
<1>2. /\ (Limit + 1) - Total \in Int
      /\ Chunk \in Int
      /\ pipe[s] \in Int
    BY <1>1
<1>3. /\ Available(s) \in {(Limit + 1) - Total, Chunk, pipe[s]}
      /\ Available(s) <= (Limit + 1) - Total
      /\ Available(s) <= pipe[s]
    BY <1>2, LeastOfThree DEF Available
<1> QED BY <1>1, <1>2, <1>3

\* A read moves bytes from the pipe to the capture and leaves their sum.
LEMMA CaptureMoves ==
    ASSUME SpTypeOK, NEW s \in Streams, Capture(s)
    PROVE  /\ pipe' \in [Streams -> 0..PipeSize]
           /\ got' \in [Streams -> 0..(Limit + 1)]
           /\ Total' = Total + Available(s)
           /\ Total' + pipe'["out"] + pipe'["err"] = Total + pipe["out"] + pipe["err"]
<1> USE SubprocessAssumption
<1> DEFINE n == Available(s)
<1>1. /\ n \in Nat /\ n <= pipe[s] /\ Total + n <= Limit + 1
    BY AvailableFacts
<1>2. /\ pipe \in [Streams -> 0..PipeSize]
      /\ got \in [Streams -> 0..(Limit + 1)]
      /\ pipe' = [pipe EXCEPT ![s] = @ - n]
      /\ got' = [got EXCEPT ![s] = @ + n]
    BY DEF SpTypeOK, Capture
<1> HIDE DEF n
<1>3. got[s] + n \in 0..(Limit + 1)
    BY <1>1, <1>2 DEF Total, Streams
<1>4. Total' = Total + n
    BY <1>1, <1>2 DEF Total, Streams
<1>5. pipe'["out"] + pipe'["err"] = pipe["out"] + pipe["err"] - n
    BY <1>1, <1>2 DEF Streams
<1>6. /\ Total \in Int /\ pipe["out"] \in Int /\ pipe["err"] \in Int
      /\ pipe'["out"] \in Int /\ pipe'["err"] \in Int
    BY <1>1, <1>2 DEF Total, Streams
<1>7. Total' + pipe'["out"] + pipe'["err"] = Total + pipe["out"] + pipe["err"]
    BY <1>1, <1>4, <1>5, <1>6
<1> QED BY <1>1, <1>2, <1>3, <1>4, <1>7 DEF n, Streams

\* Cutting the excess byte off leaves exactly the budget (run, after the loops).
LEMMA CutFacts ==
    ASSUME NEW g \in [Streams -> 0..(Limit + 1)],
           g["out"] + g["err"] \in (Limit + 1)..(Limit + 1)
    PROVE  /\ CutToLimit(g) \in [Streams -> 0..(Limit + 1)]
           /\ CutToLimit(g)["out"] + CutToLimit(g)["err"] = Limit
<1> USE SubprocessAssumption
<1>1. g["out"] \in 0..(Limit + 1) /\ g["err"] \in 0..(Limit + 1)
    BY DEF Streams
<1>2. ~(g["out"] + g["err"] <= Limit)
    BY <1>1
<1> DEFINE room == IF g["out"] > Limit THEN 0 ELSE Limit - g["out"]
<1>3. room \in Int
    BY <1>1
<1>4. Least({g["out"], Limit}) = IF g["out"] <= Limit THEN g["out"] ELSE Limit
    BY <1>1, LeastOfTwo
<1>5. Least({g["err"], room}) = IF g["err"] <= room THEN g["err"] ELSE room
    BY <1>1, <1>3, LeastOfTwo
<1>6. CutToLimit(g) = [out |-> Least({g["out"], Limit}), err |-> Least({g["err"], room})]
    BY <1>2 DEF CutToLimit
<1> QED BY <1>1, <1>2, <1>4, <1>5, <1>6 DEF Streams

-----------------------------------------------------------------------------
(* Type correctness.                                                       *)

\* run starts with nothing read and nothing captured.
LEMMA InitTypeOK == SpInit => SpTypeOK
<1> SUFFICES ASSUME SpInit PROVE SpTypeOK
    OBVIOUS
<1> USE SubprocessAssumption
<1>1. feeding \in BOOLEAN
    BY SMT DEF SpInit
<1>2. /\ pipe \in [Streams -> 0..PipeSize]
      /\ got \in [Streams -> 0..(Limit + 1)]
      /\ got["out"] + got["err"] <= Limit + 1
    BY DEF SpInit, Streams
<1>3. /\ inPipe \in 0..PipeSize
      /\ offset \in 0..InputSize
      /\ written \in 0..(Limit + 1)
    BY DEF SpInit
<1> QED BY <1>1, <1>2, <1>3 DEF SpInit, SpTypeOK

\* One write of input moves input_offset within the input.
LEMMA FeedTypes ==
    ASSUME SpTypeOK, Feed
    PROVE  offset' \in 0..InputSize /\ inPipe' \in 0..PipeSize
<1> USE SubprocessAssumption
<1>1. offset \in 0..InputSize /\ inPipe \in 0..PipeSize
    BY DEF SpTypeOK
<1>2. CASE UNCHANGED <<offset, inPipe>>
    BY <1>1, <1>2
<1>3. CASE offset' = InputSize /\ UNCHANGED inPipe
    BY <1>1, <1>3
<1>4. ASSUME NEW n, n = Least({InputSize - offset, Chunk, PipeSize - inPipe}),
             offset' = offset + n, inPipe' = inPipe + n
      PROVE  offset' \in 0..InputSize /\ inPipe' \in 0..PipeSize
    <2>1. /\ InputSize - offset \in Int /\ Chunk \in Int /\ PipeSize - inPipe \in Int
          /\ InputSize - offset >= 0 /\ PipeSize - inPipe >= 0
        BY <1>1
    <2>2. /\ n \in {InputSize - offset, Chunk, PipeSize - inPipe}
          /\ n <= InputSize - offset
          /\ n <= PipeSize - inPipe
        BY <1>4, <2>1, LeastOfThree
    <2> QED BY <1>1, <1>4, <2>1, <2>2
<1> QED BY <1>2, <1>3, <1>4 DEF Feed

\* Every step keeps the types; the budget is never exceeded by more than the
\* byte that shows it (capture).
LEMMA NextTypeOK == SpTypeOK /\ [SpNext]_spVars => SpTypeOK'
<1> SUFFICES ASSUME SpTypeOK, [SpNext]_spVars PROVE SpTypeOK'
    OBVIOUS
<1> USE SubprocessAssumption DEF commandVars, pipeVars, runVars
<1>1. ASSUME NEW s \in Streams, Writes(s) PROVE SpTypeOK'
    <2>1. /\ pipe[s] \in 0..PipeSize /\ pipe[s] < PipeSize
          /\ pipe' = [pipe EXCEPT ![s] = @ + 1]
        BY <1>1 DEF Writes, SpTypeOK
    <2>2. pipe' \in [Streams -> 0..PipeSize]
        BY <2>1 DEF SpTypeOK
    <2>3. written' \in 0..(Limit + 1)
        <3>1. written' = Least({written + 1, Limit + 1})
            BY <1>1 DEF Writes
        <3>2. written \in 0..(Limit + 1)
            BY DEF SpTypeOK
        <3>3. written' = IF written + 1 <= Limit + 1 THEN written + 1 ELSE Limit + 1
            BY <3>1, <3>2, LeastOfTwo
        <3> QED BY <3>2, <3>3
    <2> QED BY <1>1, <2>2, <2>3 DEF Writes, SpTypeOK
<1>2. CASE ReadsInput
    BY <1>2 DEF ReadsInput, SpTypeOK
<1>3. CASE Forks \/ Escapes \/ HelperEnds \/ RootExits
    BY <1>3 DEF Forks, Escapes, HelperEnds, RootExits, SpTypeOK
<1>4. CASE Deadline
    BY <1>4 DEF Deadline, SpTypeOK
<1>5. CASE Turn
    BY <1>5 DEF Turn, SpTypeOK
<1>6. ASSUME NEW s \in Streams, Capture(s),
             at' \in {"err", "stop", "feed", "lastErr"},
             reason' \in {reason, "OutputLimit"},
             gotNow' \in BOOLEAN,
             UNCHANGED <<commandVars, inPipe, due, feeding, offset, written>>
      PROVE  SpTypeOK'
    <2>1. /\ pipe' \in [Streams -> 0..PipeSize]
          /\ got' \in [Streams -> 0..(Limit + 1)]
          /\ Total' = Total + Available(s)
        BY <1>6, CaptureMoves
    <2>2. Total + Available(s) <= Limit + 1
        BY <1>6, AvailableFacts
    <2>3. got'["out"] + got'["err"] <= Limit + 1
        BY <2>1, <2>2 DEF Total
    <2> QED BY <1>6, <2>1, <2>3 DEF SpTypeOK
<1>7. CASE CaptureOut \/ CaptureErr \/ LastOut
    <2>1. gotNow \in BOOLEAN /\ "out" \in Streams /\ "err" \in Streams
        BY DEF SpTypeOK, Streams
    <2>2. CASE CaptureOut
        BY <1>6, <2>1, <2>2 DEF CaptureOut
    <2>3. CASE CaptureErr
        BY <1>6, <2>1, <2>3 DEF CaptureErr
    <2>4. CASE LastOut
        BY <1>6, <2>1, <2>4 DEF LastOut
    <2> QED BY <1>7, <2>2, <2>3, <2>4
<1>8. CASE Feed
    <2>1. offset' \in 0..InputSize /\ inPipe' \in 0..PipeSize
        BY <1>8, FeedTypes
    <2> QED BY <1>8, <2>1 DEF Feed, SpTypeOK
<1>9. CASE Watch
    BY <1>9 DEF Watch, SpTypeOK
<1>10. CASE Stop \/ Wait
    BY <1>10 DEF Stop, Wait, Killed, SpTypeOK
<1>11. CASE LastErr
    <2> DEFINE n == Available("err")
               g == [got EXCEPT !["err"] = @ + n]
    <2>1. "err" \in Streams
        BY DEF Streams
    <2>2. /\ n \in Nat /\ n <= pipe["err"] /\ Total + n <= Limit + 1
        BY <2>1, AvailableFacts
    <2>3. /\ pipe \in [Streams -> 0..PipeSize]
          /\ got \in [Streams -> 0..(Limit + 1)]
          /\ pipe' = [pipe EXCEPT !["err"] = @ - n]
        BY <1>11 DEF LastErr, SpTypeOK
    <2>4. /\ IF g["out"] + g["err"] > Limit
             THEN got' = CutToLimit(g) /\ reason' = "OutputLimit" /\ at' = "returned"
             ELSE /\ got' = g
                  /\ UNCHANGED reason
                  /\ at' \in {"lastOut", "returned"}
          /\ UNCHANGED <<commandVars, inPipe, due, gotNow, feeding, offset, written>>
        BY <1>11 DEF LastErr
    <2> HIDE DEF n
    <2>5. pipe' \in [Streams -> 0..PipeSize]
        BY <2>2, <2>3 DEF Streams
    <2>6. g \in [Streams -> 0..(Limit + 1)] /\ g["out"] + g["err"] \in 0..(Limit + 1)
        BY <2>2, <2>3 DEF Streams, Total
    <2> HIDE DEF g
    <2>7. got' \in [Streams -> 0..(Limit + 1)] /\ got'["out"] + got'["err"] <= Limit + 1
        <3>1. CASE g["out"] + g["err"] > Limit
            BY <2>4, <2>6, <3>1, CutFacts
        <3>2. CASE ~(g["out"] + g["err"] > Limit)
            BY <2>4, <2>6, <3>2
        <3> QED BY <3>1, <3>2
    <2> QED BY <2>4, <2>5, <2>7 DEF SpTypeOK
<1>12. CASE RunFails
    BY <1>12 DEF RunFails, SpTypeOK
<1>13. CASE UNCHANGED spVars
    BY <1>13 DEF spVars, SpTypeOK
<1> QED BY <1>1, <1>2, <1>3, <1>4, <1>5, <1>7, <1>8, <1>9, <1>10, <1>11, <1>12, <1>13
        DEF SpNext, RunStep, CommandStep

\* The state of run is well typed, whatever the command does: what is captured
\* never exceeds OUTPUT_LIMIT by more than one byte.
THEOREM RunTypeCorrect == SpSpec => []SpTypeOK
BY InitTypeOK, NextTypeOK, PTL DEF SpSpec

-----------------------------------------------------------------------------
(* What run leaves behind, and what it returns.                            *)

Bytes == Total + pipe["out"] + pipe["err"]

\* The bytes written are those captured and those in the pipes, until the
\* excess is cut off; OutputLimit is only said of an overflow; after a turn of
\* the last reads that found nothing, stdout is empty for good; and once the
\* group was stopped, only a process that left it can write.
ExactInv ==
    /\ at # "returned" =>
          /\ written = (IF Bytes <= Limit THEN Bytes ELSE Limit + 1)
          /\ reason = "OutputLimit" => Total > Limit
    /\ at = "lastErr" /\ ~gotNow /\ ~EverEscaped =>
          pipe["out"] = 0 \/ Total = Limit + 1
    /\ at \in {"wait", "lastOut", "lastErr", "returned", "error"} =>
          root # "alive" /\ helper # "group"
    /\ at \in {"lastOut", "lastErr", "returned", "error"} => root = "reaped"
    /\ CaptureExact

\* The account is in natural numbers (out.len() + err.len()).
LEMMA BytesType ==
    ASSUME SpTypeOK
    PROVE  /\ pipe["out"] \in Nat /\ pipe["err"] \in Nat /\ Total \in Nat
           /\ Bytes \in Nat /\ Total <= Limit + 1
BY SubprocessAssumption DEF SpTypeOK, Total, Bytes, Streams

\* Nothing is written or captured when run starts.
LEMMA InitExactInv == SpInit => ExactInv
BY SubprocessAssumption
DEF SpInit, ExactInv, Bytes, Total, EverEscaped, CaptureExact, Returned, Streams

\* A process that may still write after the group was stopped left the group.
LEMMA AliveEscaped ==
    ASSUME SpTypeOK, ExactInv, Alive,
           at \in {"wait", "lastOut", "lastErr", "returned", "error"}
    PROVE  EverEscaped
BY DEF ExactInv, Alive, EverEscaped

\* Every step of run, of the command and of the clock keeps the account.
LEMMA NextExactInv == SpTypeOK /\ SpTypeOK' /\ ExactInv /\ [SpNext]_spVars => ExactInv'
<1> SUFFICES ASSUME SpTypeOK, SpTypeOK', ExactInv, [SpNext]_spVars PROVE ExactInv'
    OBVIOUS
<1> USE SubprocessAssumption DEF commandVars, pipeVars, runVars
<1>0. /\ pipe["out"] \in Nat /\ pipe["err"] \in Nat /\ Total \in Nat
      /\ Bytes \in Nat /\ Total <= Limit + 1
    BY BytesType
<1>1. ASSUME NEW s \in Streams, Writes(s) PROVE ExactInv'
    <2>1. /\ pipe' = [pipe EXCEPT ![s] = @ + 1]
          /\ written' = Least({written + 1, Limit + 1})
          /\ UNCHANGED <<commandVars, runVars>>
          /\ Alive
        BY <1>1 DEF Writes
    <2>2. UNCHANGED <<Total, EverEscaped, Returned>>
        BY <2>1 DEF Total, EverEscaped, Returned
    <2>3. Bytes' = Bytes + 1
        BY <1>0, <2>1, <2>2 DEF Bytes, SpTypeOK, Streams
    <2>4. written' = IF written + 1 <= Limit + 1 THEN written + 1 ELSE Limit + 1
        <3>1. written \in Nat
            BY DEF SpTypeOK
        <3> QED BY <2>1, <3>1, LeastOfTwo
    <2>5. CASE at \in {"wait", "lastOut", "lastErr", "returned", "error"}
        <3>1. EverEscaped
            BY <2>1, <2>5, AliveEscaped
        <3> QED BY <1>0, <2>1, <2>2, <2>3, <2>4, <3>1 DEF ExactInv, CaptureExact
    <2>6. CASE at \notin {"wait", "lastOut", "lastErr", "returned", "error"}
        BY <1>0, <2>1, <2>2, <2>3, <2>4, <2>6 DEF ExactInv, CaptureExact, Returned
    <2> QED BY <2>5, <2>6
<1>2. ASSUME UNCHANGED <<pipe, at, got, gotNow, reason, written>>,
             EverEscaped => EverEscaped',
             at \in {"wait", "lastOut", "lastErr", "returned", "error"} =>
                 root' # "alive" /\ helper' # "group" /\ (root = "reaped" => root' = "reaped")
      PROVE  ExactInv'
    <2>1. UNCHANGED <<Total, Bytes, Returned>>
        BY <1>2 DEF Total, Bytes, Returned
    <2> QED BY <1>2, <2>1 DEF ExactInv, CaptureExact
<1>3. CASE ReadsInput \/ Deadline \/ UNCHANGED spVars
    BY <1>2, <1>3 DEF ReadsInput, Deadline, spVars, EverEscaped, ExactInv
<1>4. CASE Forks \/ Escapes \/ HelperEnds \/ RootExits
    BY <1>2, <1>4 DEF Forks, Escapes, HelperEnds, RootExits, EverEscaped, ExactInv
<1>5. ASSUME UNCHANGED <<pipe, got, written>>,
             at \notin {"lastOut", "lastErr", "returned", "error"},
             at' \notin {"lastErr", "returned"},
             reason' = reason \/ reason' # "OutputLimit",
             at' \in {"wait", "lastOut", "error"} => root' # "alive" /\ helper' # "group",
             at' \in {"lastOut", "error"} => root' = "reaped"
      PROVE  ExactInv'
    <2>1. UNCHANGED <<Total, Bytes>>
        BY <1>5 DEF Total, Bytes
    <2> QED BY <1>5, <2>1 DEF ExactInv, CaptureExact, Returned
<1>6. CASE Turn \/ Feed \/ Watch
    BY <1>5, <1>6 DEF Turn, Feed, Watch
<1>7. CASE Stop
    BY <1>5, <1>7 DEF Stop, Killed, SpTypeOK
<1>8. CASE Wait
    BY <1>5, <1>8 DEF Wait, ExactInv
<1>9. CASE RunFails
    <2>1. UNCHANGED <<Total, Bytes>>
        BY <1>9 DEF RunFails, Total, Bytes
    <2> QED BY <1>9, <2>1 DEF RunFails, ExactInv, CaptureExact, Returned
<1>10. ASSUME NEW s \in Streams, Capture(s), UNCHANGED <<commandVars, written>>
       PROVE  /\ Bytes' = Bytes
              /\ Total' >= Total
              /\ EverEscaped' = EverEscaped
              /\ Available(s) = 0 => pipe[s] = 0 \/ Total = Limit + 1
              /\ Available(s) = 0 => pipe'[s] = pipe[s] /\ Total' = Total
    <2>1. /\ Total' = Total + Available(s)
          /\ Total' + pipe'["out"] + pipe'["err"] = Total + pipe["out"] + pipe["err"]
        BY <1>10, CaptureMoves
    <2>2. /\ Available(s) \in Nat
          /\ Available(s) = 0 => pipe[s] = 0 \/ Total = Limit + 1
        BY <1>10, AvailableFacts
    <2>3. pipe' = [pipe EXCEPT ![s] = @ - Available(s)]
        BY <1>10 DEF Capture
    <2>4. Available(s) = 0 => pipe'[s] = pipe[s]
        BY <2>3 DEF SpTypeOK, Streams
    <2> QED BY <1>0, <1>10, <2>1, <2>2, <2>4 DEF Bytes, EverEscaped
<1>11. "out" \in Streams /\ "err" \in Streams
    BY DEF Streams
<1>12. CASE CaptureOut
    <2>1. /\ Capture("out") /\ UNCHANGED <<commandVars, reason, written>>
          /\ at = "out" /\ at' = "err"
        BY <1>12 DEF CaptureOut
    <2>2. Bytes' = Bytes /\ Total' >= Total
        BY <1>10, <1>11, <2>1
    <2>3. Total' \in Nat
        <3>1. got' \in [Streams -> 0..(Limit + 1)]
            BY DEF SpTypeOK
        <3> QED BY <3>1 DEF Total, Streams
    <2> QED BY <1>0, <2>1, <2>2, <2>3 DEF ExactInv, CaptureExact, Returned
<1>13. CASE CaptureErr
    <2>1. /\ Capture("err") /\ UNCHANGED <<commandVars, written>>
          /\ at = "err" /\ at' \in {"stop", "feed"}
          /\ IF Total' > Limit THEN reason' = "OutputLimit" ELSE reason' = reason
        BY <1>13 DEF CaptureErr
    <2>2. Bytes' = Bytes /\ Total' >= Total
        BY <1>10, <1>11, <2>1
    <2>3. Total' \in Nat
        <3>1. got' \in [Streams -> 0..(Limit + 1)]
            BY DEF SpTypeOK
        <3> QED BY <3>1 DEF Total, Streams
    <2> QED BY <1>0, <2>1, <2>2, <2>3 DEF ExactInv, CaptureExact, Returned
<1>14. CASE LastOut
    <2>1. /\ Capture("out") /\ UNCHANGED <<commandVars, reason, written>>
          /\ at = "lastOut" /\ at' = "lastErr"
          /\ gotNow' = (Available("out") > 0)
        BY <1>14 DEF LastOut
    <2>2. /\ Bytes' = Bytes /\ Total' >= Total
          /\ EverEscaped' = EverEscaped
          /\ Available("out") = 0 =>
                (pipe'["out"] = 0 \/ Total' = Limit + 1)
        BY <1>10, <1>11, <2>1
    <2>3. Total' \in Nat
        <3>1. got' \in [Streams -> 0..(Limit + 1)]
            BY DEF SpTypeOK
        <3> QED BY <3>1 DEF Total, Streams
    <2>4. ~gotNow' => pipe'["out"] = 0 \/ Total' = Limit + 1
        <3>1. Available("out") \in Nat
            BY <1>11, AvailableFacts
        <3>2. Available("out") > 0 => gotNow'
            BY <2>1, Zenon
        <3>3. Available("out") = 0 \/ Available("out") > 0
            BY <3>1
        <3> QED BY <2>2, <3>2, <3>3
    <2> QED BY <1>0, <2>1, <2>2, <2>3, <2>4 DEF ExactInv, CaptureExact, Returned
<1>15. CASE LastErr
    <2> DEFINE n == Available("err")
               g == [got EXCEPT !["err"] = @ + n]
    <2>1. /\ n \in Nat /\ n <= pipe["err"] /\ Total + n <= Limit + 1
          /\ n = 0 => pipe["err"] = 0 \/ Total = Limit + 1
        BY <1>11, AvailableFacts
    <2>2. /\ pipe \in [Streams -> 0..PipeSize]
          /\ got \in [Streams -> 0..(Limit + 1)]
        BY DEF SpTypeOK
    <2>3. /\ pipe' = [pipe EXCEPT !["err"] = @ - n]
          /\ IF g["out"] + g["err"] > Limit
             THEN got' = CutToLimit(g) /\ reason' = "OutputLimit" /\ at' = "returned"
             ELSE /\ got' = g
                  /\ UNCHANGED reason
                  /\ at' = IF gotNow \/ n > 0 THEN "lastOut" ELSE "returned"
          /\ at = "lastErr"
          /\ UNCHANGED <<commandVars, gotNow, written>>
        BY <1>15 DEF LastErr
    <2>4. written = (IF Bytes <= Limit THEN Bytes ELSE Limit + 1)
        BY <2>3 DEF ExactInv
    <2>5. /\ reason = "OutputLimit" => Total > Limit
          /\ ~gotNow /\ ~EverEscaped => pipe["out"] = 0 \/ Total = Limit + 1
          /\ root = "reaped" /\ helper # "group"
        BY <2>3 DEF ExactInv
    <2> HIDE DEF n
    <2>6. /\ g \in [Streams -> 0..(Limit + 1)]
          /\ g["out"] + g["err"] = Total + n
          /\ pipe'["out"] = pipe["out"] /\ pipe'["err"] = pipe["err"] - n
        BY <2>1, <2>2, <2>3 DEF Streams, Total
    <2> HIDE DEF g
    <2>7. EverEscaped' = EverEscaped
        BY <2>3 DEF EverEscaped
    <2>8. CASE g["out"] + g["err"] > Limit
        <3>1. got' = CutToLimit(g) /\ reason' = "OutputLimit" /\ at' = "returned"
            BY <2>3, <2>8
        <3>2. g["out"] + g["err"] \in (Limit + 1)..(Limit + 1)
            BY <1>0, <2>1, <2>6, <2>8
        <3>3. Total' = Limit
            BY <2>6, <3>1, <3>2, CutFacts DEF Total
        <3>4. written' = Limit + 1
            BY <1>0, <2>1, <2>3, <2>4, <2>6, <2>8 DEF Bytes
        <3>5. Least({written', Limit}) = Limit
            BY <3>4, LeastOfTwo
        <3>6. CaptureExact'
            BY <3>1, <3>3, <3>4, <3>5 DEF CaptureExact, Returned
        <3> QED BY <2>3, <2>5, <3>1, <3>6 DEF ExactInv
    <2>9. CASE ~(g["out"] + g["err"] > Limit) /\ (gotNow \/ n > 0)
        <3>1. got' = g /\ reason' = reason /\ at' = "lastOut"
            BY <2>3, <2>9
        <3>2. Total' = Total + n
            BY <2>6, <3>1 DEF Total
        <3>3. Bytes' = Bytes
            BY <1>0, <2>1, <2>6, <3>2 DEF Bytes
        <3>4. CaptureExact'
            BY <3>1 DEF CaptureExact, Returned
        <3> QED BY <1>0, <2>1, <2>3, <2>4, <2>5, <3>1, <3>2, <3>3, <3>4 DEF ExactInv
    <2>10. CASE ~(g["out"] + g["err"] > Limit) /\ ~(gotNow \/ n > 0)
        <3>1. got' = g /\ reason' = reason /\ at' = "returned"
            BY <2>3, <2>10
        <3>2. n = 0 /\ Total' = Total /\ Total <= Limit
            BY <1>0, <2>1, <2>6, <2>10, <3>1 DEF Total
        <3>3. pipe["err"] = 0
            BY <1>0, <2>1, <3>2
        <3>4. ~EverEscaped => written = Total
            BY <1>0, <2>4, <2>5, <2>10, <3>2, <3>3 DEF Bytes
        <3>5. reason' # "OutputLimit"
            BY <1>0, <2>5, <3>1, <3>2
        <3>6. ~EverEscaped => Least({written', Limit}) = Total'
            BY <1>0, <2>3, <3>2, <3>4, LeastOfTwo
        <3>7. CaptureExact'
            BY <1>0, <2>3, <2>7, <3>1, <3>2, <3>4, <3>5, <3>6 DEF CaptureExact, Returned
        <3> QED BY <2>3, <2>5, <3>1, <3>7 DEF ExactInv
    <2> QED BY <2>8, <2>9, <2>10
<1> QED BY <1>1, <1>3, <1>4, <1>6, <1>7, <1>8, <1>9, <1>12, <1>13, <1>14, <1>15
        DEF SpNext, RunStep, CommandStep

\* What run returns is everything the command's group wrote, or the budget full
\* of it and flagged as cut, for every limit, read size, pipe size and input.
THEOREM CapturedExactly == SpSpec => []CaptureExact
<1>1. ExactInv => CaptureExact
    BY DEF ExactInv
<1> QED BY <1>1, InitTypeOK, NextTypeOK, InitExactInv, NextExactInv, PTL DEF SpSpec

\* However run is left, the command is reaped and its group is dead.
THEOREM GroupStopped == SpSpec => []NothingLeft
<1>1. ExactInv => NothingLeft
    BY DEF ExactInv, NothingLeft
<1> QED BY <1>1, InitTypeOK, NextTypeOK, InitExactInv, NextExactInv, PTL DEF SpSpec

-----------------------------------------------------------------------------
\* TerminalSessions (terminal/mod.rs).

GateStates == {"free", "refusing", "spawning"}

\* The types but the counter's, whose range follows from what it counts.
StateTypes ==
    /\ slots \in Int
    /\ gate \in [Dispatchers -> GateStates]
    /\ stage \in [Sessions -> Stages]
    /\ ptsname \in Sessions \cup {NoPty}
    /\ shellOn \in [Sessions -> Sessions \cup {NoPty}]
    /\ overdue \in [Sessions -> BOOLEAN]
    /\ abandoned \in [Sessions -> BOOLEAN]

\* Whoever passed the gate is within the limit, running or about to.
WithinLimit ==
    Cardinality(Running) + Cardinality(Asking("spawning")) <= MaxTerminals

TmInv == StateTypes /\ SlotsAccounted /\ WithinLimit

\* The threads that are counted are finitely many, so that they can be counted.
LEMMA Countable ==
    /\ IsFiniteSet(Running) /\ Cardinality(Running) \in Nat
    /\ \A g \in GateStates :
          /\ IsFiniteSet(Asking(g)) /\ Cardinality(Asking(g)) \in Nat
          /\ Cardinality(Asking(g)) <= Cardinality(Dispatchers)
<1>1. Running \subseteq Sessions /\ IsFiniteSet(Running)
  BY FS_Subset, TerminalAssumption DEF Running
<1>2. ASSUME NEW g \in GateStates
      PROVE  IsFiniteSet(Asking(g)) /\ Cardinality(Asking(g)) <= Cardinality(Dispatchers)
  BY FS_Subset, TerminalAssumption DEF Asking
<1> QED
  BY <1>1, <1>2, FS_CardinalityType

\* A dispatching thread that goes from one state of the gate to another is
\* counted in the one and no more in the other.
LEMMA GateMoves ==
    ASSUME NEW d \in Dispatchers, NEW from \in GateStates, NEW to \in GateStates,
           from # to, StateTypes, gate[d] = from, gate' = [gate EXCEPT ![d] = to]
    PROVE  /\ Cardinality(Asking(from)') = Cardinality(Asking(from)) - 1
           /\ Cardinality(Asking(from)') \in Nat
           /\ Cardinality(Asking(to)') = Cardinality(Asking(to)) + 1
           /\ \A g \in GateStates \ {from, to} : Asking(g)' = Asking(g)
<1>1. Asking(from)' = Asking(from) \ {d} /\ d \in Asking(from)
  BY DEF Asking, StateTypes
<1>2. Asking(to)' = Asking(to) \cup {d} /\ d \notin Asking(to)
  BY DEF Asking, StateTypes
<1>3. \A g \in GateStates \ {from, to} : Asking(g)' = Asking(g)
  BY DEF Asking, StateTypes
<1>4. Cardinality(Asking(from)') = Cardinality(Asking(from)) - 1
  BY <1>1, Countable, FS_RemoveElement
<1>5. Cardinality(Asking(to)') = Cardinality(Asking(to)) + 1
  BY <1>2, Countable, FS_AddElement
<1>6. Cardinality(Asking(from)') \in Nat
  BY <1>1, Countable, FS_RemoveElement, FS_CardinalityType
<1> QED
  BY <1>3, <1>4, <1>5, <1>6

\* A thread is counted from its start ...
LEMMA ThreadStarts ==
    ASSUME NEW s \in Sessions, NEW st \in Stages \ {"none"}, StateTypes,
           stage[s] = "none", stage' = [stage EXCEPT ![s] = st]
    PROVE  Cardinality(Running') = Cardinality(Running) + 1
<1>1. Running' = Running \cup {s} /\ s \notin Running
  BY DEF Running, StateTypes
<1> QED
  BY <1>1, Countable, FS_AddElement

\* ... to its end ...
LEMMA ThreadEnds ==
    ASSUME NEW s \in Sessions, StateTypes,
           stage[s] # "none", stage' = [stage EXCEPT ![s] = "none"]
    PROVE  Cardinality(Running') = Cardinality(Running) - 1
<1>1. Running' = Running \ {s} /\ s \in Running
  BY DEF Running, StateTypes
<1> QED
  BY <1>1, Countable, FS_RemoveElement

\* ... and whatever it does between them.
LEMMA ThreadGoesOn ==
    ASSUME NEW s \in Sessions, NEW st \in Stages \ {"none"}, StateTypes,
           stage[s] # "none", stage' = [stage EXCEPT ![s] = st]
    PROVE  Running' = Running
  BY DEF Running, StateTypes

\* No thread runs when the agent starts, and no slot is taken.
LEMMA InitTmInv == TmInit => TmInv
<1> SUFFICES ASSUME TmInit PROVE TmInv
  OBVIOUS
<1>1. Running = {} /\ Asking("spawning") = {} /\ Asking("refusing") = {}
  BY DEF TmInit, Running, Asking
<1>2. StateTypes
  BY DEF TmInit, StateTypes, GateStates, Stages
<1> QED
  BY <1>1, <1>2, FS_EmptySet, TerminalAssumption DEF TmInv, SlotsAccounted, WithinLimit, TmInit

\* The gate (handle_terminal_request): one step per thing a thread does there.
LEMMA GateKeepsTmInv ==
    ASSUME TmInv, NEW d \in Dispatchers,
           Request(d) \/ Refuse(d) \/ SpawnFails(d) \/ \E s \in Sessions : SpawnThread(d, s)
    PROVE  TmInv'
<1> USE DEF GateStates
<1>0. StateTypes /\ SlotsAccounted /\ WithinLimit
  BY DEF TmInv
<1>1. ASSUME Request(d) PROVE TmInv'
  <2>1. Running' = Running
    BY <1>1 DEF Request, Running, sessionVars
  <2>2. CASE slots >= MaxTerminals
    <3>1. gate' = [gate EXCEPT ![d] = "refusing"]
      BY <1>1, <2>2 DEF Request
    <3>2. /\ Cardinality(Asking("refusing")') = Cardinality(Asking("refusing")) + 1
          /\ Asking("spawning")' = Asking("spawning")
      BY <1>0, <1>1, <3>1, GateMoves DEF Request
    <3> QED
      BY <1>0, <1>1, <2>1, <3>1, <3>2, Countable
      DEF Request, TmInv, StateTypes, SlotsAccounted, WithinLimit, sessionVars
  <2>3. CASE ~(slots >= MaxTerminals)
    <3>1. gate' = [gate EXCEPT ![d] = "spawning"]
      BY <1>1, <2>3 DEF Request
    <3>2. /\ Cardinality(Asking("spawning")') = Cardinality(Asking("spawning")) + 1
          /\ Asking("refusing")' = Asking("refusing")
      BY <1>0, <1>1, <3>1, GateMoves DEF Request
    <3>3. Cardinality(Running) + Cardinality(Asking("spawning")) < MaxTerminals
      BY <1>0, <2>3, Countable, TerminalAssumption DEF SlotsAccounted, StateTypes
    <3> QED
      BY <1>0, <1>1, <2>1, <3>1, <3>2, <3>3, Countable, TerminalAssumption
      DEF Request, TmInv, StateTypes, SlotsAccounted, WithinLimit, sessionVars
  <2> QED
    BY <2>2, <2>3
<1>2. ASSUME Refuse(d) PROVE TmInv'
  <2>1. /\ Cardinality(Asking("refusing")') = Cardinality(Asking("refusing")) - 1
        /\ Asking("spawning")' = Asking("spawning")
    BY <1>0, <1>2, GateMoves DEF Refuse
  <2>2. Running' = Running
    BY <1>2 DEF Refuse, Running, sessionVars
  <2> QED
    BY <1>0, <1>2, <2>1, <2>2, Countable
    DEF Refuse, TmInv, StateTypes, SlotsAccounted, WithinLimit, sessionVars
<1>3. ASSUME SpawnFails(d) PROVE TmInv'
  <2>1. /\ Cardinality(Asking("spawning")') = Cardinality(Asking("spawning")) - 1
        /\ Asking("refusing")' = Asking("refusing")
    BY <1>0, <1>3, GateMoves DEF SpawnFails
  <2>2. Running' = Running
    BY <1>3 DEF SpawnFails, Running, sessionVars
  <2> QED
    BY <1>0, <1>3, <2>1, <2>2, Countable, TerminalAssumption
    DEF SpawnFails, TmInv, StateTypes, SlotsAccounted, WithinLimit, sessionVars
<1>4. ASSUME NEW s \in Sessions, SpawnThread(d, s) PROVE TmInv'
  <2>1. /\ Cardinality(Asking("spawning")') = Cardinality(Asking("spawning")) - 1
        /\ Cardinality(Asking("spawning")') \in Nat
        /\ Asking("refusing")' = Asking("refusing")
    BY <1>0, <1>4, GateMoves DEF SpawnThread
  <2>2. Cardinality(Running') = Cardinality(Running) + 1
    BY <1>0, <1>4, ThreadStarts DEF SpawnThread, Stages
  <2>3. StateTypes'
    BY <1>0, <1>4 DEF SpawnThread, StateTypes, Stages
  <2>4. slots' = slots
    BY <1>4 DEF SpawnThread
  <2>5. SlotsAccounted' /\ WithinLimit'
    BY <1>0, <2>1, <2>2, <2>4, Countable, TerminalAssumption
    DEF SlotsAccounted, WithinLimit
  <2> QED
    BY <2>3, <2>5 DEF TmInv
<1> QED
  BY <1>1, <1>2, <1>3, <1>4

\* The end of a thread, and the slot with it (the guard that is dropped).
LEMMA LeaveKeepsTmInv ==
    ASSUME TmInv, NEW s \in Sessions, stage[s] # "none", Leave(s),
           UNCHANGED <<gate, ptsname, overdue, abandoned>>
    PROVE  TmInv'
<1>1. Cardinality(Running') = Cardinality(Running) - 1
  BY ThreadEnds DEF Leave, TmInv
<1>2. \A g \in GateStates : Asking(g)' = Asking(g)
  BY DEF Asking
<1>3. StateTypes'
  BY DEF TmInv, StateTypes, Leave, Stages
<1> QED
  BY <1>1, <1>2, <1>3, Countable, TerminalAssumption
  DEF TmInv, SlotsAccounted, WithinLimit, Leave, StateTypes, GateStates

\* A turn of a thread that neither starts nor ends it.
LEMMA GoingOnKeepsTmInv ==
    ASSUME TmInv, NEW s \in Sessions, NEW st \in Stages \ {"none"},
           stage[s] # "none", stage' = [stage EXCEPT ![s] = st],
           UNCHANGED <<slots, gate>>, StateTypes'
    PROVE  TmInv'
<1>1. Running' = Running
  BY ThreadGoesOn DEF TmInv
<1>2. \A g \in GateStates : Asking(g)' = Asking(g)
  BY DEF Asking
<1> QED
  BY <1>1, <1>2 DEF TmInv, SlotsAccounted, WithinLimit, GateStates

\* A session's thread (run_terminal): it ends, or it goes on.
LEMMA SessionKeepsTmInv ==
    ASSUME TmInv, NEW s \in Sessions, SessionStep(s)
    PROVE  TmInv'
<1> USE DEF Stages, Copying
<1>0. StateTypes
  BY DEF TmInv
<1>1. CASE SetupFails(s) \/ CloseTerminal(s)
  BY <1>1, LeaveKeepsTmInv DEF SetupFails, CloseTerminal
<1>2. CASE OpenPty(s)
  BY <1>0, <1>2, GoingOnKeepsTmInv DEF OpenPty, StateTypes
<1>3. CASE NamePty(s)
  BY <1>0, <1>3, GoingOnKeepsTmInv DEF NamePty, StateTypes
<1>4. CASE ForkShell(s)
  BY <1>0, <1>4, GoingOnKeepsTmInv DEF ForkShell, StateTypes
<1>5. CASE CopyTop(s) \/ KeptAlive(s) \/ Disconnected(s) \/ Typed(s) \/ Printed(s) \/ Silent(s)
  <2>1. PICK st \in Stages \ {"none"} : Goto(s, st)
    BY <1>5 DEF CopyTop, KeptAlive, Disconnected, Typed, Printed, Silent
  <2>2. stage[s] # "none"
    BY <1>5 DEF CopyTop, KeptAlive, Disconnected, Typed, Printed, Silent
  <2>3. overdue' \in [Sessions -> BOOLEAN]
    BY <1>0, <1>5 DEF CopyTop, KeptAlive, Disconnected, Typed, Printed, Silent, StateTypes
  <2>4. StateTypes'
    BY <1>0, <2>1, <2>3 DEF Goto, StateTypes
  <2> QED
    BY <2>1, <2>2, <2>4, GoingOnKeepsTmInv DEF Goto
<1> QED
  BY <1>1, <1>2, <1>3, <1>4, <1>5 DEF SessionStep

\* The clock and the people disturb nothing that is counted.
LEMMA NextTmInv == TmInv /\ [TmNext]_tmVars => TmInv'
<1> SUFFICES ASSUME TmInv, [TmNext]_tmVars PROVE TmInv'
  OBVIOUS
<1>1. ASSUME NEW s \in Sessions, IdleLong(s) \/ Abandon(s) PROVE TmInv'
  <2>1. UNCHANGED <<slots, gate, stage>> /\ StateTypes'
    BY <1>1 DEF IdleLong, Abandon, TmInv, StateTypes
  <2>2. Running' = Running /\ \A g \in GateStates : Asking(g)' = Asking(g)
    BY <2>1 DEF Running, Asking
  <2> QED
    BY <2>1, <2>2 DEF TmInv, SlotsAccounted, WithinLimit, GateStates
<1>2. CASE UNCHANGED tmVars
  <2>1. Running' = Running /\ \A g \in GateStates : Asking(g)' = Asking(g)
    BY <1>2 DEF Running, Asking, tmVars, sessionVars
  <2> QED
    BY <1>2, <2>1
    DEF TmInv, StateTypes, SlotsAccounted, WithinLimit, GateStates, tmVars, sessionVars
<1> QED
  BY <1>1, <1>2, GateKeepsTmInv, SessionKeepsTmInv DEF TmNext

\* There are never more terminals than MAX_TERMINAL_SESSIONS, and the counter
\* is exactly the slots that are held: none is lost, none given back twice.
THEOREM TerminalSlotsAccounted == TmSpec => []SlotsAccounted
<1>1. TmInv => SlotsAccounted
  BY DEF TmInv
<1> QED
  BY <1>1, InitTmInv, NextTmInv, PTL DEF TmSpec

\* The variables keep their types; the counter's overshoot above the limit is at
\* most one for each dispatching thread.
THEOREM TerminalTypeCorrect == TmSpec => []TmTypeOK
<1>1. TmInv => TmTypeOK
  <2> SUFFICES ASSUME TmInv PROVE TmTypeOK
    OBVIOUS
  <2>1. slots \in 0..(MaxTerminals + Cardinality(Dispatchers))
    BY Countable, FS_CardinalityType, TerminalAssumption
    DEF TmInv, StateTypes, SlotsAccounted, WithinLimit, GateStates
  <2> QED
    BY <2>1 DEF TmInv, StateTypes, TmTypeOK, GateStates
<1> QED
  BY <1>1, InitTmInv, NextTmInv, PTL DEF TmSpec

-----------------------------------------------------------------------------
\* Settings (config.rs).

\* Where flags begin among the first n arguments.
StartsUpTo(H, n) ==
    \A k \in 1..n : k \in H <=> ~(k > 1 /\ k - 1 \in H /\ TakesNext(args[k - 1]))

\* There is a way to read every command line.
LEMMA ReadableCommandLine ==
    ASSUME NEW n \in Nat
    PROVE  \E H \in SUBSET (1..n) : StartsUpTo(H, n)
<1> DEFINE bad == {m \in Nat : ~\E H \in SUBSET (1..m) : StartsUpTo(H, m)}
<1> SUFFICES ASSUME bad # {} PROVE FALSE
  OBVIOUS
<1>1. PICK m \in bad : \A y \in bad : m <= y
  <2> HIDE DEF bad
  <2>1. bad \subseteq Nat
    BY DEF bad
  <2> QED
    BY <2>1, LeastIn
<1>2. m \in Nat /\ m # 0
  <2>1. {} \in SUBSET (1..0) /\ StartsUpTo({}, 0)
    BY DEF StartsUpTo
  <2> QED
    BY <2>1
<1>3. m - 1 \in Nat /\ m - 1 \notin bad
  BY <1>1, <1>2
<1>4. PICK G \in SUBSET (1..(m - 1)) : StartsUpTo(G, m - 1)
  BY <1>3
<1> DEFINE H == IF m > 1 /\ m - 1 \in G /\ TakesNext(args[m - 1]) THEN G ELSE G \cup {m}
<1>5. H \in SUBSET (1..m) /\ \A k \in 1..(m - 1) : k \in H <=> k \in G
  BY <1>2
<1>6. \A k \in 1..m : k \in 1..(m - 1) \/ k = m
  BY <1>2
<1>7. ASSUME NEW k \in 1..m
      PROVE  k \in H <=> ~(k > 1 /\ k - 1 \in H /\ TakesNext(args[k - 1]))
  <2>1. k > 1 => k - 1 \in 1..(m - 1)
    BY <1>2
  <2>2. k > 1 => (k - 1 \in H <=> k - 1 \in G)
    BY <1>5, <2>1
  <2>3. CASE k \in 1..(m - 1)
    BY <1>4, <1>5, <2>2, <2>3 DEF StartsUpTo
  <2>4. CASE k = m
    <3>1. m \notin G
      BY <1>2
    <3> QED
      BY <2>2, <2>4, <3>1
  <2> QED
    BY <1>6, <2>3, <2>4
<1>8. StartsUpTo(H, m)
  BY <1>7 DEF StartsUpTo
<1> QED
  BY <1>2, <1>5, <1>8

\* Where flags begin, as FlagNames takes it.
FlagStarts == CHOOSE H \in SUBSET DOMAIN args : \A k \in DOMAIN args : k \in H <=> ~(k > 1 /\ k - 1 \in H /\ TakesNext(args[k - 1]))

\* The arguments before the one parse_args has come to that name the option.
FlagsBefore(o) == {k \in FlagStarts : k < position /\ Known(args[k]) /\ args[k].name = o}

\* The option has its default, or what its last flag so far says.
ReadSoFar(o) ==
    \/ FlagsBefore(o) = {} /\ config[o] = Default[o]
    \/ \E k \in FlagsBefore(o) : (\A j \in FlagsBefore(o) : j <= k) /\ config[o] = ValueAt(k)

Line == DOMAIN args = 1..Len(args) /\ Len(args) \in Nat /\ \A k \in 1..Len(args) : args[k] \in ArgsAbout(subject)

ArgsInv ==
    phase = "args" =>
        /\ Line
        /\ position \in 1..(Len(args) + 1)
        /\ position <= Len(args) => position \in FlagStarts
        /\ \A k \in FlagStarts : k < position => args[k].form # "end"
        /\ \A o \in Options : ReadSoFar(o)

\* What the layers say together, from the lowest up.
FromLine(o) == IF supplied[o] # Unset THEN supplied[o] ELSE Default[o]
WithEnv(o) == IF FromEnv(o, env[o]) # Unset THEN FromEnv(o, env[o]) ELSE FromLine(o)
WithJson(o) == IF FromJson(o, json[o]) # Unset THEN FromJson(o, json[o]) ELSE WithEnv(o)

LayersInv ==
    /\ phase = "env" => \A o \in Options : config[o] = FromLine(o)
    /\ phase = "json" => \A o \in Options : config[o] = WithEnv(o)
    /\ phase = "checks" => \A o \in Options : config[o] = WithJson(o)

SettingsInv ==
    /\ subject \in Options
    /\ DOMAIN config = Options
    /\ ArgsInv /\ LayersInv /\ LayersResolve

\* Facts about sets of indices, apart from what the indices stand for.
LEMMA IndicesAreNat ==
    ASSUME NEW n \in Nat, NEW S \in SUBSET (1..n), NEW T \in SUBSET S PROVE T \subseteq Nat
OBVIOUS

LEMMA IndicesBelow ==
    ASSUME NEW n \in Nat, NEW S \in SUBSET (1..n), NEW T \in SUBSET S, NEW p \in 1..n,
           \A j \in T : j < p
    PROVE  \A j \in T \cup {p} : j <= p
OBVIOUS

LEMMA FlagStartsAre ==
    ASSUME Line
    PROVE  FlagStarts \subseteq 1..Len(args) /\ StartsUpTo(FlagStarts, Len(args))
<1>1. DOMAIN args = 1..Len(args) /\ Len(args) \in Nat
  BY DEF Line
<1>2. \E H \in SUBSET (1..Len(args)) : StartsUpTo(H, Len(args))
  BY <1>1, ReadableCommandLine
<1>3. FlagStarts = CHOOSE H \in SUBSET (1..Len(args)) : StartsUpTo(H, Len(args))
  BY <1>1 DEF FlagStarts, StartsUpTo
<1> QED
  BY <1>2, <1>3

\* A value that was given is never taken for none.
LEMMA ValueIsGiven ==
    ASSUME subject \in Options, Line, NEW k \in 1..Len(args), Known(args[k])
    PROVE  ValueAt(k) # Unset
<1> DEFINE next == IF k < Len(args) THEN args[k + 1].value ELSE ""
<1>1. \A a \in ArgsAbout(subject) : a.value \in Raw
  <2> SUFFICES ASSUME NEW a \in ArgsAbout(subject) PROVE a.value \in Raw
    OBVIOUS
  <2>1. \/ a \in {Equals(subject, "2"), Equals(subject, ""), Plain("1"), Plain("")}
        \/ a \in {Long(subject), Long("http_only"), Long("unknown"), Short("unknown"), Short(subject)}
        \/ a \in {EndOfFlags, Help}
    BY DEF ArgsAbout
  <2>a. \A n : Long(n).value = "-x" /\ Short(n).value = "-x"
    BY DEF Long, Short
  <2>b. Plain("1").value = "1" /\ Plain("").value = "" /\ EndOfFlags.value = "-x" /\ Help.value = "-x"
    BY DEF Plain, EndOfFlags, Help
  <2>d. Equals(subject, "2").value = "2" /\ Equals(subject, "").value = ""
    BY DEF Equals
  <2>2. a.value \in {"2", "", "1", "-x"}
    BY <2>1, <2>a, <2>b, <2>d
  <2> QED
    BY <2>2 DEF Raw
<1>2. args[k].value \in Raw
  BY <1>1 DEF Line
<1>3. next \in Raw
  <2>1. k < Len(args) => k + 1 \in 1..Len(args)
    BY DEF Line
  <2>2. "" \in Raw
    BY DEF Raw
  <2> QED
    BY <1>1, <2>1, <2>2 DEF Line
<1>4. \A o \in Options, raw \in Raw : Parsed(o, raw) # Unset
  BY DEF Options, Raw, Parsed, Unset, Bad
<1>5. args[k].name \in Options
  BY DEF Known
<1> HIDE DEF next
<1>6. SettingOf(args[k], next) # Unset
  BY <1>2, <1>3, <1>4, <1>5 DEF SettingOf, Unset, Bad
<1> QED
  BY <1>6 DEF ValueAt, next

LEMMA InitSettings == StInit => SettingsInv
<1> SUFFICES ASSUME StInit PROVE SettingsInv
  OBVIOUS
<1>1. PICK n \in 0..MaxArgs : args \in [1..n -> ArgsAbout(subject)]
  BY DEF StInit, SeqOf
<1>2. args \in Seq(ArgsAbout(subject)) /\ Len(args) = n /\ n \in Nat
  BY <1>1, SettingsAssumption, IsASeq, LenProperties
<1>3. Line
  BY <1>1, <1>2 DEF Line
<1>4. FlagStarts \subseteq 1..Len(args) /\ StartsUpTo(FlagStarts, Len(args))
  BY <1>3, FlagStartsAre
<1>5. position = 1 /\ phase = "args" /\ config = Default /\ subject \in Options
  BY DEF StInit
<1>6. 1 <= Len(args) => 1 \in FlagStarts
  BY <1>2, <1>4 DEF StartsUpTo
<1>7. \A k \in FlagStarts : ~(k < position)
  BY <1>2, <1>4, <1>5
<1>8. \A o \in Options : ReadSoFar(o)
  BY <1>5, <1>7 DEF ReadSoFar, FlagsBefore
<1>9. ArgsInv
  BY <1>2, <1>3, <1>5, <1>6, <1>7, <1>8 DEF ArgsInv
<1>10. LayersInv /\ LayersResolve /\ DOMAIN config = Options
  BY <1>5 DEF LayersInv, LayersResolve, Options, Default
<1> QED
  BY <1>5, <1>9, <1>10 DEF SettingsInv

\* The loop ends with what the command line says as a whole.
LEMMA LineIsRead ==
    ASSUME SettingsInv, ArgsDone, NEW o \in Options
    PROVE  config[o] = IF OnCommandLine(o) # Unset THEN OnCommandLine(o) ELSE Default[o]
<1>1. /\ Line /\ position \in 1..(Len(args) + 1) /\ ReadSoFar(o)
      /\ position <= Len(args) => position \in FlagStarts /\ args[position].form = "end"
      /\ \A k \in FlagStarts : k < position => args[k].form # "end"
  BY DEF SettingsInv, ArgsInv, ArgsDone
<1>2. FlagStarts \subseteq 1..Len(args) /\ Len(args) \in Nat
  BY <1>1, FlagStartsAre DEF Line
<1>3. FlagNames = {k \in FlagStarts : \A j \in FlagStarts : j <= k => args[j].form # "end"}
  BY DEF FlagNames, FlagStarts
<1>4. FlagNames = {k \in FlagStarts : k < position}
  <2>1. ASSUME NEW k \in FlagStarts, k < position, NEW j \in FlagStarts, j <= k
        PROVE  args[j].form # "end"
    <3>1. j < position
      BY <1>1, <1>2, <2>1
    <3> QED
      BY <1>1, <3>1
  <2>2. ASSUME NEW k \in FlagStarts, ~(k < position)
        PROVE  \E j \in FlagStarts : j <= k /\ args[j].form = "end"
    <3>1. position <= k /\ position <= Len(args)
      BY <1>1, <1>2, <2>2
    <3> QED
      BY <1>1, <3>1
  <2> QED
    BY <1>3, <2>1, <2>2
<1>5. {k \in FlagNames : Known(args[k]) /\ args[k].name = o} = FlagsBefore(o)
  BY <1>4 DEF FlagsBefore
<1>6. OnCommandLine(o) = IF FlagsBefore(o) = {} THEN Unset ELSE ValueAt(Max(FlagsBefore(o)))
  BY <1>5 DEF OnCommandLine
<1>7. CASE FlagsBefore(o) = {} /\ config[o] = Default[o]
  BY <1>6, <1>7
<1>8. CASE FlagsBefore(o) # {} \/ config[o] # Default[o]
  <2>1. PICK k \in FlagsBefore(o) : (\A j \in FlagsBefore(o) : j <= k) /\ config[o] = ValueAt(k)
    BY <1>1, <1>8 DEF ReadSoFar
  <2>2. FlagsBefore(o) \subseteq FlagStarts /\ Known(args[k])
    BY <2>1 DEF FlagsBefore
  <2>a. FlagsBefore(o) \subseteq Nat /\ k \in 1..Len(args)
    BY <1>2, <2>1, <2>2, IndicesAreNat
  <2>3. Max(FlagsBefore(o)) = k
    BY <2>1, <2>a, MaxIs
  <2>4. ValueAt(k) # Unset
    BY <1>1, <2>2, <2>a, ValueIsGiven DEF SettingsInv
  <2> QED
    BY <1>6, <2>1, <2>3, <2>4
<1> QED
  BY <1>7, <1>8

\* One argument, with its value if it takes one, is read.
LEMMA ArgKeepsInv == ASSUME SettingsInv, ArgTaken PROVE SettingsInv'
<1> DEFINE step == IF TakesNext(args[position]) THEN 2 ELSE 1
<1>1. /\ Line /\ position \in 1..(Len(args) + 1) /\ position <= Len(args)
      /\ position \in FlagStarts /\ args[position].form # "end"
      /\ \A k \in FlagStarts : k < position => args[k].form # "end"
      /\ ~Missing(position) /\ position' = position + step
      /\ phase' = "args" /\ UNCHANGED <<subject, args>>
  BY DEF SettingsInv, ArgsInv, ArgTaken
<1>2. FlagStarts \subseteq 1..Len(args) /\ Len(args) \in Nat /\ StartsUpTo(FlagStarts, Len(args))
  BY <1>1, FlagStartsAre DEF Line
<1>3. FlagStarts' = FlagStarts /\ Line'
  BY <1>1 DEF FlagStarts, Line, TakesNext
<1>4. TakesNext(args[position]) => position + 1 <= Len(args) /\ position + 1 \notin FlagStarts
  <2> SUFFICES ASSUME TakesNext(args[position])
               PROVE  position + 1 <= Len(args) /\ position + 1 \notin FlagStarts
    OBVIOUS
  <2>1. position < Len(args)
    BY <1>1, <1>2 DEF Missing
  <2>2. position + 1 \in 1..Len(args) /\ position + 1 > 1 /\ (position + 1) - 1 = position
    BY <1>1, <1>2, <2>1
  <2> QED
    BY <1>1, <1>2, <2>2 DEF StartsUpTo
<1>5. position' \in 1..(Len(args) + 1)
  BY <1>1, <1>2, <1>4
<1>6. position' <= Len(args) => position' \in FlagStarts
  <2> SUFFICES ASSUME position' <= Len(args) PROVE position' \in FlagStarts
    OBVIOUS
  <2>1. position' \in 1..Len(args) /\ position' > 1
    BY <1>1, <1>2, <1>5
  <2>2. CASE TakesNext(args[position])
    <3>1. position' - 1 = position + 1
      BY <1>1, <2>2
    <3> QED
      BY <1>2, <1>4, <2>1, <2>2, <3>1 DEF StartsUpTo
  <2>3. CASE ~TakesNext(args[position])
    <3>1. position' - 1 = position
      BY <1>1, <2>3
    <3> QED
      BY <1>2, <2>1, <2>3, <3>1 DEF StartsUpTo
  <2> QED
    BY <2>2, <2>3
<1>7. \A k \in FlagStarts : k < position' <=> k < position \/ k = position
  <2> SUFFICES ASSUME NEW k \in FlagStarts PROVE k < position' <=> k < position \/ k = position
    OBVIOUS
  <2>1. k \in Nat /\ (TakesNext(args[position]) => k # position + 1)
    BY <1>2, <1>4
  <2> QED
    BY <1>1, <2>1
<1>8. \A k \in FlagStarts' : k < position' => args'[k].form # "end"
  BY <1>1, <1>3, <1>7
<1>9. \A k : ValueAt(k)' = ValueAt(k) /\ (Known(args[k]))' = Known(args[k])
  BY <1>1 DEF ValueAt, Known
<1>10. DOMAIN config' = Options
  BY DEF ArgTaken, SettingsInv
<1>11. ASSUME NEW o \in Options PROVE ReadSoFar(o)'
  <2>0. ReadSoFar(o) /\ DOMAIN config = Options
    BY <1>1 DEF SettingsInv, ArgsInv, ArgTaken
  <2>1. CASE Known(args[position]) /\ args[position].name = o
    <3>1. FlagsBefore(o)' = FlagsBefore(o) \cup {position}
      BY <1>1, <1>3, <1>7, <2>1 DEF FlagsBefore, Known
    <3>2. config'[o] = ValueAt(position)
      BY <2>0, <2>1 DEF ArgTaken
    <3>a. \A j \in FlagsBefore(o) : j \in FlagStarts /\ j < position
      BY DEF FlagsBefore
    <3>b. FlagsBefore(o) \subseteq FlagStarts /\ position \in 1..Len(args)
      BY <1>1, <1>2, <3>a
    <3>3. \A j \in FlagsBefore(o)' : j <= position
      BY <1>2, <3>1, <3>a, <3>b, IndicesBelow
    <3> QED
      BY <1>9, <3>1, <3>2, <3>3 DEF ReadSoFar
  <2>2. CASE ~(Known(args[position]) /\ args[position].name = o)
    <3>1. FlagsBefore(o)' = FlagsBefore(o)
      BY <1>1, <1>3, <1>7, <2>2 DEF FlagsBefore, Known
    <3>2. config'[o] = config[o]
      BY <2>0, <2>2 DEF ArgTaken
    <3> QED
      BY <1>9, <2>0, <3>1, <3>2 DEF ReadSoFar
  <2> QED
    BY <2>1, <2>2
<1>12. ArgsInv'
  BY <1>1, <1>3, <1>5, <1>6, <1>8, <1>11 DEF ArgsInv
<1> QED
  BY <1>1, <1>10, <1>12 DEF SettingsInv, LayersInv, LayersResolve

LEMMA NextSettings == SettingsInv /\ [StNext]_stVars => SettingsInv'
<1> SUFFICES ASSUME SettingsInv, [StNext]_stVars PROVE SettingsInv'
  OBVIOUS
<1>1. CASE UNCHANGED stVars
  <2>1. UNCHANGED <<subject, phase, args, position, config, env, json, supplied>>
    BY <1>1 DEF stVars
  <2>2. FlagStarts' = FlagStarts /\ Line' = Line
    BY <2>1 DEF FlagStarts, Line, TakesNext
  <2>3. \A o : FlagsBefore(o)' = FlagsBefore(o)
    BY <2>1, <2>2 DEF FlagsBefore, Known
  <2>4. \A k : ValueAt(k)' = ValueAt(k)
    BY <2>1 DEF ValueAt
  <2>5. \A o : ReadSoFar(o)' = ReadSoFar(o)
    BY <2>1, <2>3, <2>4 DEF ReadSoFar
  <2>6. ArgsInv'
    BY <2>1, <2>2, <2>5 DEF SettingsInv, ArgsInv
  <2>7. LayersInv' /\ LayersResolve'
    BY <2>1 DEF SettingsInv, LayersInv, LayersResolve, FromLine, WithEnv, WithJson
  <2> QED
    BY <2>1, <2>6, <2>7 DEF SettingsInv
<1>2. CASE ArgsDone
  <2>1. \A o \in Options : config[o] = IF OnCommandLine(o) # Unset THEN OnCommandLine(o) ELSE Default[o]
    BY <1>2, LineIsRead
  <2>2. phase' = "env" /\ config' = config /\ subject' = subject
        /\ \A o \in Options : supplied'[o] = OnCommandLine(o)
    BY <1>2 DEF ArgsDone
  <2> QED
    BY <2>1, <2>2 DEF SettingsInv, ArgsInv, LayersInv, LayersResolve, FromLine
<1>3. CASE ArgEnds
  BY <1>3 DEF ArgEnds, Exit, SettingsInv, ArgsInv, LayersInv, LayersResolve
<1>4. CASE ArgTaken
  BY <1>4, ArgKeepsInv
<1>5. CASE LoadEnv
  <2>1. /\ phase = "env" /\ phase' = "json" /\ UNCHANGED <<subject, json, supplied>>
        /\ config' = Over(config, [o \in Options |-> FromEnv(o, env'[o])])
    BY <1>5 DEF LoadEnv
  <2>2. \A o \in Options : config[o] = FromLine(o) /\ FromLine(o)' = FromLine(o)
    BY <2>1 DEF SettingsInv, LayersInv, FromLine
  <2>3. \A o \in Options : config'[o] = WithEnv(o)'
    BY <2>1, <2>2 DEF Over, WithEnv, FromLine
  <2>4. DOMAIN config' = Options
    BY <2>1 DEF Over
  <2> QED
    BY <2>1, <2>3, <2>4 DEF SettingsInv, ArgsInv, LayersInv, LayersResolve
<1>6. CASE LoadJson
  <2>1. CASE Exit
    BY <2>1 DEF Exit, SettingsInv, ArgsInv, LayersInv, LayersResolve
  <2>2. CASE /\ phase = "json" /\ phase' = "checks" /\ UNCHANGED <<subject, env, supplied>>
             /\ config' = Over(config, [o \in Options |-> FromJson(o, json'[o])])
    <3>1. \A o \in Options : config[o] = WithEnv(o) /\ WithEnv(o)' = WithEnv(o)
      BY <2>2 DEF SettingsInv, LayersInv, WithEnv, FromLine
    <3>2. \A o \in Options : config'[o] = WithJson(o)'
      BY <2>2, <3>1 DEF Over, WithJson
    <3>3. DOMAIN config' = Options
      BY <2>2 DEF Over
    <3> QED
      BY <2>2, <3>2, <3>3 DEF SettingsInv, ArgsInv, LayersInv, LayersResolve
  <2> QED
    BY <1>6, <2>1, <2>2 DEF LoadJson
<1>7. CASE Check
  <2>1. CASE Exit
    BY <2>1 DEF Exit, SettingsInv, ArgsInv, LayersInv, LayersResolve
  <2>2. CASE /\ phase = "checks" /\ phase' = "run" /\ config["protocol_version"] = "2"
             /\ config' = IF config["endpoint"] = "http"
                          THEN [config EXCEPT !["http_only"] = "on"] ELSE config
             /\ UNCHANGED <<subject, env, json, supplied>>
    <3>1. \A o \in Options : config[o] = WithJson(o) /\ WithJson(o)' = WithJson(o)
      BY <2>2 DEF SettingsInv, LayersInv, WithJson, WithEnv, FromLine
    <3>2. DOMAIN config = Options /\ DOMAIN config' = Options
      BY <2>2 DEF SettingsInv
    <3>3. {"endpoint", "http_only", "protocol_version"} \subseteq Options
      BY DEF Options
    <3>4. \A o \in Options \ {"http_only"} : config'[o] = WithJson(o)
      BY <2>2, <3>1, <3>2
    <3>5. config'["http_only"] = IF WithJson("endpoint") = "http" THEN "on" ELSE WithJson("http_only")
      BY <2>2, <3>1, <3>2, <3>3
    <3>6. config'["protocol_version"] = "2"
      BY <2>2, <3>2, <3>3
    <3>7. LayersResolve'
      BY <2>2, <3>1, <3>3, <3>4, <3>5, <3>6 DEF LayersResolve, WithJson, WithEnv, FromLine
    <3> QED
      BY <2>2, <3>2, <3>7 DEF SettingsInv, ArgsInv, LayersInv
  <2> QED
    BY <1>7, <2>1, <2>2 DEF Check
<1> QED
  BY <1>1, <1>2, <1>3, <1>4, <1>5, <1>6, <1>7 DEF StNext

\* However long the command line and whatever the three sources say, an agent
\* that runs has for every option what the highest layer says legibly (main,
\* parse_args, load_env, load_json_config).
THEOREM LayersAlwaysResolve == StSpec => []LayersResolve
<1>1. SettingsInv => LayersResolve
  BY DEF SettingsInv
<1> QED
  BY InitSettings, NextSettings, <1>1, PTL DEF StSpec

-----------------------------------------------------------------------------
\* Traffic (monitor/netstatic.rs).

(***************************************************************************)
(* The calendar.                                                           *)
(***************************************************************************)

LEMMA Calendar ==
    ASSUME TrafficAssumption, day \in 0..LastDay
    PROVE  /\ Month \in Nat /\ DayOfMonth \in Nat /\ Cycle \in Int
           /\ DayOfMonth < rotate => Cycle = Month - 1
           /\ ~(DayOfMonth < rotate) => Cycle = Month
<1>1. day \in Nat /\ DaysPerMonth \in Nat \ {0}
  BY DEF TrafficAssumption
<1>2. Month \in Nat /\ DayOfMonth \in Nat
  BY <1>1, Quotient, Division DEF Month, DayOfMonth
<1> QED
  BY <1>2 DEF Cycle

\* On the next day the month is the same or the next one.
LEMMA DayAfter ==
    ASSUME NEW d \in Nat, NEW m \in Nat \ {0}
    PROVE  \/ (d + 1) \div m = d \div m /\ (d + 1) % m = (d % m) + 1
           \/ (d + 1) \div m > d \div m
<1> DEFINE q == d \div m
           r == d % m
           p == (d + 1) \div m
           s == (d + 1) % m
<1>1. /\ q \in Int /\ r \in 0..(m - 1) /\ d = m * q + r
      /\ p \in Int /\ s \in 0..(m - 1) /\ d + 1 = m * p + s
  BY Division
<1> HIDE DEF q, r, p, s
<1>2. m * p \in Int /\ m * q \in Int
  BY <1>1
<1>3. CASE p = q
  BY <1>1, <1>2, <1>3 DEF p, q, r, s
<1>4. CASE p < q
  <2>1. q - p - 1 \in Nat
    BY <1>1, <1>4
  <2>2. m * (q - p - 1) \in Nat
    BY <2>1
  <2>3. m * (q - p - 1) = m * q - m * p - m
    BY <1>1
  <2> QED
    BY <1>1, <1>2, <2>2, <2>3
<1>5. CASE p > q
  BY <1>5 DEF p, q
<1> QED
  BY <1>1, <1>3, <1>4, <1>5

LEMMA TimePasses ==
    ASSUME TrafficAssumption, day \in 0..LastDay, day' = day + 1, rotate' = rotate, rotate \in Int
    PROVE  Month <= Month' /\ Cycle <= Cycle'
<1>1. day \in Nat /\ DaysPerMonth \in Nat \ {0}
  BY DEF TrafficAssumption
<1>2. /\ Month \in Nat /\ Month' \in Nat /\ DayOfMonth \in Nat /\ DayOfMonth' \in Nat
      /\ Month' = (day + 1) \div DaysPerMonth /\ DayOfMonth' = ((day + 1) % DaysPerMonth) + 1
  BY <1>1, Quotient, Division DEF Month, DayOfMonth
<1>3. \/ Month' = Month /\ DayOfMonth' = DayOfMonth + 1
      \/ Month' > Month
  <2>1. (day % DaysPerMonth) \in Nat
    BY <1>1, Division
  <2> QED
    BY <1>1, <1>2, <2>1, DayAfter DEF Month, DayOfMonth
<1>4. Cycle = IF DayOfMonth < rotate THEN Month - 1 ELSE Month
  BY DEF Cycle
<1>5. Cycle' = IF DayOfMonth' < rotate THEN Month' - 1 ELSE Month'
  BY DEF Cycle
<1> HIDE DEF Month, DayOfMonth, Cycle
<1> QED
  BY <1>2, <1>3, <1>4, <1>5

(***************************************************************************)
(* The invariant.                                                          *)
(***************************************************************************)

Counts(f, D) == f \in [D -> Nat]
Bills == [cycle : Int, late : BOOLEAN, bytes : Nat]

TrafficTypes ==
    /\ rotate \in RotateDays /\ day \in 0..LastDay
    /\ running \in {"down", "idle", "saving"}
    /\ ready \in BOOLEAN /\ fell \in BOOLEAN
    /\ prevTotal \in Nat /\ bill \in Bills /\ billOnDisk \in Bills
    /\ early \in Int /\ setBack \in BOOLEAN
    /\ Counts(fresh, Nics)
    /\ DOMAIN counter \subseteq Nics /\ Counts(counter, DOMAIN counter)
    /\ DOMAIN prevNics \subseteq Nics /\ Counts(prevNics, DOMAIN prevNics)

FilesTyped ==
    /\ netstatic \in FileContent \cup {Off}
    /\ rotate # 0 /\ running # "down" => netstatic \in FileContent
    /\ disk \in FileContent \cup {NoFile}
    /\ running = "saving" => rotate # 0

\* What an interface counted since its last sample has passed since the last tick.
SamplesBehind ==
    \A n \in DOMAIN counter \cap DOMAIN prevNics : counter[n] <= prevNics[n] + fresh[n]

\* So does the sum of all of them, exactly, from the first tick on.
TotalsBehind ==
    ready /\ ~fell /\ running # "down" =>
        /\ SumFunction(counter) = prevTotal + SumFunction(fresh)
        /\ \A n \in Nics \ DOMAIN counter : fresh[n] = 0

\* A total ns holds the bytes of the bill b, if b is one that it can hold.
Exact(ns, b) ==
    ~fell /\ ~setBack /\ ~b.late /\ b.cycle # early => ns.bytes = b.bytes % Width

DiskExact == disk # NoFile => Exact(disk, billOnDisk)

\* The month m of a total beside the cycle of its bill: the same, unless the
\* bill is the first of a file created early, or was late to begin.
Dated(m, b) ==
    /\ m <= Month /\ b.cycle <= Cycle
    /\ b.late => m <= b.cycle
    /\ ~b.late => m = b.cycle \/ (m = b.cycle + 1 /\ early = b.cycle + 1)

MonthsMatch ==
    rotate # 0 /\ ~setBack =>
        /\ running # "down" => Dated(netstatic.month, bill)
        /\ disk # NoFile => Dated(disk.month, billOnDisk)

TrafficInv ==
    /\ TrafficTypes /\ FilesTyped /\ SamplesBehind /\ TotalsBehind
    /\ DiskExact /\ TotalExact /\ MonthsMatch

LEMMA TotalIsExact == TotalExact <=> (rotate # 0 /\ running # "down" => Exact(netstatic, bill))
BY DEF TotalExact, Exact

LEMMA EmptyCounts == NoNics \in [{} -> Nat] /\ DOMAIN NoNics = {}
BY DEF NoNics

LEMMA NoBillTyped == NoBill \in Bills
BY DEF NoBill, NoCycle, Bills

\* More bytes on a bill are all that changes.
LEMMA BillGrows ==
    ASSUME NEW b \in Bills, NEW n \in Nat
    PROVE  LET c == [b EXCEPT !.bytes = @ + n]
           IN  /\ c \in Bills /\ c.bytes = b.bytes + n
               /\ c.cycle = b.cycle /\ c.late = b.late
BY DEF Bills

LEMMA TrafficInvStarts == TfInit => TrafficInv
<1> SUFFICES ASSUME TfInit PROVE TrafficInv
  OBVIOUS
<1> USE TrafficAssumption DEF TfInit
<1>1. TrafficTypes
  <2>1. prevNics \in [{} -> Nat] /\ DOMAIN prevNics = {}
    BY EmptyCounts
  <2>2. Counts(prevNics, DOMAIN prevNics) /\ DOMAIN prevNics \subseteq Nics
    BY <2>1 DEF Counts
  <2>3. Counts(counter, DOMAIN counter) /\ DOMAIN counter \subseteq Nics
    BY DEF Counts
  <2>4. Counts(fresh, Nics)
    BY DEF Counts
  <2>5. rotate \in RotateDays /\ day \in 0..LastDay
    OBVIOUS
  <2>6. running \in {"down", "idle", "saving"} /\ ready \in BOOLEAN /\ fell \in BOOLEAN
    OBVIOUS
  <2>71. bill = NoBill /\ billOnDisk = NoBill /\ early = NoCycle
    OBVIOUS
  <2>72. setBack \in BOOLEAN /\ prevTotal \in Nat
    OBVIOUS
  <2> HIDE DEF TfInit
  <2>7. bill \in Bills /\ billOnDisk \in Bills /\ early \in Int
    BY <2>71, NoBillTyped DEF NoCycle
  <2> QED
    BY <2>2, <2>3, <2>4, <2>5, <2>6, <2>7, <2>72 DEF TrafficTypes
<1>2. FilesTyped
  BY DEF FilesTyped
<1>3. SamplesBehind
  BY EmptyCounts DEF SamplesBehind
<1> QED
  BY <1>1, <1>2, <1>3 DEF TrafficInv, TotalsBehind, DiskExact, TotalExact, MonthsMatch

LEMMA SumsTyped ==
    ASSUME TrafficTypes
    PROVE  SumFunction(counter) \in Nat /\ SumFunction(fresh) \in Nat
BY TrafficAssumption, SumIsNat, FS_Subset DEF TrafficTypes, Counts

\* Steps that leave the agent and its files alone.
LEMMA FilesKeep ==
    ASSUME FilesTyped, DiskExact, TotalExact,
           UNCHANGED <<rotate, netstatic, disk, bill, billOnDisk, early>>,
           fell => fell', setBack => setBack',
           running' = running \/ running' = "down"
    PROVE  FilesTyped' /\ DiskExact' /\ TotalExact'
<1>1. FilesTyped'
  BY DEF FilesTyped, FileContent
<1>2. DiskExact'
  BY DEF DiskExact, Exact
<1>3. TotalExact'
  BY DEF TotalExact
<1> QED
  BY <1>1, <1>2, <1>3

LEMMA MonthsKeep ==
    ASSUME MonthsMatch,
           UNCHANGED <<rotate, day, netstatic, disk, bill, billOnDisk, early, setBack>>,
           running' = running \/ running' = "down"
    PROVE  MonthsMatch'
BY DEF MonthsMatch, Dated, Month, Cycle, DayOfMonth

LEMMA MoveKeeps ==
    ASSUME TrafficInv, NEW n \in Nics, Move(n)
    PROVE  TrafficInv'
<1> USE DEF Move, tfMemory, ghosts, TrafficInv
<1>1. FilesTyped' /\ DiskExact' /\ TotalExact' /\ MonthsMatch'
  BY FilesKeep, MonthsKeep
<1>2. /\ counter' \in [DOMAIN counter -> Nat] /\ DOMAIN counter' = DOMAIN counter
      /\ fresh' \in [Nics -> Nat]
      /\ counter'[n] = counter[n] + 1 /\ fresh'[n] = fresh[n] + 1
      /\ \A m \in DOMAIN counter \ {n} : counter'[m] = counter[m]
      /\ \A m \in Nics \ {n} : fresh'[m] = fresh[m]
  BY DEF TrafficTypes, Counts
<1>3. TrafficTypes'
  BY <1>2 DEF TrafficTypes, Counts
<1>4. SamplesBehind'
  <2> SUFFICES ASSUME NEW m \in DOMAIN counter \cap DOMAIN prevNics
               PROVE  counter'[m] <= prevNics[m] + fresh'[m]
    BY <1>2 DEF SamplesBehind
  <2>1. counter[m] <= prevNics[m] + fresh[m] /\ m \in Nics
    BY DEF SamplesBehind, TrafficTypes
  <2>2. counter[m] \in Nat /\ prevNics[m] \in Nat /\ fresh[m] \in Nat
    BY <2>1 DEF TrafficTypes, Counts
  <2> QED
    BY <1>2, <2>1, <2>2
<1>5. TotalsBehind'
  <2> SUFFICES ASSUME ready, ~fell, running # "down"
               PROVE  /\ SumFunction(counter') = prevTotal + SumFunction(fresh')
                      /\ \A m \in Nics \ DOMAIN counter' : fresh'[m] = 0
    BY DEF TotalsBehind
  <2>1. SumFunction(counter) = prevTotal + SumFunction(fresh) /\ \A m \in Nics \ DOMAIN counter : fresh[m] = 0
    BY DEF TotalsBehind
  <2>2. IsFiniteSet(Nics) /\ IsFiniteSet(DOMAIN counter)
    BY TrafficAssumption, FS_Subset DEF TrafficTypes
  <2>3. counter \in [DOMAIN counter -> Nat] /\ fresh \in [Nics -> Nat] /\ n \in DOMAIN counter
    BY DEF TrafficTypes, Counts
  <2> HIDE DEF Move
  <2>41. AgreeBut(counter', counter, DOMAIN counter, n) /\ AgreeBut(fresh', fresh, Nics, n)
    BY <1>2 DEF AgreeBut
  <2>4. SumFunction(counter') + counter[n] = SumFunction(counter) + counter'[n]
    BY <1>2, <2>2, <2>3, <2>41, SumChanges
  <2>5. SumFunction(fresh') + fresh[n] = SumFunction(fresh) + fresh'[n]
    BY <1>2, <2>2, <2>3, <2>41, SumChanges
  <2>6. /\ SumFunction(counter') \in Nat /\ SumFunction(fresh') \in Nat
        /\ SumFunction(counter) \in Nat /\ SumFunction(fresh) \in Nat
    BY <1>2, <2>2, <2>3, SumIsNat
  <2>7. prevTotal \in Nat /\ counter[n] \in Nat /\ fresh[n] \in Nat
    BY <2>3 DEF TrafficTypes
  <2>8. SumFunction(counter') = prevTotal + SumFunction(fresh')
    BY <1>2, <2>1, <2>4, <2>5, <2>6, <2>7
  <2> QED
    BY <1>2, <2>1, <2>3, <2>8
<1> QED
  BY <1>1, <1>3, <1>4, <1>5

LEMMA UnplugKeeps ==
    ASSUME TrafficInv, NEW n \in Nics, Unplug(n)
    PROVE  TrafficInv'
<1> USE DEF Unplug, tfMemory, TrafficInv
<1>1. FilesTyped' /\ DiskExact' /\ TotalExact' /\ MonthsMatch'
  BY FilesKeep, MonthsKeep
<1>2. /\ DOMAIN counter' = DOMAIN counter \ {n} /\ counter' \in [DOMAIN counter' -> Nat]
      /\ \A m \in DOMAIN counter' : counter'[m] = counter[m]
  BY DEF TrafficTypes, Counts
<1>3. TrafficTypes'
  BY <1>2 DEF TrafficTypes, Counts
<1>4. SamplesBehind'
  BY <1>2 DEF SamplesBehind
<1>5. TotalsBehind'
  BY DEF TotalsBehind
<1> QED
  BY <1>1, <1>3, <1>4, <1>5

LEMMA PlugKeeps ==
    ASSUME TrafficInv, NEW n \in Nics, Plug(n)
    PROVE  TrafficInv'
<1> USE DEF Plug, tfMemory, ghosts, TrafficInv
<1>1. FilesTyped' /\ DiskExact' /\ TotalExact' /\ MonthsMatch'
  BY FilesKeep, MonthsKeep
<1>2. /\ DOMAIN counter' = DOMAIN counter \cup {n} /\ counter' \in [DOMAIN counter' -> Nat]
      /\ counter'[n] = 0 /\ \A m \in DOMAIN counter : counter'[m] = counter[m]
      /\ fresh' \in [Nics -> Nat] /\ fresh'[n] = 0
      /\ \A m \in Nics \ {n} : fresh'[m] = fresh[m]
  BY DEF TrafficTypes, Counts
<1>3. TrafficTypes'
  BY <1>2 DEF TrafficTypes, Counts
<1>4. SamplesBehind'
  <2> SUFFICES ASSUME NEW m \in DOMAIN counter' \cap DOMAIN prevNics
               PROVE  counter'[m] <= prevNics[m] + fresh'[m]
    BY DEF SamplesBehind
  <2>1. m \in Nics /\ prevNics[m] \in Nat /\ fresh'[m] \in Nat
    BY <1>2, <1>3 DEF TrafficTypes, Counts
  <2>2. CASE m = n
    BY <1>2, <2>1, <2>2
  <2>3. CASE m # n
    BY <1>2, <2>1, <2>3 DEF SamplesBehind
  <2> QED
    BY <2>2, <2>3
<1>5. TotalsBehind'
  <2> SUFFICES ASSUME ready, ~fell, running # "down"
               PROVE  /\ SumFunction(counter') = prevTotal + SumFunction(fresh')
                      /\ \A m \in Nics \ DOMAIN counter' : fresh'[m] = 0
    BY DEF TotalsBehind
  <2>1. SumFunction(counter) = prevTotal + SumFunction(fresh) /\ \A m \in Nics \ DOMAIN counter : fresh[m] = 0
    BY DEF TotalsBehind
  <2>2. IsFiniteSet(Nics) /\ IsFiniteSet(DOMAIN counter') /\ n \in Nics /\ n \notin DOMAIN counter
    BY <1>3, TrafficAssumption, FS_Subset DEF TrafficTypes
  <2>3. counter \in [DOMAIN counter' \ {n} -> Nat] /\ fresh \in [Nics -> Nat]
    BY <1>2, <2>2 DEF TrafficTypes, Counts
  <2>4. n \in DOMAIN counter' /\ AgreeBut(counter, counter', DOMAIN counter', n)
    BY <1>2, <2>2 DEF AgreeBut
  <2>5. SumFunction(counter') = counter'[n] + SumFunction(counter)
    <3> DEFINE D == DOMAIN counter'
    <3> HIDE DEF Plug, TrafficInv
    <3>1. /\ IsFiniteSet(D) /\ n \in D /\ counter' \in [D -> Nat]
          /\ counter \in [D \ {n} -> Nat] /\ AgreeBut(counter, counter', D, n)
      BY <1>2, <2>2, <2>3, <2>4
    <3> HIDE DEF D
    <3> QED
      BY <3>1, SumWithout
  <2>6. fresh[n] = 0
    BY <2>1, <2>2
  <2>71. AgreeBut(fresh', fresh, Nics, n)
    BY <1>2 DEF AgreeBut
  <2> HIDE DEF Plug
  <2>7. SumFunction(fresh') + fresh[n] = SumFunction(fresh) + fresh'[n]
    BY <1>2, <2>2, <2>3, <2>71, SumChanges
  <2>8. SumFunction(fresh') \in Nat /\ SumFunction(fresh) \in Nat /\ SumFunction(counter) \in Nat
    <3>1. IsFiniteSet(DOMAIN counter' \ {n})
      BY <2>2, FS_RemoveElement
    <3> QED
      BY <1>2, <2>2, <2>3, <3>1, SumIsNat
  <2>9. SumFunction(counter') = prevTotal + SumFunction(fresh')
    BY <1>2, <2>1, <2>5, <2>6, <2>7, <2>8
  <2> QED
    BY <1>2, <2>1, <2>2, <2>9
<1> QED
  BY <1>1, <1>3, <1>4, <1>5

\* The clock moves, or the agent dies.
LEMMA OutsideKeeps ==
    ASSUME TrafficInv, NextDay \/ ClockBack \/ Kill
    PROVE  TrafficInv'
<1> USE DEF TrafficInv
<1>0. TrafficAssumption
  BY TrafficAssumption
<1>1. /\ UNCHANGED <<rotate, counter, netstatic, prevTotal, ready, prevNics, disk, fresh>>
      /\ UNCHANGED <<bill, billOnDisk, early, fell>>
      /\ running' = running \/ running' = "down"
  BY DEF NextDay, ClockBack, Kill, tfMemory, tfWorld, ghosts
<1>11. setBack => setBack'
  <2>1. CASE ClockBack
    BY <2>1 DEF ClockBack
  <2>2. CASE NextDay \/ Kill
    BY <2>2 DEF NextDay, Kill, ghosts
  <2> QED
    BY <2>1, <2>2
<1>2. FilesTyped' /\ DiskExact' /\ TotalExact'
  BY <1>1, <1>11, FilesKeep
<1>3. day' \in 0..LastDay /\ setBack' \in BOOLEAN
  <2>1. day \in 0..LastDay /\ LastDay \in Nat /\ setBack \in BOOLEAN
    BY <1>0 DEF TrafficTypes, TrafficAssumption
  <2>2. CASE NextDay
    BY <2>1, <2>2 DEF NextDay, ghosts
  <2>3. CASE ClockBack
    BY <2>1, <2>3 DEF ClockBack
  <2>4. CASE Kill
    BY <2>1, <2>4 DEF Kill, tfWorld, ghosts
  <2> QED
    BY <2>2, <2>3, <2>4
<1>4. TrafficTypes'
  BY <1>1, <1>3 DEF TrafficTypes
<1>5. SamplesBehind' /\ TotalsBehind'
  BY <1>1 DEF SamplesBehind, TotalsBehind
<1>6. MonthsMatch'
  <2>1. CASE UNCHANGED <<day, setBack>>
    BY <1>1, <2>1, MonthsKeep
  <2>2. CASE /\ Month <= Month' /\ Cycle <= Cycle'
             /\ setBack' = setBack
    <3>1. Month \in Nat /\ Cycle \in Int /\ Month' \in Nat /\ Cycle' \in Int
      <4>1. Month \in Nat /\ Cycle \in Int
        BY <1>0, Calendar DEF TrafficTypes
      <4>2. Month' \in Nat /\ Cycle' \in Int
        <5>1. day' \in Nat /\ DaysPerMonth \in Nat \ {0}
          BY <1>0, <1>3 DEF TrafficAssumption
        <5>2. Month' \in Nat
          BY <5>1, Quotient DEF Month
        <5> QED
          BY <5>2 DEF Cycle
      <4> QED
        BY <4>1, <4>2
    <3> DEFINE Bound(m, b) == m <= Month /\ b.cycle <= Cycle => m <= Month' /\ b.cycle <= Cycle'
    <3>2. ASSUME NEW m \in Int, NEW b \in Bills PROVE Bound(m, b)
      BY <2>2, <3>1 DEF Bills
    <3>3. ASSUME NEW m \in Int, NEW b \in Bills, Dated(m, b)
          PROVE  /\ m <= Month' /\ b.cycle <= Cycle'
                 /\ b.late => m <= b.cycle
                 /\ ~b.late => m = b.cycle \/ (m = b.cycle + 1 /\ early' = b.cycle + 1)
      BY <1>1, <3>2, <3>3 DEF Dated
    <3>4. running # "down" /\ rotate # 0 => netstatic.month \in Int
      BY DEF FilesTyped, FileContent
    <3>5. disk # NoFile => disk.month \in Int
      BY DEF FilesTyped, FileContent
    <3>6. bill \in Bills /\ billOnDisk \in Bills
      BY DEF TrafficTypes
    <3> SUFFICES ASSUME rotate # 0, ~setBack
                 PROVE  /\ running' # "down" => Dated(netstatic.month, bill)'
                        /\ disk # NoFile => Dated(disk.month, billOnDisk)'
      BY <1>1, <2>2 DEF MonthsMatch
    <3>7. running # "down" => Dated(netstatic.month, bill)
      BY DEF MonthsMatch
    <3>8. disk # NoFile => Dated(disk.month, billOnDisk)
      BY DEF MonthsMatch
    <3>9. ASSUME running' # "down" PROVE Dated(netstatic.month, bill)'
      <4>1. running # "down"
        BY <1>1, <3>9
      <4> QED
        BY <1>1, <3>3, <3>4, <3>6, <3>7, <4>1 DEF Dated
    <3>10. ASSUME disk # NoFile PROVE Dated(disk.month, billOnDisk)'
      BY <1>1, <3>3, <3>5, <3>6, <3>8, <3>10 DEF Dated
    <3> QED
      BY <3>9, <3>10
  <2>3. CASE NextDay
    <3>1. Month <= Month' /\ Cycle <= Cycle'
      <4>1. rotate \in Int /\ day \in 0..LastDay
        BY <1>0 DEF TrafficAssumption, TrafficTypes
      <4> QED
        BY <1>0, <1>1, <2>3, <4>1, TimePasses DEF NextDay
    <3> QED
      BY <2>2, <2>3, <3>1 DEF NextDay, ghosts
  <2>4. CASE ClockBack
    <3>1. setBack' <=> \/ setBack
                       \/ /\ running # "down" \/ disk # NoFile
                          /\ Month' < Month \/ Cycle' < Cycle
      BY <2>4 DEF ClockBack
    <3>2. running' = running
      BY <2>4 DEF ClockBack
    <3>3. CASE setBack'
      BY <3>3 DEF MonthsMatch
    <3>4. CASE running = "down" /\ disk = NoFile
      BY <1>1, <3>2, <3>4 DEF MonthsMatch
    <3>5. CASE ~setBack' /\ ~(running = "down" /\ disk = NoFile)
      <4>1. ~setBack /\ ~(Month' < Month) /\ ~(Cycle' < Cycle)
        BY <3>1, <3>5
      <4>2. Month \in Int /\ Cycle \in Int /\ Month' \in Int /\ Cycle' \in Int
        <5>1. Month \in Nat /\ Cycle \in Int
          BY <1>0, Calendar DEF TrafficTypes
        <5>2. day' \in Nat /\ DaysPerMonth \in Nat \ {0}
          BY <1>0, <1>3 DEF TrafficAssumption
        <5>3. Month' \in Nat
          BY <5>2, Quotient DEF Month
        <5> QED
          BY <5>1, <5>3 DEF Cycle
      <4>3. Month <= Month' /\ Cycle <= Cycle' /\ setBack' = setBack
        <5>1. Month <= Month' /\ Cycle <= Cycle'
          BY <4>1, <4>2
        <5>2. setBack' = setBack
          BY <1>3, <3>5, <4>1 DEF TrafficTypes
        <5> QED
          BY <5>1, <5>2
      <4> QED
        BY <2>2, <4>3
    <3> QED
      BY <3>3, <3>4, <3>5
  <2>5. CASE Kill
    BY <2>1, <2>5 DEF Kill, tfWorld, ghosts
  <2> QED
    BY <2>3, <2>4, <2>5
<1> QED
  BY <1>2, <1>4, <1>5, <1>6

\* The cycle's state after a reset, or the same.
LEMMA ResetOrNot ==
    ASSUME TrafficAssumption, day \in 0..LastDay, NEW ns \in FileContent
    PROVE  /\ MaybeReset(ns) \in FileContent
           /\ MaybeReset(ns) = ns \/ (MaybeReset(ns) # ns /\ MaybeReset(ns).bytes = 0)
<1>1. Month \in Nat
  BY Quotient DEF Month, TrafficAssumption
<1>2. [month |-> Month, bytes |-> 0] \in FileContent
  BY <1>1 DEF FileContent, TrafficAssumption
<1>3. CASE rotate = 0 \/ Month = ns.month \/ DayOfMonth < rotate
  BY <1>3 DEF MaybeReset
<1>4. CASE ~(rotate = 0 \/ Month = ns.month \/ DayOfMonth < rotate)
  BY <1>2, <1>4 DEF MaybeReset
<1> QED
  BY <1>3, <1>4

\* A total and its bill cross a day together: the month still fits the cycle,
\* nothing is reset within a cycle, and a new cycle begins at nothing.
LEMMA RollOver ==
    ASSUME TrafficAssumption, day \in 0..LastDay, rotate \in Int, rotate # 0,
           NEW ns \in FileContent, NEW b \in Bills, NEW c \in Bills, Dated(ns.month, b),
           b.cycle = Cycle => c.cycle = b.cycle /\ c.late = b.late,
           b.cycle # Cycle => c = NewBill
    PROVE  /\ Dated(MaybeReset(ns).month, c)
           /\ b.cycle = Cycle /\ ~b.late => MaybeReset(ns) = ns
           /\ b.cycle # Cycle /\ ~c.late => MaybeReset(ns).bytes = 0 \/ c.cycle = early
<1>1. /\ Month \in Nat /\ DayOfMonth \in Nat /\ Cycle \in Int
      /\ DayOfMonth < rotate => Cycle = Month - 1
      /\ ~(DayOfMonth < rotate) => Cycle = Month
  BY Calendar
<1>2. ns.month \in Nat /\ b.cycle \in Int
  BY DEF FileContent, Bills
<1>3. /\ ns.month <= Month /\ b.cycle <= Cycle
      /\ b.late => ns.month <= b.cycle
      /\ ~b.late => ns.month = b.cycle \/ (ns.month = b.cycle + 1 /\ early = b.cycle + 1)
  BY DEF Dated
<1>4. /\ Month = ns.month \/ DayOfMonth < rotate => MaybeReset(ns) = ns
      /\ ~(Month = ns.month \/ DayOfMonth < rotate) =>
            MaybeReset(ns).month = Month /\ MaybeReset(ns).bytes = 0
  BY DEF MaybeReset
<1>5. NewBill.cycle = Cycle /\ NewBill.late = (DayOfMonth < rotate)
  BY DEF NewBill
<1>6. CASE b.cycle = Cycle
  <2>1. ~b.late => MaybeReset(ns) = ns
    BY <1>1, <1>2, <1>3, <1>4, <1>6
  <2>2. CASE b.late
    <3>1. MaybeReset(ns).month <= Cycle /\ MaybeReset(ns).month <= Month
      BY <1>1, <1>2, <1>3, <1>4, <1>6, <2>2
    <3> QED
      BY <1>1, <1>6, <2>2, <3>1 DEF Dated
  <2>3. CASE ~b.late
    BY <1>1, <1>3, <1>6, <2>1, <2>3 DEF Dated
  <2> QED
    BY <1>6, <2>1, <2>2, <2>3
<1>7. CASE b.cycle # Cycle
  <2>1. b.cycle < Cycle /\ c.cycle = Cycle /\ c.late = (DayOfMonth < rotate)
    BY <1>1, <1>2, <1>3, <1>5, <1>7
  <2>2. CASE DayOfMonth < rotate
    <3>1. MaybeReset(ns) = ns /\ ns.month <= Cycle
      <4>1. CASE b.late
        BY <1>1, <1>2, <1>3, <1>4, <2>1, <2>2, <4>1
      <4>2. CASE ~b.late
        BY <1>1, <1>2, <1>3, <1>4, <2>1, <2>2, <4>2
      <4> QED
        BY <4>1, <4>2
    <3>2. c.late
      BY <2>1, <2>2
    <3> QED
      BY <1>1, <1>3, <1>7, <2>1, <3>1, <3>2 DEF Dated
  <2>3. CASE ~(DayOfMonth < rotate)
    <3>1. ~c.late
      BY <2>1, <2>3
    <3>2. MaybeReset(ns).month = Month
      BY <1>4, <2>3
    <3>3. Dated(MaybeReset(ns).month, c)
      BY <1>1, <2>1, <2>3, <3>1, <3>2 DEF Dated
    <3>4. MaybeReset(ns).bytes = 0 \/ c.cycle = early
      <4>1. CASE Month # ns.month
        BY <1>4, <2>3, <4>1
      <4>2. CASE Month = ns.month
        <5>1. ~b.late
          BY <1>1, <1>2, <1>3, <2>1, <2>3, <4>2
        <5>2. early = b.cycle + 1 /\ ns.month = b.cycle + 1
          BY <1>1, <1>2, <1>3, <2>1, <2>3, <4>2, <5>1
        <5> QED
          BY <1>1, <2>1, <2>3, <4>2, <5>2
      <4> QED
        BY <4>1, <4>2
    <3> QED
      BY <1>7, <3>3, <3>4
  <2> QED
    BY <2>2, <2>3
<1> QED
  BY <1>6, <1>7

\* A bill that begins now.
LEMMA BillsTyped ==
    ASSUME TrafficAssumption, day \in 0..LastDay
    PROVE  NewBill \in Bills /\ NewBill.bytes = 0
BY Calendar DEF NewBill, Bills

LEMMA BeginKeeps ==
    ASSUME TrafficInv, Begin
    PROVE  TrafficInv'
<1> USE DEF TrafficInv
<1>0. TrafficAssumption /\ day \in 0..LastDay /\ rotate \in Int
  BY TrafficAssumption DEF TrafficTypes, TrafficAssumption
<1>1. /\ UNCHANGED <<rotate, day, counter, disk, fresh, billOnDisk, setBack, fell>>
      /\ running' = "idle" /\ prevTotal' = 0 /\ ready' = FALSE /\ prevNics' = NoNics
  BY DEF Begin, tfWorld
<1>2. /\ Month \in Nat /\ DayOfMonth \in Nat /\ Cycle \in Int
      /\ DayOfMonth < rotate => Cycle = Month - 1
      /\ ~(DayOfMonth < rotate) => Cycle = Month
  BY <1>0, Calendar
<1>3. netstatic' = IF rotate = 0 THEN Off ELSE LoadOrCreate
  BY DEF Begin
<1>4. ASSUME disk = NoFile
      PROVE  /\ LoadOrCreate = [month |-> Month, bytes |-> 0] /\ LoadOrCreate \in FileContent
             /\ bill' \in Bills /\ bill'.cycle = Cycle /\ ~bill'.late /\ bill'.bytes = 0
             /\ early' = (IF DayOfMonth < rotate THEN Month ELSE NoCycle)
  <2>1. LoadOrCreate = [month |-> Month, bytes |-> 0]
    BY <1>4 DEF LoadOrCreate
  <2>2. bill' = [cycle |-> Cycle, late |-> FALSE, bytes |-> 0]
    BY <1>4 DEF Begin, NewBill
  <2>3. early' = (IF DayOfMonth < rotate THEN Month ELSE NoCycle)
    BY <1>4 DEF Begin
  <2> QED
    BY <1>0, <1>2, <2>1, <2>2, <2>3 DEF FileContent, Bills, TrafficAssumption
<1>5. ASSUME disk # NoFile
      PROVE  /\ LoadOrCreate = MaybeReset(disk) /\ LoadOrCreate \in FileContent
             /\ disk \in FileContent /\ bill' \in Bills /\ early' = early
             /\ billOnDisk.cycle = Cycle => bill' = billOnDisk
             /\ billOnDisk.cycle # Cycle => bill' = NewBill
  <2>1. disk \in FileContent
    BY <1>5 DEF FilesTyped
  <2>2. LoadOrCreate = MaybeReset(disk)
    BY <1>5 DEF LoadOrCreate
  <2>3. MaybeReset(disk) \in FileContent
    BY <1>0, <2>1, ResetOrNot
  <2>4. /\ early' = early
        /\ billOnDisk.cycle = Cycle => bill' = billOnDisk
        /\ billOnDisk.cycle # Cycle => bill' = NewBill
    BY <1>5 DEF Begin
  <2>5. billOnDisk \in Bills /\ NewBill \in Bills
    BY <1>0, BillsTyped DEF TrafficTypes
  <2> QED
    BY <2>1, <2>2, <2>3, <2>4, <2>5
<1>6. TrafficTypes'
  <2>1. Counts(prevNics', DOMAIN prevNics') /\ DOMAIN prevNics' \subseteq Nics
    BY <1>1, EmptyCounts DEF Counts
  <2>2. prevTotal' \in Nat /\ ready' \in BOOLEAN /\ running' \in {"down", "idle", "saving"}
    BY <1>1
  <2>3. bill' \in Bills /\ early' \in Int
    BY <1>2, <1>4, <1>5 DEF TrafficTypes, NoCycle
  <2> QED
    BY <1>1, <2>1, <2>2, <2>3 DEF TrafficTypes
<1>7. FilesTyped'
  BY <1>1, <1>3, <1>4, <1>5 DEF FilesTyped
<1>8. SamplesBehind' /\ TotalsBehind'
  BY <1>1, EmptyCounts DEF SamplesBehind, TotalsBehind
<1>9. DiskExact'
  BY <1>1, <1>5 DEF DiskExact, Exact
<1>10. ASSUME rotate # 0, ~setBack
       PROVE  \/ Dated(netstatic'.month, bill') /\ early' = early /\ Exact(netstatic', bill')
              \/ /\ disk = NoFile
                 /\ Dated(netstatic.month, bill)' /\ Exact(netstatic, bill)'
  <2>1. netstatic' = LoadOrCreate
    BY <1>3, <1>10
  <2>2. CASE disk = NoFile
    <3>1. Month' = Month /\ Cycle' = Cycle
      BY <1>1 DEF Month, Cycle, DayOfMonth
    <3>2. netstatic'.month = Month /\ netstatic'.bytes = 0
      BY <1>4, <2>1, <2>2
    <3>3. bill'.cycle = Cycle /\ ~bill'.late /\ bill'.bytes = 0
      BY <1>4, <2>2
    <3>4. netstatic'.month = bill'.cycle
            \/ (netstatic'.month = bill'.cycle + 1 /\ early' = bill'.cycle + 1)
      BY <1>2, <1>4, <2>2, <3>2, <3>3
    <3>5. Dated(netstatic.month, bill)'
      BY <1>2, <3>1, <3>2, <3>3, <3>4 DEF Dated
    <3>6. 0 % Width = 0
      BY <1>0, RemainderIs DEF TrafficAssumption
    <3>7. Exact(netstatic, bill)'
      BY <3>2, <3>3, <3>6 DEF Exact
    <3> QED
      BY <2>2, <3>5, <3>7
  <2>3. CASE disk # NoFile
    <3>1. Dated(disk.month, billOnDisk) /\ billOnDisk \in Bills
      BY <1>10, <2>3 DEF MonthsMatch, TrafficTypes
    <3>2. PICK c \in Bills : c = bill'
      BY <1>5, <2>3
    <3>3. /\ billOnDisk.cycle = Cycle => c = billOnDisk
          /\ billOnDisk.cycle # Cycle => c = NewBill
      BY <1>5, <2>3, <3>2
    <3>4. /\ Dated(MaybeReset(disk).month, c)
          /\ billOnDisk.cycle = Cycle /\ ~billOnDisk.late => MaybeReset(disk) = disk
          /\ billOnDisk.cycle # Cycle /\ ~c.late => MaybeReset(disk).bytes = 0 \/ c.cycle = early
      BY <1>0, <1>5, <1>10, <2>3, <3>1, <3>3, RollOver
    <3>5. netstatic' = MaybeReset(disk) /\ early' = early
      BY <1>5, <2>1, <2>3
    <3>6. Exact(MaybeReset(disk), c)
      <4> SUFFICES ASSUME ~fell, ~c.late, c.cycle # early
                   PROVE  MaybeReset(disk).bytes = c.bytes % Width
        BY DEF Exact
      <4>1. CASE billOnDisk.cycle = Cycle
        BY <1>10, <2>3, <3>3, <3>4, <4>1 DEF DiskExact, Exact
      <4>2. CASE billOnDisk.cycle # Cycle
        <5>1. 0 % Width = 0
          BY <1>0, RemainderIs DEF TrafficAssumption
        <5>2. c.bytes = 0
          BY <1>0, <3>3, <4>2, BillsTyped
        <5> QED
          BY <3>4, <4>2, <5>1, <5>2
      <4> QED
        BY <4>1, <4>2
    <3> QED
      BY <3>2, <3>4, <3>5, <3>6
  <2> QED
    BY <2>2, <2>3
<1>11. ASSUME rotate # 0, ~setBack PROVE Dated(netstatic.month, bill)' /\ Exact(netstatic, bill)'
  <2>1. Month' = Month /\ Cycle' = Cycle
    BY <1>1 DEF Month, Cycle, DayOfMonth
  <2> QED
    BY <1>1, <1>10, <1>11, <2>1 DEF Dated, Exact
<1>12. TotalExact'
  BY <1>1, <1>11 DEF TotalExact, Exact
<1>13. MonthsMatch'
  <2> SUFFICES ASSUME rotate # 0, ~setBack, disk # NoFile PROVE Dated(disk.month, billOnDisk)'
    BY <1>1, <1>11 DEF MonthsMatch
  <2>1. Month' = Month /\ Cycle' = Cycle
    BY <1>1 DEF Month, Cycle, DayOfMonth
  <2> QED
    BY <1>1, <1>5, <2>1 DEF MonthsMatch, Dated
<1> QED
  BY <1>6, <1>7, <1>8, <1>9, <1>12, <1>13

LEMMA TickKeeps ==
    ASSUME TrafficInv, NEW opens \in BOOLEAN, Tick(opens)
    PROVE  TrafficInv'
<1> USE DEF TrafficInv
<1>0. TrafficAssumption /\ day \in 0..LastDay /\ rotate \in Int
  BY TrafficAssumption DEF TrafficTypes, TrafficAssumption
<1> DEFINE seen == IF opens THEN counter ELSE NoNics
           delta == DeltaOf(SumFunction(seen))
<1>1. /\ UNCHANGED <<rotate, day, counter, disk, billOnDisk, early, setBack>>
      /\ running = "idle" /\ running' = (IF rotate = 0 THEN "idle" ELSE "saving")
      /\ prevNics' = (IF opens THEN seen ELSE prevNics)
      /\ prevTotal' = SumFunction(seen) /\ ready' = TRUE
      /\ fell' = (fell \/ ~opens)
      /\ fresh' = IF opens THEN [n \in Nics |-> 0] ELSE fresh
      /\ netstatic' = IF rotate = 0 THEN netstatic ELSE MaybeReset(Update(netstatic, delta))
      /\ bill' = IF rotate = 0 THEN bill ELSE Billed(opens)
  BY DEF Tick, tfWorld
<1>2. Counts(seen, DOMAIN seen) /\ DOMAIN seen \subseteq Nics
  BY EmptyCounts DEF TrafficTypes, Counts
<1>3. SumFunction(seen) \in Nat /\ SumFunction(fresh) \in Nat /\ prevTotal \in Nat
  <2>1. IsFiniteSet(DOMAIN seen) /\ seen \in [DOMAIN seen -> Nat]
    BY <1>0, <1>2, FS_Subset DEF TrafficAssumption, Counts
  <2> HIDE DEF seen
  <2>2. SumFunction(seen) \in Nat
    BY <2>1, SumIsNat
  <2> QED
    BY <2>2, SumsTyped DEF TrafficTypes
<1>4. Width \in Nat \ {0} /\ delta \in 0..(Width - 1)
  <2>1. Width \in Nat \ {0}
    BY <1>0 DEF TrafficAssumption
  <2>11. SumFunction(seen) - prevTotal \in Int
    BY <1>3
  <2>2. (SumFunction(seen) - prevTotal) % Width \in 0..(Width - 1)
    <3> HIDE DEF seen
    <3> QED
      BY <2>1, <2>11, Division
  <2> QED
    BY <2>1, <2>2 DEF DeltaOf
<1>5. Counts(fresh', Nics)
  BY <1>1 DEF TrafficTypes, Counts
<1> HIDE DEF seen, delta
<1>60. /\ Billed(opens) \in Bills
       /\ bill.cycle # Cycle => Billed(opens) = NewBill
       /\ bill.cycle = Cycle =>
            /\ Billed(opens).cycle = bill.cycle /\ Billed(opens).late = bill.late
            /\ Billed(opens).bytes = bill.bytes + (IF ready /\ opens THEN SumFunction(fresh) ELSE 0)
  <2>1. CASE bill.cycle # Cycle
    BY <1>0, <2>1, BillsTyped DEF Billed
  <2>2. bill \in Bills
    BY DEF TrafficTypes
  <2>3. CASE bill.cycle = Cycle
    <3>1. CASE ready /\ opens
      <4>1. Billed(opens) = [bill EXCEPT !.bytes = @ + SumFunction(fresh)]
        BY <2>3, <3>1 DEF Billed
      <4> QED
        BY <1>3, <2>2, <2>3, <3>1, <4>1, BillGrows
    <3>2. CASE ~(ready /\ opens)
      <4>1. Billed(opens) = bill
        BY <2>3, <3>2 DEF Billed
      <4> QED
        BY <2>2, <2>3, <3>2, <4>1 DEF Bills
    <3> QED
      BY <3>1, <3>2
  <2> QED
    BY <2>1, <2>3
<1>6. bill' \in Bills
  BY <1>1, <1>60 DEF TrafficTypes
<1>7. TrafficTypes'
  <2>1. Counts(prevNics', DOMAIN prevNics') /\ DOMAIN prevNics' \subseteq Nics
    BY <1>1, <1>2 DEF TrafficTypes
  <2>2. prevTotal' \in Nat /\ ready' \in BOOLEAN /\ running' \in {"down", "idle", "saving"}
    BY <1>1, <1>3
  <2>3. fell' \in BOOLEAN
    BY <1>1
  <2> QED
    BY <1>1, <1>5, <1>6, <2>1, <2>2, <2>3 DEF TrafficTypes
<1> DEFINE ns == Update(netstatic, delta)
<1>8. ASSUME rotate # 0
      PROVE  /\ netstatic \in FileContent /\ ns \in FileContent
             /\ ns.month = netstatic.month /\ ns.bytes = (netstatic.bytes + delta) % Width
  <2>1. netstatic \in FileContent
    BY <1>1, <1>8 DEF FilesTyped
  <2>2. netstatic.bytes \in Nat /\ delta \in Nat
    BY <1>4, <2>1 DEF FileContent
  <2>21. netstatic.bytes + delta \in Int
    BY <2>2
  <2>3. (netstatic.bytes + delta) % Width \in 0..(Width - 1)
    BY <1>4, <2>21, Division
  <2> QED
    BY <2>1, <2>3 DEF Update, FileContent
<1>9. FilesTyped'
  <2>1. CASE rotate = 0
    BY <1>1, <2>1 DEF FilesTyped
  <2>2. CASE rotate # 0
    <3>1. MaybeReset(ns) \in FileContent
      BY <1>0, <1>8, <2>2, ResetOrNot DEF TrafficTypes
    <3> QED
      BY <1>1, <2>2, <3>1 DEF FilesTyped
  <2> QED
    BY <2>1, <2>2
<1>10. SamplesBehind'
  <2>1. CASE opens
    <3> SUFFICES ASSUME NEW n \in DOMAIN counter PROVE counter[n] <= counter[n] + fresh'[n]
      BY <1>1, <2>1 DEF SamplesBehind, seen
    <3>1. counter[n] \in Nat /\ fresh'[n] = 0
      BY <1>1, <2>1 DEF TrafficTypes, Counts
    <3> QED
      BY <3>1
  <2>2. CASE ~opens
    BY <1>1, <2>2 DEF SamplesBehind
  <2> QED
    BY <2>1, <2>2
<1>11. TotalsBehind'
  <2> SUFFICES ASSUME opens
               PROVE  /\ SumFunction(counter) = prevTotal' + SumFunction(fresh')
                      /\ \A n \in Nics \ DOMAIN counter : fresh'[n] = 0
    BY <1>1 DEF TotalsBehind
  <2>1. fresh' \in [Nics -> Nat] /\ \A n \in Nics : fresh'[n] = 0
    BY <1>1
  <2>2. SumFunction(fresh') = 0
    BY <1>0, <2>1, SumOfNothing DEF TrafficAssumption
  <2>3. prevTotal' = SumFunction(counter) /\ SumFunction(counter) \in Nat
    BY <1>1, <1>3 DEF seen
  <2> QED
    BY <2>1, <2>2, <2>3
<1>12. DiskExact'
  BY <1>1 DEF DiskExact, Exact
<1>13. ASSUME rotate # 0, ~setBack
       PROVE  /\ Dated(MaybeReset(ns).month, Billed(opens))
              /\ bill.cycle = Cycle /\ ~bill.late => MaybeReset(ns) = ns
              /\ bill.cycle # Cycle /\ ~Billed(opens).late =>
                    MaybeReset(ns).bytes = 0 \/ Billed(opens).cycle = early
  <2>1. Dated(netstatic.month, bill) /\ bill \in Bills
    BY <1>1, <1>13 DEF MonthsMatch, TrafficTypes
  <2>2. ns \in FileContent /\ Dated(ns.month, bill)
    BY <1>8, <1>13, <2>1
  <2>3. PICK c \in Bills : c = Billed(opens)
    BY <1>60
  <2>4. /\ bill.cycle = Cycle => c.cycle = bill.cycle /\ c.late = bill.late
        /\ bill.cycle # Cycle => c = NewBill
    BY <1>60, <2>3
  <2>5. PICK n \in FileContent : n = ns
    BY <2>2
  <2>6. Dated(n.month, bill)
    BY <2>2, <2>5
  <2> HIDE DEF ns
  <2>7. /\ Dated(MaybeReset(n).month, c)
        /\ bill.cycle = Cycle /\ ~bill.late => MaybeReset(n) = n
        /\ bill.cycle # Cycle /\ ~c.late => MaybeReset(n).bytes = 0 \/ c.cycle = early
    BY <1>0, <1>13, <2>1, <2>4, <2>6, RollOver
  <2> QED
    BY <2>3, <2>5, <2>7
<1>14. Month' = Month /\ Cycle' = Cycle
  BY <1>1 DEF Month, Cycle, DayOfMonth
<1>15. MonthsMatch'
  <2> SUFFICES ASSUME rotate # 0, ~setBack
               PROVE  /\ Dated(netstatic.month, bill)'
                      /\ disk # NoFile => Dated(disk.month, billOnDisk)'
    BY <1>1 DEF MonthsMatch
  <2>1. Dated(netstatic.month, bill)'
    BY <1>1, <1>13, <1>14 DEF Dated
  <2>2. disk # NoFile => Dated(disk.month, billOnDisk)'
    BY <1>1, <1>14 DEF Dated, MonthsMatch
  <2> QED
    BY <2>1, <2>2
<1>16. TotalExact'
  <2> SUFFICES ASSUME rotate # 0, ~fell, opens, ~setBack, ~Billed(opens).late, Billed(opens).cycle # early
               PROVE  netstatic'.bytes = Billed(opens).bytes % Width
    BY <1>1 DEF TotalExact
  <2>1. netstatic' = MaybeReset(ns)
    BY <1>1
  <2>2. CASE bill.cycle # Cycle
    <3>1. 0 % Width = 0
      BY <1>4, RemainderIs
    <3>2. Billed(opens).bytes = 0
      BY <1>0, <1>60, <2>2, BillsTyped
    <3> QED
      BY <1>13, <2>1, <2>2, <3>1, <3>2
  <2>3. CASE bill.cycle = Cycle
    <3> DEFINE old == bill.bytes
    <3>0. ~bill.late /\ bill.cycle # early /\ old \in Nat
      BY <1>60, <2>3 DEF TrafficTypes, Bills
    <3>1. netstatic.bytes = old % Width
      BY <1>1, <3>0 DEF TotalExact
    <3>2. MaybeReset(ns) = ns
      BY <1>13, <2>3, <3>0
    <3> HIDE DEF old
    <3>3. netstatic'.bytes = ((old % Width) + delta) % Width
      BY <1>8, <2>1, <3>1, <3>2
    <3>4. CASE ready
      <4>1. SumFunction(seen) = prevTotal + SumFunction(fresh)
        BY <1>1, <3>4 DEF TotalsBehind, seen
      <4>2. SumFunction(seen) - prevTotal = SumFunction(fresh)
        BY <1>3, <4>1
      <4>3. delta = SumFunction(fresh) % Width
        BY <3>4, <4>2 DEF DeltaOf, delta
      <4>4. ((old % Width) + (SumFunction(fresh) % Width)) % Width = (old + SumFunction(fresh)) % Width
        <5>1. old \in Int /\ SumFunction(fresh) \in Int /\ Width \in Nat \ {0}
          BY <1>3, <1>4, <3>0
        <5> QED
          BY <5>1, WrapOnce
      <4>5. Billed(opens).bytes = old + SumFunction(fresh)
        BY <1>60, <2>3, <3>4 DEF old
      <4> QED
        BY <3>3, <4>3, <4>4, <4>5
    <3>5. CASE ~ready
      <4>1. delta = 0 /\ Billed(opens).bytes = old
        <5>1. delta = 0
          BY <3>5, Zenon DEF DeltaOf, delta
        <5>2. Billed(opens).bytes = bill.bytes + (IF ready /\ opens THEN SumFunction(fresh) ELSE 0)
          BY <1>60, <2>3, Zenon
        <5>3. Billed(opens).bytes = bill.bytes + 0
          BY <3>5, <5>2, Zenon
        <5>4. bill.bytes + 0 = bill.bytes
          BY <3>0 DEF old
        <5> QED
          BY <5>1, <5>3, <5>4, Zenon DEF old
      <4>2. old % Width \in 0..(Width - 1) /\ old % Width \in Nat
        BY <1>4, <3>0, Division
      <4>3. (old % Width) % Width = old % Width
        BY <1>4, <4>2, RemainderIs
      <4>4. (old % Width) + 0 = old % Width
        BY <4>2
      <4> QED
        BY <3>3, <4>1, <4>3, <4>4
    <3> QED
      BY <3>4, <3>5 DEF TrafficTypes
  <2> QED
    BY <2>2, <2>3
<1> QED
  BY <1>7, <1>9, <1>10, <1>11, <1>12, <1>15, <1>16

LEMMA SaveKeeps ==
    ASSUME TrafficInv, NEW succeeds \in BOOLEAN, Save(succeeds)
    PROVE  TrafficInv'
<1> USE DEF TrafficInv
<1>1. /\ UNCHANGED <<rotate, day, counter, netstatic, prevTotal, ready, prevNics, fresh>>
      /\ UNCHANGED <<bill, early, setBack, fell>>
      /\ running = "saving" /\ running' = "idle"
      /\ disk' = (IF succeeds THEN netstatic ELSE disk)
      /\ billOnDisk' = (IF succeeds THEN bill ELSE billOnDisk)
  BY DEF Save, tfWorld, tfMemory
<1>2. rotate # 0 /\ netstatic \in FileContent
  BY <1>1 DEF FilesTyped
<1>3. TrafficTypes'
  <2>1. billOnDisk' \in Bills /\ running' \in {"down", "idle", "saving"}
    BY <1>1 DEF TrafficTypes
  <2> QED
    BY <1>1, <2>1 DEF TrafficTypes
<1>4. FilesTyped'
  BY <1>1, <1>2 DEF FilesTyped
<1>5. SamplesBehind'
  BY <1>1 DEF SamplesBehind
<1>6. TotalsBehind'
  BY <1>1 DEF TotalsBehind
<1>7. TotalExact'
  BY <1>1 DEF TotalExact
<1>8. DiskExact'
  <2>1. Exact(netstatic, bill)
    BY <1>1, <1>2, TotalIsExact
  <2> QED
    BY <1>1, <2>1 DEF DiskExact, Exact
<1>9. MonthsMatch'
  <2>1. Month' = Month /\ Cycle' = Cycle
    BY <1>1 DEF Month, Cycle, DayOfMonth
  <2> QED
    BY <1>1, <2>1 DEF MonthsMatch, Dated
<1> QED
  BY <1>3, <1>4, <1>5, <1>6, <1>7, <1>8, <1>9

LEMMA TrafficInvKept == TrafficInv /\ [TfNext]_tfVars => TrafficInv'
<1> SUFFICES ASSUME TrafficInv, [TfNext]_tfVars PROVE TrafficInv'
  OBVIOUS
<1>1. ASSUME NEW n \in Nics, Move(n) \/ Unplug(n) \/ Plug(n) PROVE TrafficInv'
  BY <1>1, MoveKeeps, UnplugKeeps, PlugKeeps
<1>2. CASE NextDay \/ ClockBack \/ Kill
  BY <1>2, OutsideKeeps
<1>3. CASE Begin
  BY <1>3, BeginKeeps
<1>4. ASSUME NEW opens \in BOOLEAN, Tick(opens) PROVE TrafficInv'
  BY <1>4, TickKeeps
<1>5. ASSUME NEW succeeds \in BOOLEAN, Save(succeeds) PROVE TrafficInv'
  BY <1>5, SaveKeeps
<1>6. CASE UNCHANGED tfVars
  <2>1. /\ UNCHANGED <<rotate, day, counter, running, netstatic, prevTotal, ready>>
        /\ UNCHANGED <<prevNics, disk, fresh, bill, billOnDisk, early, setBack, fell>>
    BY <1>6 DEF tfVars, tfWorld, tfMemory, ghosts
  <2>2. TrafficTypes' /\ FilesTyped' /\ SamplesBehind'
    BY <2>1 DEF TrafficInv, TrafficTypes, FilesTyped, SamplesBehind
  <2>3. TotalsBehind' /\ DiskExact' /\ TotalExact'
    BY <2>1 DEF TrafficInv, TotalsBehind, DiskExact, TotalExact, Exact
  <2>4. MonthsMatch'
    BY <2>1, MonthsKeep DEF TrafficInv
  <2> QED
    BY <2>2, <2>3, <2>4 DEF TrafficInv
<1> QED
  BY <1>1, <1>2, <1>3, <1>4, <1>5, <1>6 DEF TfNext

LEMMA TrafficIsAccounted == TrafficInv => TrafficAccounted
<1> SUFFICES ASSUME TrafficInv PROVE TotalExact /\ RatesReal
  BY DEF TrafficAccounted
<1>1. TotalExact
  BY DEF TrafficInv
<1>2. ASSUME NEW n \in DOMAIN counter PROVE RateOf(counter, n) <= fresh[n]
  <2>1. n \in Nics /\ counter[n] \in Nat /\ fresh[n] \in Nat
    BY DEF TrafficInv, TrafficTypes, Counts
  <2>2. CASE n \in DOMAIN prevNics /\ counter[n] > prevNics[n]
    <3>1. counter[n] <= prevNics[n] + fresh[n] /\ prevNics[n] \in Nat
      BY <2>2 DEF TrafficInv, SamplesBehind, TrafficTypes, Counts
    <3> QED
      BY <2>1, <2>2, <3>1 DEF RateOf
  <2>3. CASE ~(n \in DOMAIN prevNics /\ counter[n] > prevNics[n])
    BY <2>1, <2>3 DEF RateOf
  <2> QED
    BY <2>2, <2>3
<1> QED
  BY <1>1, <1>2 DEF RatesReal

\* What is reported of the traffic went over the wire: the month's total is the
\* saved one plus every byte since, through kills, failed saves, wrapped counters
\* and clocks that jump (NetStatic), and no rate exceeds what passed (safe_delta).
THEOREM TrafficIsAlwaysAccounted == TfSpec => []TrafficAccounted
<1>1. TfInit => TrafficInv
  BY TrafficInvStarts
<1>2. TrafficInv /\ [TfNext]_tfVars => TrafficInv'
  BY TrafficInvKept
<1>3. TrafficInv => TrafficAccounted
  BY TrafficIsAccounted
<1> QED
  BY <1>1, <1>2, <1>3, PTL DEF TfSpec

-----------------------------------------------------------------------------
\* Disks (monitor/disk/linux.rs).

(***************************************************************************)
(* Disks and the lines that show them.                                     *)
(***************************************************************************)
DiskLine == [m : Mounts, measured : BOOLEAN]
Devices == {DeviceOf(m) : m \in Mounts}
Disk == [mount : {m.path : m \in Mounts}, total : Nat, used : Nat]

LEMMA FirstPiece ==
    ASSUME NEW s \in Seq(STRING), s # <<>>
    PROVE  SubSeq(s, 1, 1) = <<s[1]>>
<1>1. Len(s) \in Nat /\ 1 \in 1..Len(s)
  OBVIOUS
<1>2. s[1] \in STRING
  BY <1>1, ElementOfSeq
<1>3. \A i \in 1..1 : s[i] \in STRING
  BY <1>2
<1>4. /\ SubSeq(s, 1, 1) \in Seq(STRING) /\ Len(SubSeq(s, 1, 1)) = 1
      /\ SubSeq(s, 1, 1)[1] = s[1]
  <2>1. 1 \in Int /\ 1 - 1 + 1 = 1 /\ 1 \in 1..1
    OBVIOUS
  <2>2. /\ SubSeq(s, 1, 1) \in Seq(STRING)
        /\ Len(SubSeq(s, 1, 1)) = IF 1 <= 1 THEN 1 - 1 + 1 ELSE 0
        /\ \A i \in 1..(1 - 1 + 1) : SubSeq(s, 1, 1)[i] = s[1 + i - 1]
    BY <1>3, <2>1, SubSeqProperties
  <2> QED
    BY <2>2
<1>5. <<s[1]>> \in Seq(STRING) /\ Len(<<s[1]>>) = 1 /\ <<s[1]>>[1] = s[1]
  BY <1>2
<1>6. \A i \in 1..Len(SubSeq(s, 1, 1)) : SubSeq(s, 1, 1)[i] = <<s[1]>>[i]
  BY <1>4, <1>5
<1> QED
  BY <1>4, <1>5, <1>6, SeqEqual

\* Two lines show one disk exactly if they note the same device.
LEMMA SameIsDevice ==
    ASSUME NEW a \in Mounts, NEW b \in Mounts
    PROVE  SameDisk(a, b) <=> DeviceOf(a) = DeviceOf(b)
<1>1. a.dev \in Seq(STRING) /\ b.dev \in Seq(STRING) /\ a.dev # <<>> /\ b.dev # <<>>
  BY DisksAssumption DEF DisksAssumption
<1>2. Len(a.dev) \in Nat \ {0} /\ Len(b.dev) \in Nat \ {0}
  BY <1>1
<1>3. SubSeq(a.dev, 1, 1) = <<a.dev[1]>> /\ SubSeq(b.dev, 1, 1) = <<b.dev[1]>>
  BY <1>1, FirstPiece
<1>4. <<a.dev[1]>> = <<b.dev[1]>> <=> a.dev[1] = b.dev[1]
  OBVIOUS
<1>5. CASE a.fs = "zfs" /\ b.fs = "zfs"
  <2>1. DeviceOf(a) = [zfs |-> TRUE, key |-> <<a.dev[1]>>] /\ DeviceOf(b) = [zfs |-> TRUE, key |-> <<b.dev[1]>>]
    BY <1>3, <1>5 DEF DeviceOf
  <2>2. DeviceOf(a) = DeviceOf(b) <=> <<a.dev[1]>> = <<b.dev[1]>>
    <3>1. DeviceOf(a).key = <<a.dev[1]>> /\ DeviceOf(b).key = <<b.dev[1]>>
      BY <2>1
    <3>2. DeviceOf(a) = DeviceOf(b) => <<a.dev[1]>> = <<b.dev[1]>>
      BY <3>1
    <3>3. <<a.dev[1]>> = <<b.dev[1]>> => DeviceOf(a) = DeviceOf(b)
      BY <2>1, Zenon
    <3> QED
      BY <3>2, <3>3
  <2>3. SameDisk(a, b) <=> a.dev[1] = b.dev[1]
    BY <1>5 DEF SameDisk
  <2> QED
    BY <1>4, <2>2, <2>3
<1>6. CASE a.fs # "zfs" /\ b.fs # "zfs"
  BY <1>6 DEF SameDisk, DeviceOf
<1>7. CASE (a.fs = "zfs") # (b.fs = "zfs")
  <2>1. DeviceOf(a).zfs # DeviceOf(b).zfs
    BY <1>7 DEF DeviceOf
  <2> QED
    BY <1>7, <2>1 DEF SameDisk
<1> QED
  BY <1>5, <1>6, <1>7

\* The device a line notes, and the size it shows.
Dev(ls, i) == DeviceOf(ls[i].m)
Shown(ls, i) == ls[i].m.total

\* t is the largest size that lines of C show of the disk of line i.
Largest(ls, t, i, C) ==
    /\ \E j \in C : Dev(ls, j) = Dev(ls, i) /\ Shown(ls, j) = t
    /\ \A j \in C : Dev(ls, j) = Dev(ls, i) => Shown(ls, j) <= t

\* First and Kept, of any lines.
FirstIn(ls, C) == {i \in C : \A j \in C : Dev(ls, j) = Dev(ls, i) => i <= j}
KeptOf(F) == {i \in F : Cardinality({j \in F : j <= i}) <= MaxDisks}

Lined == lines \in Seq(DiskLine)

LEMMA LinesAre ==
    ASSUME Lined
    PROVE  /\ Len(lines) \in Nat /\ DOMAIN lines = 1..Len(lines)
           /\ \A i \in 1..Len(lines) : lines[i].m \in Mounts /\ Shown(lines, i) \in Nat
           /\ Counted \subseteq 1..Len(lines)
<1>1. Len(lines) \in Nat /\ DOMAIN lines = 1..Len(lines) /\ \A i \in 1..Len(lines) : lines[i] \in DiskLine
  BY DEF Lined
<1>2. \A i \in 1..Len(lines) : lines[i].m \in Mounts
  BY <1>1 DEF DiskLine
<1>3. \A i \in 1..Len(lines) : Shown(lines, i) \in Nat
  BY <1>2, DisksAssumption DEF DisksAssumption, Shown
<1> QED
  BY <1>1, <1>2, <1>3 DEF Counted

LEMMA FirstIs == ASSUME Lined PROVE First = FirstIn(lines, Counted) /\ Kept = KeptOf(First)
<1>1. \A i, j \in Counted : SameDisk(lines[j].m, lines[i].m) <=> Dev(lines, j) = Dev(lines, i)
  BY LinesAre, SameIsDevice DEF Dev
<1> QED
  BY <1>1 DEF First, FirstIn, Kept, KeptOf

LEMMA SizeIs ==
    ASSUME Lined, NEW i \in Counted, NEW t, Largest(lines, t, i, Counted)
    PROVE  Size(i) = t
<1> DEFINE S == {lines[j].m.total : j \in {j \in Counted : SameDisk(lines[j].m, lines[i].m)}}
<1>1. \A j \in Counted : SameDisk(lines[j].m, lines[i].m) <=> Dev(lines, j) = Dev(lines, i)
  BY LinesAre, SameIsDevice DEF Dev
<1>2. \A j \in Counted : Shown(lines, j) \in Nat /\ Shown(lines, j) = lines[j].m.total
  BY LinesAre DEF Shown
<1>3. S = {Shown(lines, j) : j \in {j \in Counted : Dev(lines, j) = Dev(lines, i)}}
  BY <1>1, <1>2
<1>4. S \subseteq Nat /\ t \in S /\ \A y \in S : y <= t
  BY <1>2, <1>3 DEF Largest
<1>5. Size(i) = Max(S)
  BY DEF Size
<1> HIDE DEF S
<1> QED
  BY <1>4, <1>5, MaxIs

\* Every disk has a first line.
LEMMA FirstLine ==
    ASSUME NEW ls, NEW C \in SUBSET Nat, NEW j \in C
    PROVE  \E i \in FirstIn(ls, C) : Dev(ls, i) = Dev(ls, j)
<1> DEFINE S == {i \in C : Dev(ls, i) = Dev(ls, j)}
<1>1. S \in SUBSET Nat /\ S # {} /\ j \in S
  OBVIOUS
<1> HIDE DEF S
<1>2. PICK i \in S : \A k \in S : i <= k
  BY <1>1, LeastIn
<1>3. i \in C /\ Dev(ls, i) = Dev(ls, j) /\ \A k \in C : Dev(ls, k) = Dev(ls, i) => i <= k
  BY <1>2 DEF S
<1> QED
  BY <1>3 DEF FirstIn

LEMMA Matched ==
    ASSUME NEW L \in Nat, NEW F, NEW g, Matches(g, 1..L, F)
    PROVE  IsFiniteSet(F) /\ Cardinality(F) = L
<1>1. 1 \in Int /\ L \in Int
  OBVIOUS
<1>2. IsFiniteSet(1..L) /\ Cardinality(1..L) = L
  BY <1>1, FS_Interval
<1>3. g \in Bijection(1..L, F)
  BY DEF Matches, Bijection, Injection, IsInjective, Surjection
<1>4. ExistsBijection(1..L, F)
  BY <1>3 DEF ExistsBijection
<1> QED
  BY <1>2, <1>4, FS_Bijection

\* A new line is one of a disk that there is room for, or of none.
LEMMA KeptGrows ==
    ASSUME NEW N \in Nat, NEW F \in SUBSET (1..N)
    PROVE  /\ IsFiniteSet(F) /\ Cardinality(F) \in Nat
           /\ Cardinality(F) < MaxDisks => KeptOf(F \cup {N + 1}) = KeptOf(F) \cup {N + 1}
           /\ Cardinality(F) >= MaxDisks => KeptOf(F \cup {N + 1}) = KeptOf(F)
<1> DEFINE G == F \cup {N + 1}
<1>1. IsFiniteSet(F) /\ Cardinality(F) \in Nat
  <2>1. 1 \in Int /\ N \in Int
    OBVIOUS
  <2>2. IsFiniteSet(1..N)
    BY <2>1, FS_Interval
  <2>3. IsFiniteSet(F)
    BY <2>2, FS_Subset
  <2> QED
    BY <2>3, FS_CardinalityType
<1>2. \A i \in F : i \in 1..N /\ {j \in G : j <= i} = {j \in F : j <= i}
  OBVIOUS
<1>3. {j \in G : j <= N + 1} = F \cup {N + 1} /\ N + 1 \notin F
  <2>1. \A j \in F : j <= N /\ j <= N + 1 /\ j # N + 1
    OBVIOUS
  <2>2. N + 1 <= N + 1
    OBVIOUS
  <2> QED
    BY <2>1, <2>2
<1>4. Cardinality(F \cup {N + 1}) = Cardinality(F) + 1
  BY <1>1, <1>3, FS_AddElement
<1>5. MaxDisks \in Nat
  BY DisksAssumption DEF DisksAssumption
<1>6. \A i \in F : i \in KeptOf(G) <=> i \in KeptOf(F)
  BY <1>2 DEF KeptOf
<1>7. N + 1 \in KeptOf(G) <=> Cardinality(F) < MaxDisks
  <2>1. N + 1 \in KeptOf(G) <=> Cardinality({j \in G : j <= N + 1}) <= MaxDisks
    BY DEF KeptOf
  <2> QED
    BY <1>1, <1>3, <1>4, <1>5, <2>1
<1>8. KeptOf(G) \subseteq G /\ KeptOf(F) \subseteq F
  BY DEF KeptOf
<1>9. Cardinality(F) < MaxDisks => KeptOf(G) = KeptOf(F) \cup {N + 1}
  BY <1>3, <1>6, <1>7, <1>8
<1>10. Cardinality(F) >= MaxDisks => KeptOf(G) = KeptOf(F)
  <2>1. Cardinality(F) >= MaxDisks => N + 1 \notin KeptOf(G)
    BY <1>1, <1>5, <1>7
  <2> QED
    BY <1>3, <1>6, <1>8, <2>1
<1> QED
  BY <1>1, <1>9, <1>10

(***************************************************************************)
(* The invariant: disk k stands for the first line g[k] of its device, with*)
(* the largest size a line showed of it, and a disk is missing only when   *)
(* the vector is full.                                                     *)
(***************************************************************************)
Stands(g, ls, ds, vs, C, K) ==
    /\ Matches(g, 1..Len(ds), K)
    /\ \A k \in 1..Len(ds) : vs[k] = Dev(ls, g[k]) /\ Largest(ls, ds[k].total, g[k], C)

DisksInv ==
    /\ Lined
    /\ disks \in Seq(Disk) /\ devices \in Seq(Devices)
    /\ Len(devices) = Len(disks) /\ Len(disks) <= MaxDisks
    /\ \A k \in 1..Len(disks) : disks[k].used <= disks[k].total
    /\ Kept = First \/ Len(disks) = MaxDisks
    /\ \E g : Stands(g, lines, disks, devices, Counted, Kept)

LEMMA DisksInvSuffices == DisksInv => DisksOnce
<1> SUFFICES ASSUME DisksInv PROVE DisksOnce
  OBVIOUS
<1> DEFINE L == Len(disks)
<1>1. Lined /\ L \in Nat /\ disks \in Seq(Disk) /\ DOMAIN disks = 1..L
      /\ \A k \in 1..L : disks[k] \in Disk /\ disks[k].used <= disks[k].total
  BY DEF DisksInv
<1>2. PICK g : Stands(g, lines, disks, devices, Counted, Kept)
  BY DEF DisksInv
<1>3. Matches(g, 1..L, Kept) /\ \A k \in 1..L : Largest(lines, disks[k].total, g[k], Counted)
  BY <1>2 DEF Stands
<1> HIDE DEF L
<1>4. IsFiniteSet(1..L) /\ Cardinality(1..L) = L
  BY <1>1, FS_Interval
<1>5. Kept \subseteq Counted
  BY DEF Kept, First
<1>6. IsFiniteSet(Kept) /\ Cardinality(Kept) = L
  BY <1>1, <1>3, Matched
<1> DEFINE total == [k \in 1..L |-> disks[k].total]
           used == [k \in 1..L |-> disks[k].used]
           size == [i \in Kept |-> Size(i)]
<1>7. total \in [1..L -> Nat] /\ used \in [1..L -> Nat]
  BY <1>1 DEF Disk
<1>8. \A k \in 1..L : Size(g[k]) = disks[k].total /\ g[k] \in Kept
  BY <1>1, <1>3, <1>5, SizeIs DEF Matches
<1>9. size \in [Kept -> Nat]
  <2>1. \A i \in Kept : \E k \in 1..L : g[k] = i
    BY <1>3 DEF Matches
  <2>2. \A k \in 1..L : disks[k].total \in Nat
    BY <1>1 DEF Disk
  <2>3. \A i \in Kept : Size(i) \in Nat
    BY <1>8, <2>1, <2>2
  <2> QED
    BY <2>3
<1>10. Renames(total, size, g, 1..L)
  BY <1>8 DEF Renames
<1>11. AtMost(used, total, 1..L)
  BY <1>1 DEF AtMost
<1>12. Aggregate("total") = SumFunction(total) /\ Aggregate("used") = SumFunction(used)
  BY <1>1 DEF Aggregate
<1>13. L = Len(disks)
  BY DEF L
<1> HIDE DEF total, used
<1>14. SumFunction(total) = SumFunction(size)
  <2>1. /\ IsFiniteSet(1..L) /\ IsFiniteSet(Kept) /\ Matches(g, 1..L, Kept)
        /\ total \in [1..L -> Nat] /\ size \in [Kept -> Nat] /\ Renames(total, size, g, 1..L)
    BY <1>3, <1>4, <1>6, <1>7, <1>9, <1>10
  <2> DEFINE D == 1..L
  <2> HIDE DEF size, D
  <2>2. /\ IsFiniteSet(D) /\ IsFiniteSet(Kept) /\ Matches(g, D, Kept)
        /\ total \in [D -> Nat] /\ size \in [Kept -> Nat] /\ Renames(total, size, g, D)
    BY <2>1 DEF D
  <2> QED
    BY <2>2, SumRenamed
<1>15. SumFunction(used) <= SumFunction(total)
  BY <1>4, <1>7, <1>11, SumAtMost
<1> QED
  BY <1>6, <1>12, <1>13, <1>14, <1>15 DEF DisksOnce

(***************************************************************************)
(* A line more.                                                            *)
(***************************************************************************)
LEMMA LineMore ==
    ASSUME NEW ls \in Seq(DiskLine), NEW l \in DiskLine
    PROVE  /\ Append(ls, l) \in Seq(DiskLine) /\ Len(Append(ls, l)) = Len(ls) + 1
           /\ \A i \in 1..Len(ls) : Append(ls, l)[i] = ls[i]
           /\ \A i \in 1..Len(ls) : /\ Dev(Append(ls, l), i) = Dev(ls, i)
                                    /\ Shown(Append(ls, l), i) = Shown(ls, i)
           /\ Dev(Append(ls, l), Len(ls) + 1) = DeviceOf(l.m)
           /\ Shown(Append(ls, l), Len(ls) + 1) = l.m.total
<1>1. /\ Append(ls, l) \in Seq(DiskLine) /\ Len(Append(ls, l)) = Len(ls) + 1
      /\ \A i \in 1..Len(ls) : Append(ls, l)[i] = ls[i]
      /\ Append(ls, l)[Len(ls) + 1] = l
  BY AppendProperties
<1> QED
  BY <1>1 DEF Dev, Shown

\* ms has the line n more than ls, whose lines in C count.
OneLineMore(ls, ms, n, C) ==
    /\ n \in Nat \ {0} /\ C \in SUBSET (1..(n - 1))
    /\ \A i \in 1..(n - 1) : Dev(ms, i) = Dev(ls, i) /\ Shown(ms, i) = Shown(ls, i)
    /\ \A i \in 1..n : Shown(ms, i) \in Nat

LEMMA FirstSame ==
    ASSUME NEW ls, NEW ms, NEW n, NEW C, OneLineMore(ls, ms, n, C)
    PROVE  FirstIn(ms, C) = FirstIn(ls, C)
<1>1. \A i \in C : Dev(ms, i) = Dev(ls, i)
  BY DEF OneLineMore
<1> QED
  BY <1>1 DEF FirstIn

LEMMA FirstOr ==
    ASSUME NEW ls, NEW ms, NEW n, NEW C, OneLineMore(ls, ms, n, C)
    PROVE  /\ \A i \in C : i \in FirstIn(ms, C \cup {n}) <=> i \in FirstIn(ls, C)
           /\ n \in FirstIn(ms, C \cup {n}) <=> \A j \in C : Dev(ls, j) # Dev(ms, n)
           /\ FirstIn(ms, C \cup {n}) \subseteq C \cup {n} /\ FirstIn(ls, C) \subseteq C
<1>1. n \in Nat /\ \A i \in C : i \in Nat /\ i < n /\ n # i /\ ~(n <= i) /\ i <= n /\ Dev(ms, i) = Dev(ls, i)
  BY DEF OneLineMore
<1>2. \A i \in C : i \in FirstIn(ms, C \cup {n}) <=> i \in FirstIn(ls, C)
  BY <1>1 DEF FirstIn
<1>3. n \in FirstIn(ms, C \cup {n}) <=> \A j \in C : Dev(ls, j) # Dev(ms, n)
  <2>1. n <= n
    BY <1>1
  <2> QED
    BY <1>1, <2>1 DEF FirstIn
<1> QED
  BY <1>2, <1>3 DEF FirstIn

LEMMA FirstOfKnown ==
    ASSUME NEW ls, NEW ms, NEW n, NEW C, OneLineMore(ls, ms, n, C),
           NEW j \in C, Dev(ls, j) = Dev(ms, n)
    PROVE  FirstIn(ms, C \cup {n}) = FirstIn(ls, C)
<1> DEFINE F == FirstIn(ms, C \cup {n})
           G == FirstIn(ls, C)
<1>1. /\ \A i \in C : i \in F <=> i \in G
      /\ n \in F <=> \A k \in C : Dev(ls, k) # Dev(ms, n)
      /\ F \subseteq C \cup {n} /\ G \subseteq C
  BY FirstOr
<1> HIDE DEF F, G
<1>2. F = G
  BY <1>1
<1> QED
  BY <1>2 DEF F, G

LEMMA FirstOfNew ==
    ASSUME NEW ls, NEW ms, NEW n, NEW C, OneLineMore(ls, ms, n, C),
           \A j \in C : Dev(ls, j) # Dev(ms, n)
    PROVE  FirstIn(ms, C \cup {n}) = FirstIn(ls, C) \cup {n}
<1> DEFINE F == FirstIn(ms, C \cup {n})
           G == FirstIn(ls, C)
<1>1. /\ \A i \in C : i \in F <=> i \in G
      /\ n \in F <=> \A k \in C : Dev(ls, k) # Dev(ms, n)
      /\ F \subseteq C \cup {n} /\ G \subseteq C
  BY FirstOr
<1> HIDE DEF F, G
<1>2. F = G \cup {n}
  BY <1>1
<1> QED
  BY <1>2 DEF F, G

LEMMA LargestGrows ==
    ASSUME NEW ls, NEW ms, NEW n, NEW C, OneLineMore(ls, ms, n, C),
           NEW i \in C, NEW t, Largest(ls, t, i, C)
    PROVE  /\ Largest(ms, t, i, C)
           /\ Dev(ms, n) # Dev(ls, i) => Largest(ms, t, i, C \cup {n})
           /\ Dev(ms, n) = Dev(ls, i) /\ t >= Shown(ms, n) => Largest(ms, t, i, C \cup {n})
           /\ Dev(ms, n) = Dev(ls, i) /\ ~(t >= Shown(ms, n)) => Largest(ms, Shown(ms, n), i, C \cup {n})
<1>1. /\ \A j \in C : Dev(ms, j) = Dev(ls, j) /\ Shown(ms, j) = Shown(ls, j) /\ Shown(ls, j) \in Nat
      /\ Shown(ms, n) \in Nat
  BY DEF OneLineMore
<1>2. t \in Nat
  BY <1>1 DEF Largest
<1>3. \A j \in C : Dev(ls, j) = Dev(ls, i) => Shown(ls, j) <= t
  BY DEF Largest
<1>4. PICK j \in C : Dev(ls, j) = Dev(ls, i) /\ Shown(ls, j) = t
  BY DEF Largest
<1>5. Largest(ms, t, i, C)
  BY <1>1, <1>3, <1>4 DEF Largest
<1>6. Dev(ms, n) # Dev(ls, i) => Largest(ms, t, i, C \cup {n})
  BY <1>1, <1>3, <1>4 DEF Largest
<1>7. ASSUME Dev(ms, n) = Dev(ls, i), t >= Shown(ms, n) PROVE Largest(ms, t, i, C \cup {n})
  BY <1>1, <1>2, <1>3, <1>4, <1>7 DEF Largest
<1>8. ASSUME Dev(ms, n) = Dev(ls, i), ~(t >= Shown(ms, n)) PROVE Largest(ms, Shown(ms, n), i, C \cup {n})
  <2>1. \A k \in C : Dev(ls, k) = Dev(ls, i) => Shown(ls, k) <= Shown(ms, n)
    BY <1>1, <1>2, <1>3, <1>8
  <2>2. Shown(ms, n) <= Shown(ms, n)
    BY <1>1
  <2>3. \E k \in C \cup {n} : Dev(ms, k) = Dev(ms, i) /\ Shown(ms, k) = Shown(ms, n)
    BY <1>1, <1>8
  <2> QED
    BY <1>1, <2>1, <2>2, <2>3 DEF Largest
<1> QED
  BY <1>5, <1>6, <1>7, <1>8

LEMMA NewLargest ==
    ASSUME NEW ls, NEW ms, NEW n, NEW C, OneLineMore(ls, ms, n, C),
           \A j \in C : Dev(ls, j) # Dev(ms, n)
    PROVE  Largest(ms, Shown(ms, n), n, C \cup {n})
<1>1. \A j \in C : Dev(ms, j) = Dev(ls, j)
  BY DEF OneLineMore
<1>2. Shown(ms, n) \in Nat /\ Shown(ms, n) <= Shown(ms, n)
  BY DEF OneLineMore
<1> QED
  BY <1>1, <1>2 DEF Largest

LEMMA InitDisksInv == DkInit => DisksInv
<1> SUFFICES ASSUME DkInit PROVE DisksInv
  OBVIOUS
<1>1. lines = <<>> /\ disks = <<>> /\ devices = <<>>
  BY DEF DkInit
<1>2. Lined /\ disks \in Seq(Disk) /\ devices \in Seq(Devices)
  BY <1>1 DEF Lined
<1>3. Len(devices) = Len(disks) /\ Len(disks) = 0 /\ Len(disks) <= MaxDisks
  BY <1>1, DisksAssumption DEF DisksAssumption
<1>4. Counted = {} /\ First = {} /\ Kept = {}
  <2>1. DOMAIN lines = {}
    BY <1>1
  <2> QED
    BY <2>1 DEF Counted, First, Kept
<1>5. Stands(<<>>, lines, disks, devices, Counted, Kept)
  <2>1. 1..Len(disks) = {}
    BY <1>3
  <2>2. <<>> \in [{} -> {}]
    OBVIOUS
  <2> QED
    BY <1>4, <2>1, <2>2 DEF Stands, Matches
<1> QED
  BY <1>2, <1>3, <1>4, <1>5 DEF DisksInv

\* Selected and Counted, of any filters and lines.
Picks(f, m) == IF f.include # {} THEN MatchesPatterns(m, f.include) ELSE ~MatchesPatterns(m, f.exclude)
CountedIn(ls, f) ==
    {i \in DOMAIN ls : ls[i].measured /\ IsPhysicalMount(ls[i].m) /\ Picks(f, ls[i].m)}

\* A line that shows a disk, as the filters have it.
ShowsDisk(m, measured) == IsPhysicalMount(m) /\ Selected(m) /\ measured
NewLine == Len(lines) + 1

LEMMA LineRead ==
    ASSUME Lined, NEW m \in Mounts, NEW measured \in BOOLEAN, ReadLine(m, measured)
    PROVE  /\ Lined' /\ OneLineMore(lines, lines', NewLine, Counted) /\ NewLine - 1 = Len(lines)
           /\ Dev(lines', NewLine) = DeviceOf(m) /\ Shown(lines', NewLine) = m.total
           /\ ShowsDisk(m, measured) => Counted' = Counted \cup {NewLine}
           /\ ~ShowsDisk(m, measured) => Counted' = Counted
           /\ First' = FirstIn(lines', Counted') /\ Kept' = KeptOf(First')
<1> DEFINE l == [m |-> m, measured |-> measured]
           ms == Append(lines, l)
<1>1. l \in DiskLine /\ l.m = m /\ l.measured = measured /\ lines' = ms /\ filters' = filters
  BY DEF DiskLine, ReadLine
<1>2. Len(lines) \in Nat /\ DOMAIN lines = 1..Len(lines) /\ lines \in Seq(DiskLine)
      /\ Counted \subseteq 1..Len(lines) /\ \A i \in 1..Len(lines) : Shown(lines, i) \in Nat
  BY LinesAre DEF Lined
<1>3. NewLine \in Nat \ {0} /\ NewLine - 1 = Len(lines) /\ 1..NewLine = 1..Len(lines) \cup {NewLine}
  BY <1>2 DEF NewLine
<1> HIDE DEF l
<1>4. /\ ms \in Seq(DiskLine) /\ Len(ms) = NewLine
      /\ \A i \in 1..Len(lines) : /\ ms[i] = lines[i] /\ Dev(ms, i) = Dev(lines, i)
                                  /\ Shown(ms, i) = Shown(lines, i)
      /\ Dev(ms, NewLine) = DeviceOf(m) /\ Shown(ms, NewLine) = m.total
  BY <1>1, <1>2, LineMore DEF NewLine
<1>5. ms[NewLine] = l
  BY <1>1, <1>2, AppendProperties DEF NewLine
<1> HIDE DEF ms
<1>6. Lined'
  BY <1>1, <1>4 DEF Lined
<1>7. m.total \in Nat
  BY DisksAssumption DEF DisksAssumption
<1>8. OneLineMore(lines, lines', NewLine, Counted)
  BY <1>1, <1>2, <1>3, <1>4, <1>7 DEF OneLineMore
<1>9. DOMAIN lines' = 1..NewLine
  BY <1>1, <1>4
<1>10. Counted = CountedIn(lines, filters) /\ Counted' = CountedIn(lines', filters)
  <2>1. Counted' = CountedIn(lines', filters')
    BY DEF Counted, CountedIn, Picks, Selected
  <2>2. Counted = CountedIn(lines, filters)
    BY DEF Counted, CountedIn, Picks, Selected
  <2> QED
    BY <1>1, <2>1, <2>2
<1>12. \A i \in 1..Len(lines) : i \in Counted' <=> i \in Counted
  <2> SUFFICES ASSUME NEW i \in 1..Len(lines) PROVE i \in Counted' <=> i \in Counted
    OBVIOUS
  <2>1. lines'[i] = lines[i] /\ i \in DOMAIN lines' /\ i \in DOMAIN lines
    BY <1>1, <1>2, <1>3, <1>4, <1>9
  <2> QED
    BY <1>10, <2>1 DEF CountedIn
<1>13. NewLine \in Counted' <=> ShowsDisk(m, measured)
  <2>1. lines'[NewLine].m = m /\ lines'[NewLine].measured = measured /\ NewLine \in DOMAIN lines'
    BY <1>1, <1>3, <1>5, <1>9
  <2>2. Picks(filters, m) <=> Selected(m)
    BY DEF Picks, Selected
  <2> DEFINE n == NewLine
  <2>3. n \in CountedIn(lines', filters) <=>
           n \in DOMAIN lines' /\ lines'[n].measured /\ IsPhysicalMount(lines'[n].m) /\ Picks(filters, lines'[n].m)
    BY DEF CountedIn
  <2> QED
    BY <1>10, <2>1, <2>2, <2>3 DEF ShowsDisk
<1>14. Counted' \subseteq 1..Len(lines) \cup {NewLine}
  BY <1>3, <1>9 DEF Counted
<1>15. First' = FirstIn(lines', Counted') /\ Kept' = KeptOf(First')
  <2>1. \A i \in 1..NewLine : lines'[i].m \in Mounts
    <3>1. \A i \in 1..Len(ms) : ms[i] \in DiskLine
      BY <1>4
    <3> QED
      BY <1>1, <1>4, <3>1 DEF DiskLine
  <2>2. Counted' \subseteq 1..NewLine
    BY <1>9 DEF Counted
  <2>3. \A i, j \in Counted' : SameDisk(lines'[j].m, lines'[i].m) <=> Dev(lines', j) = Dev(lines', i)
    BY <2>1, <2>2, SameIsDevice DEF Dev
  <2> QED
    BY <2>3 DEF First, FirstIn, Kept, KeptOf
<1>16. NewLine \notin 1..Len(lines)
  BY <1>2 DEF NewLine
<1> QED
  BY <1>1, <1>2, <1>3, <1>4, <1>6, <1>8, <1>12, <1>13, <1>14, <1>15, <1>16

\* What is left to show after a line: the vectors, and the line each disk stands for.
Holds(ls, ds, vs, C, K) ==
    /\ ds \in Seq(Disk) /\ vs \in Seq(Devices)
    /\ Len(vs) = Len(ds) /\ Len(ds) <= MaxDisks
    /\ \A k \in 1..Len(ds) : ds[k].used <= ds[k].total
    /\ K = FirstIn(ls, C) \/ Len(ds) = MaxDisks
    /\ \E g : Stands(g, ls, ds, vs, C, K)

LEMMA InvHolds == DisksInv => Lined /\ Holds(lines, disks, devices, Counted, Kept) /\ Kept = KeptOf(FirstIn(lines, Counted))
<1> SUFFICES ASSUME DisksInv
             PROVE  Lined /\ Holds(lines, disks, devices, Counted, Kept) /\ Kept = KeptOf(FirstIn(lines, Counted))
  OBVIOUS
<1>1. Lined
  BY DEF DisksInv
<1>2. First = FirstIn(lines, Counted) /\ Kept = KeptOf(First)
  BY <1>1, FirstIs
<1> QED
  BY <1>1, <1>2 DEF DisksInv, Holds

\* A line that shows no disk, or one that there is no room for, leaves the disks as they are.
LEMMA SameDisksHold ==
    ASSUME NEW ls, NEW ms, NEW n, NEW C, OneLineMore(ls, ms, n, C),
           NEW ds, NEW vs, Holds(ls, ds, vs, C, KeptOf(FirstIn(ls, C)))
    PROVE  Holds(ms, ds, vs, C, KeptOf(FirstIn(ms, C)))
<1> DEFINE K == KeptOf(FirstIn(ls, C))
<1>1. FirstIn(ms, C) = FirstIn(ls, C)
  BY FirstSame
<1>2. K \subseteq C
  BY DEF KeptOf, FirstIn
<1> HIDE DEF K
<1>3. Holds(ls, ds, vs, C, K) /\ K = KeptOf(FirstIn(ls, C))
  BY DEF K
<1>4. PICK g : Stands(g, ls, ds, vs, C, K)
  BY <1>3 DEF Holds
<1>5. \A k \in 1..Len(ds) : /\ g[k] \in C /\ vs[k] = Dev(ls, g[k])
                            /\ Largest(ls, ds[k].total, g[k], C)
  BY <1>2, <1>4 DEF Stands, Matches
<1>6. \A k \in 1..Len(ds) : Largest(ms, ds[k].total, g[k], C)
  BY <1>5, LargestGrows
<1>7. \A k \in 1..Len(ds) : vs[k] = Dev(ms, g[k])
  BY <1>5 DEF OneLineMore
<1>8. Stands(g, ms, ds, vs, C, K)
  BY <1>4, <1>6, <1>7 DEF Stands
<1> QED
  BY <1>1, <1>3, <1>8 DEF Holds

\* A line that shows a disk that is there may show it larger.
LEMMA KnownDiskHolds ==
    ASSUME NEW ls, NEW ms, NEW n, NEW C, OneLineMore(ls, ms, n, C),
           NEW ds, NEW vs, Holds(ls, ds, vs, C, KeptOf(FirstIn(ls, C))),
           NEW k \in 1..Len(ds), vs[k] = Dev(ms, n),
           NEW d \in Disk, d.used <= d.total, d.total = Shown(ms, n)
    PROVE  Holds(ms, IF ds[k].total >= d.total THEN ds ELSE [ds EXCEPT ![k] = d], vs,
                 C \cup {n}, KeptOf(FirstIn(ms, C \cup {n})))
<1> DEFINE F == FirstIn(ls, C)
           K == KeptOf(F)
           G == FirstIn(ms, C \cup {n})
           es == IF ds[k].total >= d.total THEN ds ELSE [ds EXCEPT ![k] = d]
<1>1. K \subseteq F /\ F \subseteq C
  BY DEF KeptOf, FirstIn
<1>2. \A i, j \in F : Dev(ls, i) = Dev(ls, j) => i = j
  <2> SUFFICES ASSUME NEW i \in F, NEW j \in F, Dev(ls, i) = Dev(ls, j) PROVE i = j
    OBVIOUS
  <2>1. i \in C /\ j \in C /\ i <= j /\ j <= i
    BY DEF FirstIn
  <2>2. i \in Nat /\ j \in Nat
    BY <2>1 DEF OneLineMore
  <2> QED
    BY <2>1, <2>2
<1>3. Holds(ls, ds, vs, C, K)
  OBVIOUS
<1>4. PICK g : Stands(g, ls, ds, vs, C, K)
  BY <1>3 DEF Holds
<1> HIDE DEF K, F
<1>5. \A j \in 1..Len(ds) : /\ g[j] \in K /\ g[j] \in F /\ g[j] \in C /\ vs[j] = Dev(ls, g[j])
                            /\ Largest(ls, ds[j].total, g[j], C)
  BY <1>1, <1>4 DEF Stands, Matches
<1>6. \A j \in 1..Len(ds) : j # k => Dev(ls, g[j]) # Dev(ms, n)
  <2> SUFFICES ASSUME NEW j \in 1..Len(ds), Dev(ls, g[j]) = Dev(ms, n) PROVE j = k
    OBVIOUS
  <2>1. g[j] = g[k]
    BY <1>2, <1>5
  <2> QED
    BY <1>4, <2>1 DEF Stands, Matches
<1>7. G = F
  <2>1. g[k] \in C /\ Dev(ls, g[k]) = Dev(ms, n)
    BY <1>5
  <2> QED
    BY <2>1, FirstOfKnown DEF F
<1>8. /\ ds \in Seq(Disk) /\ Len(ds) \in Nat /\ Len(ds) <= MaxDisks
      /\ \A j \in 1..Len(ds) : ds[j] \in Disk /\ ds[j].used <= ds[j].total
      /\ vs \in Seq(Devices) /\ Len(vs) = Len(ds)
  BY <1>3 DEF Holds
<1>9. es \in Seq(Disk) /\ Len(es) = Len(ds)
      /\ \A j \in 1..Len(ds) : es[j] = IF j = k /\ ~(ds[k].total >= d.total) THEN d ELSE ds[j]
  <2>1. CASE ds[k].total >= d.total
    BY <1>8, <2>1
  <2>2. CASE ~(ds[k].total >= d.total)
    <3>1. es = [ds EXCEPT ![k] = d]
      BY <2>2
    <3>2. DOMAIN ds = 1..Len(ds)
      BY <1>8
    <3>3. [ds EXCEPT ![k] = d] \in Seq(Disk) /\ Len([ds EXCEPT ![k] = d]) = Len(ds)
          /\ \A j \in 1..Len(ds) : [ds EXCEPT ![k] = d][j] = IF j = k THEN d ELSE ds[j]
      BY <1>8, <3>2, ExceptSeq
    <3> QED
      BY <2>2, <3>1, <3>3
  <2> QED
    BY <2>1, <2>2
<1> HIDE DEF es, G
<1>10. \A j \in 1..Len(es) : Largest(ms, es[j].total, g[j], C \cup {n})
  <2> SUFFICES ASSUME NEW j \in 1..Len(ds) PROVE Largest(ms, es[j].total, g[j], C \cup {n})
    BY <1>9
  <2>1. CASE j # k
    <3>1. Dev(ms, n) # Dev(ls, g[j]) /\ es[j] = ds[j]
      BY <1>6, <1>9, <2>1
    <3> QED
      BY <1>5, <3>1, LargestGrows
  <2>2. CASE j = k /\ ds[k].total >= d.total
    <3>1. Dev(ms, n) = Dev(ls, g[j]) /\ es[j] = ds[j] /\ ds[j].total >= Shown(ms, n)
      BY <1>5, <1>9, <2>2
    <3> QED
      BY <1>5, <3>1, LargestGrows
  <2>3. CASE j = k /\ ~(ds[k].total >= d.total)
    <3>1. Dev(ms, n) = Dev(ls, g[j]) /\ es[j] = d /\ ~(ds[j].total >= Shown(ms, n)) /\ es[j].total = Shown(ms, n)
      BY <1>5, <1>9, <2>3
    <3>2. g[j] \in C /\ Largest(ls, ds[j].total, g[j], C)
      BY <1>5
    <3>3. Largest(ms, Shown(ms, n), g[j], C \cup {n})
      BY <3>1, <3>2, LargestGrows
    <3> QED
      BY <3>1, <3>3
  <2> QED
    BY <2>1, <2>2, <2>3
<1>11. \A j \in 1..Len(es) : vs[j] = Dev(ms, g[j])
  BY <1>5, <1>9 DEF OneLineMore
<1>12. Stands(g, ms, es, vs, C \cup {n}, K)
  BY <1>4, <1>9, <1>10, <1>11 DEF Stands
<1>13. \A j \in 1..Len(es) : es[j].used <= es[j].total
  BY <1>8, <1>9
<1>14. K = F \/ Len(ds) = MaxDisks
  BY <1>3 DEF Holds, F
<1>15. Holds(ms, es, vs, C \cup {n}, K)
  BY <1>7, <1>8, <1>9, <1>12, <1>13, <1>14 DEF Holds, G
<1>16. K = KeptOf(G)
  BY <1>7 DEF K
<1> QED
  BY <1>15, <1>16 DEF es, G

\* A line that shows a disk no line showed is the first line of that disk.
LEMMA NewDiskHolds ==
    ASSUME NEW ls, NEW ms, NEW n, NEW C, OneLineMore(ls, ms, n, C),
           NEW ds, NEW vs, Holds(ls, ds, vs, C, KeptOf(FirstIn(ls, C))),
           Dev(ms, n) \in Devices, \A k \in 1..Len(ds) : vs[k] # Dev(ms, n), Len(ds) < MaxDisks,
           NEW d \in Disk, d.used <= d.total, d.total = Shown(ms, n)
    PROVE  Holds(ms, Append(ds, d), Append(vs, Dev(ms, n)), C \cup {n}, KeptOf(FirstIn(ms, C \cup {n})))
<1> DEFINE F == FirstIn(ls, C)
           G == FirstIn(ms, C \cup {n})
           L == Len(ds)
           es == Append(ds, d)
           ws == Append(vs, Dev(ms, n))
<1>1. Holds(ls, ds, vs, C, KeptOf(F))
  OBVIOUS
<1>2. /\ ds \in Seq(Disk) /\ L \in Nat
      /\ \A k \in 1..L : ds[k].used <= ds[k].total
      /\ vs \in Seq(Devices) /\ Len(vs) = L
  BY <1>1 DEF Holds
<1>3. MaxDisks \in Nat
  BY DisksAssumption DEF DisksAssumption
<1>4. KeptOf(F) = F
  BY <1>1, <1>2, <1>3 DEF Holds
<1>5. PICK g : Stands(g, ls, ds, vs, C, F)
  BY <1>1, <1>4 DEF Holds
<1>6. n \in Nat \ {0} /\ C \in SUBSET (1..(n - 1)) /\ F \subseteq C
  BY DEF OneLineMore, FirstIn
<1>7. Matches(g, 1..L, F)
  BY <1>5 DEF Stands
<1>8. \A k \in 1..L : g[k] \in F /\ g[k] \in C /\ vs[k] = Dev(ls, g[k]) /\ Largest(ls, ds[k].total, g[k], C)
  BY <1>5, <1>6 DEF Stands, Matches
<1>9. \A j \in C : Dev(ls, j) # Dev(ms, n)
  <2> SUFFICES ASSUME NEW j \in C, Dev(ls, j) = Dev(ms, n) PROVE FALSE
    OBVIOUS
  <2>1. C \in SUBSET Nat
    BY <1>6
  <2>2. PICK i \in F : Dev(ls, i) = Dev(ls, j)
    BY <2>1, FirstLine
  <2> HIDE DEF F
  <2>3. PICK k \in 1..L : g[k] = i
    BY <1>7 DEF Matches
  <2> QED
    BY <1>8, <2>2, <2>3
<1>10. G = F \cup {n}
  BY <1>9, FirstOfNew
<1>11. IsFiniteSet(F) /\ Cardinality(F) = L
  <2> HIDE DEF L, F
  <2> QED
    BY <1>2, <1>7, Matched
<1>12. KeptOf(G) = G
  <2> DEFINE N == n - 1
  <2> HIDE DEF F
  <2>1. N \in Nat /\ F \in SUBSET (1..N) /\ N + 1 = n
    BY <1>6
  <2>2. Cardinality(F) < MaxDisks
    BY <1>11
  <2> HIDE DEF N
  <2>3. KeptOf(F \cup {N + 1}) = KeptOf(F) \cup {N + 1}
    BY <2>1, <2>2, KeptGrows
  <2> QED
    BY <1>4, <1>10, <2>1, <2>3
<1> DEFINE h == [k \in 1..(L + 1) |-> IF k = L + 1 THEN n ELSE g[k]]
<1>13. /\ es \in Seq(Disk) /\ Len(es) = L + 1 /\ es[L + 1] = d
       /\ \A k \in 1..L : es[k] = ds[k]
  BY <1>2, AppendProperties
<1>14. /\ ws \in Seq(Devices) /\ Len(ws) = L + 1 /\ ws[L + 1] = Dev(ms, n)
       /\ \A k \in 1..L : ws[k] = vs[k]
  BY <1>2, AppendProperties
<1>15. 1..(L + 1) = 1..L \cup {L + 1} /\ L + 1 \notin 1..L /\ \A k \in 1..L : h[k] = g[k]
  BY <1>2
<1>16. h[L + 1] = n
  BY <1>2
<1>17. n \notin F
  BY <1>6
<1> HIDE DEF h, es, ws, F, G, L
<1>18. Matches(h, 1..(L + 1), G)
  <2>1. \A k \in 1..(L + 1) : (IF k = L + 1 THEN n ELSE g[k]) \in G
    BY <1>8, <1>10, <1>15
  <2>4. h \in [1..(L + 1) -> G]
    BY <2>1 DEF h
  <2>2. \A i, j \in 1..(L + 1) : h[i] = h[j] => i = j
    BY <1>7, <1>8, <1>15, <1>16, <1>17 DEF Matches
  <2>3. \A y \in G : \E k \in 1..(L + 1) : h[k] = y
    BY <1>7, <1>10, <1>15, <1>16 DEF Matches
  <2> QED
    BY <2>2, <2>3, <2>4 DEF Matches
<1>19. \A k \in 1..L : ws[k] = Dev(ms, h[k]) /\ Largest(ms, es[k].total, h[k], C \cup {n})
  <2> SUFFICES ASSUME NEW k \in 1..L
               PROVE  ws[k] = Dev(ms, h[k]) /\ Largest(ms, es[k].total, h[k], C \cup {n})
    OBVIOUS
  <2>1. g[k] \in C /\ vs[k] = Dev(ls, g[k]) /\ Largest(ls, ds[k].total, g[k], C)
    BY <1>8
  <2>2. Dev(ms, n) # Dev(ls, g[k])
    BY <1>9, <2>1
  <2>3. Largest(ms, ds[k].total, g[k], C \cup {n})
    BY <2>1, <2>2, LargestGrows
  <2>4. Dev(ms, g[k]) = Dev(ls, g[k])
    BY <2>1 DEF OneLineMore
  <2> QED
    BY <1>13, <1>14, <1>15, <2>1, <2>3, <2>4
<1>20. Largest(ms, es[L + 1].total, h[L + 1], C \cup {n})
  <2>1. Largest(ms, Shown(ms, n), n, C \cup {n})
    BY <1>9, NewLargest
  <2> QED
    BY <1>13, <1>16, <2>1
<1>21. Stands(h, ms, es, ws, C \cup {n}, G)
  BY <1>13, <1>14, <1>15, <1>16, <1>18, <1>19, <1>20 DEF Stands
<1>22. Len(es) <= MaxDisks
  BY <1>2, <1>3, <1>13 DEF L
<1>23. \A k \in 1..Len(es) : es[k].used <= es[k].total
  BY <1>2, <1>13, <1>15
<1>24. Holds(ms, es, ws, C \cup {n}, G)
  BY <1>13, <1>14, <1>21, <1>22, <1>23 DEF Holds, G
<1> QED
  BY <1>12, <1>24 DEF es, ws, G

\* A disk that comes when the vector is full is not noted.
LEMMA FullDisksHold ==
    ASSUME NEW ls, NEW ms, NEW n, NEW C, OneLineMore(ls, ms, n, C),
           NEW ds, NEW vs, Holds(ls, ds, vs, C, KeptOf(FirstIn(ls, C))),
           \A k \in 1..Len(ds) : vs[k] # Dev(ms, n), Len(ds) = MaxDisks
    PROVE  Holds(ms, ds, vs, C \cup {n}, KeptOf(FirstIn(ms, C \cup {n})))
<1> DEFINE F == FirstIn(ls, C)
           G == FirstIn(ms, C \cup {n})
           K == KeptOf(F)
           L == Len(ds)
<1>1. Holds(ls, ds, vs, C, K)
  OBVIOUS
<1>2. K \subseteq F /\ F \subseteq C
  BY DEF KeptOf, FirstIn
<1>3. n \in Nat \ {0} /\ C \in SUBSET (1..(n - 1))
  BY DEF OneLineMore
<1>4. PICK g : Stands(g, ls, ds, vs, C, K)
  BY <1>1 DEF Holds
<1>5. \A k \in 1..L : vs[k] # Dev(ms, n)
  OBVIOUS
<1>6. KeptOf(G) = K
  <2>1. CASE \E j \in C : Dev(ls, j) = Dev(ms, n)
    <3>1. PICK j \in C : Dev(ls, j) = Dev(ms, n)
      BY <2>1
    <3>2. G = F
      BY <3>1, FirstOfKnown
    <3> QED
      BY <3>2
  <2>2. CASE \A j \in C : Dev(ls, j) # Dev(ms, n)
    <3>1. G = F \cup {n}
      BY <2>2, FirstOfNew
    <3> DEFINE N == n - 1
    <3> HIDE DEF F
    <3>2. N \in Nat /\ F \in SUBSET (1..N) /\ N + 1 = n
      BY <1>2, <1>3
    <3> HIDE DEF N, K
    <3>3. L \in Nat /\ Matches(g, 1..L, K) /\ L = MaxDisks
      BY <1>1, <1>4, DisksAssumption DEF Holds, Stands, DisksAssumption
    <3> HIDE DEF L
    <3>4. IsFiniteSet(F) /\ Cardinality(F) \in Nat
      BY <3>2, KeptGrows
    <3>5. IsFiniteSet(K) /\ Cardinality(K) = L
      BY <3>3, Matched
    <3>6. Cardinality(F) >= MaxDisks
      <4>1. Cardinality(K) <= Cardinality(F)
        BY <1>2, <3>4, FS_Subset
      <4> QED
        BY <3>3, <3>4, <3>5, <4>1
    <3>7. KeptOf(F \cup {N + 1}) = KeptOf(F)
      BY <3>2, <3>6, KeptGrows
    <3> QED
      BY <3>1, <3>2, <3>7 DEF K
  <2> QED
    BY <2>1, <2>2
<1> HIDE DEF K, F, G
<1>7. \A k \in 1..L : /\ g[k] \in C /\ vs[k] = Dev(ls, g[k])
                      /\ Largest(ls, ds[k].total, g[k], C)
  BY <1>2, <1>4 DEF Stands, Matches
<1>8. \A k \in 1..L : Largest(ms, ds[k].total, g[k], C \cup {n})
  <2> SUFFICES ASSUME NEW k \in 1..L PROVE Largest(ms, ds[k].total, g[k], C \cup {n})
    OBVIOUS
  <2>1. g[k] \in C /\ Dev(ms, n) # Dev(ls, g[k]) /\ Largest(ls, ds[k].total, g[k], C)
    BY <1>5, <1>7
  <2> QED
    BY <2>1, LargestGrows
<1>9. \A k \in 1..L : vs[k] = Dev(ms, g[k])
  BY <1>7 DEF OneLineMore
<1>10. Stands(g, ms, ds, vs, C \cup {n}, K)
  BY <1>4, <1>8, <1>9 DEF Stands
<1>11. Holds(ms, ds, vs, C \cup {n}, K)
  BY <1>1, <1>10 DEF Holds
<1> QED
  BY <1>6, <1>11 DEF G

LEMMA ReadKeepsDisksInv ==
    ASSUME DisksInv, NEW m \in Mounts, NEW measured \in BOOLEAN, ReadLine(m, measured)
    PROVE  DisksInv'
<1> DEFINE n == NewLine
           C == Counted
           d == [mount |-> m.path, total |-> m.total, used |-> m.used]
           known == {i \in DOMAIN devices : devices[i] = DeviceOf(m)}
<1>1. /\ Lined /\ Holds(lines, disks, devices, C, KeptOf(FirstIn(lines, C)))
      /\ disks \in Seq(Disk) /\ devices \in Seq(Devices) /\ Len(disks) \in Nat
      /\ Len(devices) = Len(disks) /\ Len(disks) <= MaxDisks
      /\ DOMAIN devices = 1..Len(disks)
  BY InvHolds DEF DisksInv
<1>2. /\ Lined' /\ OneLineMore(lines, lines', n, C)
      /\ Dev(lines', n) = DeviceOf(m) /\ Shown(lines', n) = m.total
      /\ ShowsDisk(m, measured) => Counted' = C \cup {n}
      /\ ~ShowsDisk(m, measured) => Counted' = C
      /\ First' = FirstIn(lines', Counted') /\ Kept' = KeptOf(First')
  BY <1>1, LineRead
<1>3. d \in Disk /\ d.used <= d.total /\ d.total = m.total /\ DeviceOf(m) \in Devices
  BY DisksAssumption DEF DisksAssumption, Disk, Devices
<1>4. MaxDisks \in Nat \ {0}
  BY DisksAssumption DEF DisksAssumption
<1>5. /\ ShowsDisk(m, measured) => Record(m)
      /\ ~ShowsDisk(m, measured) => disks' = disks /\ devices' = devices
  BY DEF ReadLine, ShowsDisk
<1>6. SUFFICES Holds(lines', disks', devices', Counted', KeptOf(FirstIn(lines', Counted')))
  BY <1>2 DEF DisksInv, Holds
<1> HIDE DEF n, C, d
<1>7. CASE ~ShowsDisk(m, measured)
  BY <1>1, <1>2, <1>5, <1>7, SameDisksHold
<1>8. CASE ShowsDisk(m, measured)
  <2>1. Record(m) /\ Counted' = C \cup {n}
    BY <1>2, <1>5, <1>8
  <2>2. ASSUME known # {},
               disks' = IF disks[Min(known)].total >= m.total THEN disks ELSE [disks EXCEPT ![Min(known)] = d],
               devices' = devices
        PROVE  Holds(lines', disks', devices', Counted', KeptOf(FirstIn(lines', Counted')))
    <3> DEFINE k == Min(known)
    <3>1. known \in SUBSET Nat
      BY <1>1
    <3>2. k \in known
      <4> HIDE DEF known
      <4> QED
        BY <2>2, <3>1, MinIn
    <3>3. k \in 1..Len(disks) /\ devices[k] = Dev(lines', n)
      BY <1>1, <1>2, <3>2
    <3>4. disks' = IF disks[k].total >= d.total THEN disks ELSE [disks EXCEPT ![k] = d]
      BY <1>3, <2>2
    <3>5. d \in Disk /\ d.used <= d.total /\ d.total = Shown(lines', n)
      BY <1>2, <1>3
    <3> HIDE DEF k
    <3>6. Holds(lines', IF disks[k].total >= d.total THEN disks ELSE [disks EXCEPT ![k] = d],
                devices, C \cup {n}, KeptOf(FirstIn(lines', C \cup {n})))
      BY <1>1, <1>2, <3>3, <3>5, KnownDiskHolds
    <3> QED
      BY <2>1, <2>2, <3>4, <3>6
  <2>3. ASSUME known = {} PROVE \A k \in 1..Len(disks) : devices[k] # Dev(lines', n)
    BY <1>1, <1>2, <2>3
  <2>4. ASSUME known = {}, Len(disks) < MaxDisks,
               disks' = Append(disks, d), devices' = Append(devices, DeviceOf(m))
        PROVE  Holds(lines', disks', devices', Counted', KeptOf(FirstIn(lines', Counted')))
    <3>1. \A k \in 1..Len(disks) : devices[k] # Dev(lines', n)
      BY <2>3, <2>4
    <3>2. d \in Disk /\ d.used <= d.total /\ d.total = Shown(lines', n) /\ Dev(lines', n) \in Devices
      BY <1>2, <1>3
    <3> HIDE DEF known
    <3>3. Holds(lines', Append(disks, d), Append(devices, Dev(lines', n)),
                C \cup {n}, KeptOf(FirstIn(lines', C \cup {n})))
      BY <1>1, <1>2, <2>4, <3>1, <3>2, NewDiskHolds
    <3> QED
      BY <1>2, <2>1, <2>4, <3>3
  <2>5. ASSUME known = {}, Len(disks) = MaxDisks, disks' = disks, devices' = devices
        PROVE  Holds(lines', disks', devices', Counted', KeptOf(FirstIn(lines', Counted')))
    <3>1. \A k \in 1..Len(disks) : devices[k] # Dev(lines', n)
      BY <2>3, <2>5
    <3> HIDE DEF known
    <3>2. Holds(lines', disks, devices, C \cup {n}, KeptOf(FirstIn(lines', C \cup {n})))
      BY <1>1, <1>2, <2>5, <3>1, FullDisksHold
    <3> QED
      BY <2>1, <2>5, <3>2
  <2>6. \/ /\ known # {} /\ devices' = devices
           /\ disks' = IF disks[Min(known)].total >= m.total THEN disks
                       ELSE [disks EXCEPT ![Min(known)] = d]
        \/ known = {} /\ Len(disks) < MaxDisks /\ disks' = Append(disks, d) /\ devices' = Append(devices, DeviceOf(m))
        \/ known = {} /\ Len(disks) = MaxDisks /\ disks' = disks /\ devices' = devices
    BY <2>1 DEF Record, d
  <2> HIDE DEF known
  <2> QED
    BY <2>2, <2>4, <2>5, <2>6
<1> QED
  BY <1>7, <1>8

LEMMA NextDisksInv == DisksInv /\ [DkNext]_dkVars => DisksInv'
<1> SUFFICES ASSUME DisksInv, [DkNext]_dkVars PROVE DisksInv'
  OBVIOUS
<1>1. CASE DkNext
  <2>1. PICK m \in Mounts, measured \in BOOLEAN : ReadLine(m, measured)
    BY <1>1 DEF DkNext
  <2> QED
    BY <2>1, ReadKeepsDisksInv
<1>2. CASE UNCHANGED dkVars
  <2>1. lines' = lines /\ filters' = filters /\ disks' = disks /\ devices' = devices
    BY <1>2 DEF dkVars
  <2>2. Counted' = Counted
    BY <2>1 DEF Counted, Selected
  <2>3. First' = First /\ Kept' = Kept
    BY <2>1, <2>2 DEF First, Kept
  <2> QED
    BY <2>1, <2>2, <2>3 DEF DisksInv, Lined
<1> QED
  BY <1>1, <1>2

\* Whatever lines /proc/mounts has and however the mount points are filtered,
\* the disks collect_mounts keeps are as many as the devices shown, up to the
\* size of the vector, and the space aggregate adds up is, for each of them
\* once, the largest that a line showed of it.
THEOREM DisksCountedOnce == DkSpec => []DisksOnce
<1>1. DkSpec => []DisksInv
  BY InitDisksInv, NextDisksInv, PTL DEF DkSpec
<1> QED
  BY <1>1, DisksInvSuffices, PTL

-----------------------------------------------------------------------------
\* Interfaces (monitor/net/mod.rs).

NicTerms(C) ==
    [kind : {"star", "any", "literal", "class", "malformed"}, ch : C, negated : BOOLEAN,
     ranges : SUBSET (C \X C)]
Parsers(C) ==
    [at : {"term", "literal", "open", "class", "hidden", "range", "end", "hiddenEnd", "bad"},
     terms : Seq(NicTerms(C)), negated : BOOLEAN, ranges : SUBSET (C \X C), lo : C]

LEMMA ParserType ==
    ASSUME NEW C, NoChar \in C, NEW p \in Parsers(C)
    PROVE  /\ \A term \in NicTerms(C) : Pushed(p, term) \in Parsers(C)
           /\ ClassPushed(p) \in Parsers(C) /\ Negated(p) \in Parsers(C)
           /\ \A place \in {"literal", "open", "hidden", "end", "hiddenEnd", "bad"} :
                 At(p, place) \in Parsers(C)
           /\ \A ch \in C : RangeFrom(p, ch) \in Parsers(C) /\ RangeTo(p, ch) \in Parsers(C)
<1>1. /\ p.at \in {"term", "literal", "open", "class", "hidden", "range", "end", "hiddenEnd", "bad"}
      /\ p.terms \in Seq(NicTerms(C)) /\ p.negated \in BOOLEAN /\ p.ranges \in SUBSET (C \X C) /\ p.lo \in C
  BY DEF Parsers
<1>2. \A term \in NicTerms(C) : Pushed(p, term) \in Parsers(C)
  <2> TAKE term \in NicTerms(C)
  <2>1. Append(p.terms, term) \in Seq(NicTerms(C))
    BY <1>1, AppendProperties
  <2> QED
    BY <2>1 DEF Pushed, Parser, Parsers
<1>3. ClassPushed(p) \in Parsers(C)
  <2>1. [kind |-> "class", ch |-> NoChar, negated |-> p.negated, ranges |-> p.ranges] \in NicTerms(C)
    BY <1>1 DEF NicTerms
  <2> QED
    BY <1>2, <2>1 DEF ClassPushed
<1>4. /\ Negated(p) \in Parsers(C)
      /\ \A place \in {"literal", "open", "hidden", "end", "hiddenEnd", "bad"} : At(p, place) \in Parsers(C)
      /\ \A ch \in C : RangeFrom(p, ch) \in Parsers(C)
  BY <1>1 DEF Negated, At, RangeFrom, Parser, Parsers
<1>5. \A ch \in C : RangeTo(p, ch) \in Parsers(C)
  <2> TAKE ch \in C
  <2>1. p.ranges \cup {<<p.lo, ch>>} \in SUBSET (C \X C)
    <3>1. <<p.lo, ch>> \in C \X C
      BY <1>1
    <3> QED
      BY <1>1, <3>1, Zenon
  <2> QED
    BY <1>1, <2>1 DEF RangeTo, Parser, Parsers
<1> QED
  BY <1>2, <1>3, <1>4, <1>5

LEMMA ReadCharType ==
    ASSUME NEW C, NoChar \in C, NEW p \in Parsers(C), NEW ch \in C
    PROVE  ReadChar(p, ch) \in Parsers(C)
<1>1. ASSUME NEW q \in Parsers(C) PROVE InBrackets(q, ch) \in Parsers(C)
  <2>1. /\ ClassPushed(q) \in Parsers(C) /\ At(q, "bad") \in Parsers(C)
        /\ At(q, "hidden") \in Parsers(C) /\ RangeFrom(q, ch) \in Parsers(C)
    BY <1>1, ParserType
  <2> QED
    BY <2>1 DEF InBrackets
<1>2. \A kind \in {"star", "any", "literal"}, c \in C : Pushed(p, NicTerm(kind, c)) \in Parsers(C)
  <2> TAKE kind \in {"star", "any", "literal"}, c \in C
  <2>1. NicTerm(kind, c) \in NicTerms(C)
    BY DEF NicTerm, NicTerms
  <2> QED
    BY <2>1, ParserType
<1>3. /\ At(p, "literal") \in Parsers(C) /\ At(p, "open") \in Parsers(C) /\ At(p, "bad") \in Parsers(C)
      /\ At(p, "end") \in Parsers(C) /\ At(p, "hiddenEnd") \in Parsers(C)
      /\ Negated(p) \in Parsers(C) /\ RangeFrom(p, ch) \in Parsers(C) /\ RangeTo(p, ch) \in Parsers(C)
  BY ParserType
<1>4. InBrackets(p, ch) \in Parsers(C) /\ InBrackets(RangeTo(p, p.lo), ch) \in Parsers(C)
  <2>1. p.lo \in C
    BY DEF Parsers
  <2>2. RangeTo(p, p.lo) \in Parsers(C)
    BY <2>1, ParserType
  <2> QED
    BY <1>1, <2>2
<1>5. /\ Pushed(p, NicTerm("star", NoChar)) \in Parsers(C) /\ Pushed(p, NicTerm("any", NoChar)) \in Parsers(C)
      /\ Pushed(p, NicTerm("literal", ch)) \in Parsers(C)
  BY <1>2
<1> QED
  BY <1>3, <1>4, <1>5 DEF ReadChar

\* What a pattern is read into is a sequence of terms.
LEMMA TermsType ==
    ASSUME NEW C, NoChar \in C, NEW s \in Seq(C)
    PROVE  TermsOf(s) \in Seq(NicTerms(C))
<1> DEFINE n == Len(s)
           V == Parsers(C)
           Solves(g) == g = [t \in SUBSET (DOMAIN s) |->
                               IF t = {} THEN Opening ELSE ReadChar(g[t \ {Max(t)}], s[Max(t)])]
           h == CHOOSE g : Solves(g)
           step == [x \in (1..n) \X V |-> ReadChar(x[2], s[x[1]])]
<1>1. FoldLeft(ReadChar, Opening, s) = h[DOMAIN s]
  BY DEF FoldLeft, MapThenFoldSet
<1>2. n \in Nat /\ DOMAIN s = 1..n /\ \A k \in 1..n : s[k] \in C
  OBVIOUS
<1>3. Opening \in V
  BY DEF Opening, Parser, Parsers
<1>4. step \in [(1..n) \X V -> V]
  <2>1. \A x \in (1..n) \X V : ReadChar(x[2], s[x[1]]) \in V
    <3> TAKE x \in (1..n) \X V
    <3>1. x[1] \in 1..n /\ x[2] \in V
      OBVIOUS
    <3> QED
      BY <1>2, <3>1, ReadCharType
  <2> QED
    BY <2>1
<1> HIDE DEF n, step, V
<1>5. PICK f \in [SUBSET (1..n) -> V] : FoldsOver(f, n, Opening, step)
  BY <1>2, <1>3, <1>4, FoldOverIndices
<1>6. \A t \in SUBSET (1..n) : f[t] = IF t = {} THEN Opening ELSE ReadChar(f[t \ {Max(t)}], s[Max(t)])
  <2> SUFFICES ASSUME NEW t \in SUBSET (1..n), t # {}
               PROVE  f[t] = ReadChar(f[t \ {Max(t)}], s[Max(t)])
    BY <1>5 DEF FoldsOver
  <2>1. Max(t) \in 1..n /\ f[t \ {Max(t)}] \in V
    BY <1>2, PartOfIndices
  <2>2. <<Max(t), f[t \ {Max(t)}]>> \in (1..n) \X V
    BY <2>1
  <2>3. f[t] = step[<<Max(t), f[t \ {Max(t)}]>>]
    BY <1>5 DEF FoldsOver
  <2> QED
    BY <2>2, <2>3 DEF step
<1>7. Solves(f)
  <2>1. f = [t \in SUBSET (1..n) |-> f[t]]
    OBVIOUS
  <2> QED
    BY <1>2, <1>6, <2>1, Zenon
<1>8. Solves(h)
  BY <1>7
<1> HIDE DEF h
<1>9. \A t \in SUBSET (1..n) : h[t] = IF t = {} THEN Opening ELSE ReadChar(h[t \ {Max(t)}], s[Max(t)])
  BY <1>2, <1>8, Zenon
<1> DEFINE T == {k \in 0..n : h[1..k] \in V}
<1>10. 0 \in T
  <2>1. 1..0 = {} /\ 0 \in 0..n
    BY <1>2
  <2>2. h[{}] = Opening
    BY <1>9, Zenon
  <2> QED
    BY <1>2, <1>3, <2>1, <2>2, Zenon
<1>11. ASSUME NEW k \in 1..n, k - 1 \in T PROVE k \in T
  <2>1. Max(1..k) = k /\ (1..k) \ {k} = 1..(k - 1) /\ 1..k \in SUBSET (1..n) /\ 1..k # {}
    BY <1>2, LastOfUpTo
  <2>2. h[1..k] = ReadChar(h[1..(k - 1)], s[k])
    BY <1>9, <2>1
  <2>3. h[1..(k - 1)] \in V /\ s[k] \in C
    BY <1>2, <1>11
  <2> QED
    <3>1. h[1..k] \in V
      BY <2>2, <2>3, ReadCharType DEF V
    <3> QED
      BY <3>1
<1> HIDE DEF T
<1>12. n \in T
  BY <1>2, <1>10, <1>11, ByCounting
<1>13. FoldLeft(ReadChar, Opening, s) \in Parsers(C)
  BY <1>1, <1>2, <1>12 DEF T, V
<1>14. Malformed \in Seq(NicTerms(C))
  <2>1. NicTerm("malformed", NoChar) \in NicTerms(C)
    BY DEF NicTerm, NicTerms
  <2> QED
    BY <2>1 DEF Malformed
<1> QED
  BY <1>13, <1>14 DEF TermsOf, Parsers

LEMMA ReachesNothing ==
    ASSUME NEW all, NEW name, Len(name) \in Nat, NEW j
    PROVE  Reaches(all, 0, name, j) <=> j = 0
<1>1. ASSUME j = 0 PROVE Reaches(all, 0, name, j)
  <2> DEFINE cut == [i \in 0..0 |-> 0]
  <2>1. cut \in [0..0 -> 0..Len(name)] /\ cut[0] = 0
    OBVIOUS
  <2> HIDE DEF cut
  <2> QED
    BY <1>1, <2>1 DEF Reaches
<1> QED
  BY <1>1 DEF Reaches

\* One term more is one piece more.
LEMMA ReachesFurther ==
    ASSUME NEW all, NEW name, Len(name) \in Nat, NEW k \in Nat, NEW j \in 0..Len(name)
    PROVE  Reaches(all, k + 1, name, j) <=>
              \E i \in 0..Len(name) : Reaches(all, k, name, i) /\ Piece(all[k + 1], name, i, j)
<1>1. ASSUME Reaches(all, k + 1, name, j)
      PROVE  \E i \in 0..Len(name) : Reaches(all, k, name, i) /\ Piece(all[k + 1], name, i, j)
  <2>1. PICK cut \in [0..(k + 1) -> 0..Len(name)] :
            /\ cut[0] = 0 /\ cut[k + 1] = j
            /\ \A t \in 1..(k + 1) : Piece(all[t], name, cut[t - 1], cut[t])
    BY <1>1 DEF Reaches
  <2> DEFINE short == [t \in 0..k |-> cut[t]]
  <2>2. short \in [0..k -> 0..Len(name)] /\ \A t \in 0..k : short[t] = cut[t]
    OBVIOUS
  <2> HIDE DEF short
  <2>3. \A t \in 1..k : Piece(all[t], name, short[t - 1], short[t])
    <3> TAKE t \in 1..k
    <3>1. t \in 1..(k + 1) /\ t - 1 \in 0..k /\ t \in 0..k
      OBVIOUS
    <3> QED
      BY <2>1, <2>2, <3>1
  <2>4. 0 \in 0..k /\ k \in 0..k /\ k + 1 \in 1..(k + 1) /\ (k + 1) - 1 = k /\ cut[k] \in 0..Len(name)
    OBVIOUS
  <2>5. Reaches(all, k, name, cut[k])
    BY <2>1, <2>2, <2>3, <2>4 DEF Reaches
  <2>6. Piece(all[k + 1], name, cut[k], j)
    BY <2>1, <2>4
  <2> QED
    BY <2>4, <2>5, <2>6
<1>2. ASSUME NEW i \in 0..Len(name), Reaches(all, k, name, i), Piece(all[k + 1], name, i, j)
      PROVE  Reaches(all, k + 1, name, j)
  <2>1. PICK cut \in [0..k -> 0..Len(name)] :
            /\ cut[0] = 0 /\ cut[k] = i
            /\ \A t \in 1..k : Piece(all[t], name, cut[t - 1], cut[t])
    BY <1>2 DEF Reaches
  <2> DEFINE longer == [t \in 0..(k + 1) |-> IF t = k + 1 THEN j ELSE cut[t]]
  <2>2. /\ longer \in [0..(k + 1) -> 0..Len(name)] /\ longer[k + 1] = j
        /\ \A t \in 0..k : longer[t] = cut[t]
    OBVIOUS
  <2> HIDE DEF longer
  <2>3. \A t \in 1..(k + 1) : Piece(all[t], name, longer[t - 1], longer[t])
    <3> TAKE t \in 1..(k + 1)
    <3>1. CASE t = k + 1
      <4>1. t - 1 = k /\ k \in 0..k
        BY <3>1
      <4> QED
        BY <1>2, <2>1, <2>2, <3>1, <4>1
    <3>2. CASE t # k + 1
      <4>1. t \in 1..k /\ t - 1 \in 0..k /\ t \in 0..k
        BY <3>2
      <4> QED
        BY <2>1, <2>2, <4>1
    <3> QED
      BY <3>1, <3>2
  <2>4. 0 \in 0..k
    OBVIOUS
  <2> QED
    BY <2>1, <2>2, <2>3, <2>4 DEF Reaches
<1> QED
  BY <1>1, <1>2

\* The beginnings of the name that the first k terms match.
RowOf(all, k) == {j \in 0..Len(nic) : Reaches(all, k, nic, j)}

LEMMA NextRowIs ==
    ASSUME Len(nic) \in Nat, NEW all, NEW k \in Nat
    PROVE  NextRow(RowOf(all, k), all[k + 1]) = RowOf(all, k + 1)
<1> SUFFICES ASSUME NEW j \in 0..Len(nic)
             PROVE  j \in NextRow(RowOf(all, k), all[k + 1]) <=>
                       \E i \in 0..Len(nic) : Reaches(all, k, nic, i) /\ Piece(all[k + 1], nic, i, j)
  <2>1. NextRow(RowOf(all, k), all[k + 1]) \subseteq 0..Len(nic)
    BY DEF NextRow
  <2> QED
    BY <2>1, ReachesFurther DEF RowOf
<1>1. CASE all[k + 1].kind = "star"
  BY <1>1 DEF NextRow, StarFrom, RowOf, Piece
<1>2. CASE all[k + 1].kind # "star"
  <2>1. j \in NextRow(RowOf(all, k), all[k + 1]) <=>
           j > 0 /\ j - 1 \in 0..Len(nic) /\ Reaches(all, k, nic, j - 1) /\ Accepts(all[k + 1], nic[j])
    BY <1>2 DEF NextRow, RowOf
  <2>2. \A i \in 0..Len(nic) : Piece(all[k + 1], nic, i, j) <=> j = i + 1 /\ Accepts(all[k + 1], nic[j])
    BY <1>2 DEF Piece
  <2>3. \A i \in 0..Len(nic) : j = i + 1 <=> j > 0 /\ i = j - 1
    OBVIOUS
  <2> QED
    BY <2>1, <2>2, <2>3
<1> QED
  BY <1>1, <1>2

\* A list of patterns was tried without a match, and where the table is for the
\* pattern being tried.
NoneOf(patterns, n) == \A i \in 1..n : ~Means(patterns[i], nic)
BuiltInName == \E prefix \in BuiltIn : IsPrefix(prefix, nic)

\* What is left of the terms from the k-th on.
LeftFrom(rest, all, k) ==
    /\ rest \in Seq(Range(all)) /\ Len(rest) = Len(all) - k
    /\ \A i \in 1..Len(rest) : rest[i] = all[k + i]

TableOf(pattern) ==
    \E k \in 0..Len(TermsOf(pattern)) :
        LeftFrom(terms, TermsOf(pattern), k) /\ row = RowOf(TermsOf(pattern), k)

NicInv ==
    /\ nic \in NicNames /\ include \in Lists /\ exclude \in Lists
    /\ list \in {"start", "include", "exclude", "done"}
    /\ list = "include" =>
          /\ ~BuiltInName /\ tried \in 1..Len(include) /\ NoneOf(include, tried - 1)
          /\ TableOf(include[tried])
    /\ list = "exclude" =>
          /\ ~BuiltInName /\ NoneOf(include, Len(include))
          /\ tried \in 1..Len(exclude) /\ NoneOf(exclude, tried - 1)
          /\ TableOf(exclude[tried])
    /\ NicsChosen

\* Names, and what patterns are read into.
LEMMA NamesAndTerms ==
    /\ \A name \in NicNames : Len(name) \in Nat
    /\ \A pattern \in NicPatterns :
          /\ TermsOf(pattern) \in Seq(Range(TermsOf(pattern)))
          /\ Len(TermsOf(pattern)) \in Nat
<1>1. ASSUME NEW name \in NicNames PROVE Len(name) \in Nat
  <2>1. name \in Seq(Range(name))
    BY <1>1, NicsAssumption
  <2> QED
    BY <2>1
<1>2. ASSUME NEW pattern \in NicPatterns
      PROVE  /\ TermsOf(pattern) \in Seq(Range(TermsOf(pattern)))
             /\ Len(TermsOf(pattern)) \in Nat
  <2> DEFINE C == Range(pattern) \cup {NoChar}
  <2>1. pattern \in Seq(Range(pattern))
    BY <1>2, NicsAssumption
  <2>2. pattern \in Seq(C) /\ NoChar \in C
    BY <2>1
  <2> HIDE DEF C
  <2>3. TermsOf(pattern) \in Seq(NicTerms(C))
    BY <2>2, TermsType
  <2> DEFINE all == TermsOf(pattern)
  <2>4. all \in Seq(NicTerms(C))
    BY <2>3
  <2> HIDE DEF all
  <2>5. \A i \in 1..Len(all) : all[i] \in Range(all)
    BY <2>4 DEF Range
  <2>6. all \in Seq(Range(all)) /\ Len(all) \in Nat
    BY <2>4, <2>5
  <2> QED
    BY <2>6 DEF all
<1> QED
  BY <1>1, <1>2

LEMMA ListsAre ==
    ASSUME NEW patterns \in Lists
    PROVE  /\ patterns \in Seq(NicPatterns) /\ Len(patterns) \in Nat /\ DOMAIN patterns = 1..Len(patterns)
           /\ \A i \in 1..Len(patterns) : patterns[i] \in NicPatterns
<1>1. PICK n \in 0..MaxPatterns : patterns \in [1..n -> NicPatterns]
  BY DEF Lists
<1>2. n \in Nat
  BY <1>1, NicsAssumption
<1>3. patterns \in Seq(NicPatterns)
  BY <1>1, <1>2
<1> QED
  BY <1>3

\* Before the first term.
LEMMA TableBegins ==
    ASSUME nic \in NicNames, NEW pattern \in NicPatterns, terms' = TermsOf(pattern), row' = {0}, nic' = nic
    PROVE  TableOf(pattern)'
<1> DEFINE all == TermsOf(pattern)
<1>1. Len(nic) \in Nat /\ all \in Seq(Range(all)) /\ Len(all) \in Nat
  BY NamesAndTerms
<1>2. terms' = all
  OBVIOUS
<1>3. row' = {j \in 0..Len(nic) : Reaches(all, 0, nic, j)}
  BY <1>1, ReachesNothing
<1> HIDE DEF all
<1>4. LeftFrom(terms', all, 0) /\ 0 \in 0..Len(all)
  BY <1>1, <1>2 DEF LeftFrom
<1>5. row' = RowOf(all, 0)'
  BY <1>3 DEF RowOf
<1>6. \E k \in 0..Len(all) : LeftFrom(terms', all, k) /\ row' = RowOf(all, k)'
  BY <1>4, <1>5
<1> QED
  BY <1>6 DEF TableOf, all

LEMMA TableGoesOn ==
    ASSUME nic \in NicNames, NEW pattern \in NicPatterns, TableOf(pattern), terms # <<>>,
           row' = NextRow(row, Head(terms)), terms' = Tail(terms), nic' = nic
    PROVE  TableOf(pattern)'
<1> DEFINE all == TermsOf(pattern)
<1>1. Len(nic) \in Nat /\ all \in Seq(Range(all)) /\ Len(all) \in Nat
  BY NamesAndTerms
<1>2. PICK k \in 0..Len(all) : LeftFrom(terms, all, k) /\ row = RowOf(all, k)
  BY DEF TableOf
<1> HIDE DEF all
<1>3. /\ terms \in Seq(Range(all)) /\ Len(terms) = Len(all) - k /\ k \in Nat
      /\ \A i \in 1..Len(terms) : terms[i] = all[k + i]
  BY <1>1, <1>2 DEF LeftFrom
<1>4. /\ Len(terms) >= 1 /\ Head(terms) = all[k + 1] /\ k + 1 \in 0..Len(all)
      /\ terms' \in Seq(Range(all)) /\ Len(terms') = Len(all) - (k + 1)
      /\ \A i \in 1..Len(terms') : terms'[i] = terms[i + 1]
  BY <1>1, <1>3
<1>5. \A i \in 1..Len(terms') : terms'[i] = all[(k + 1) + i]
  <2> TAKE i \in 1..Len(terms')
  <2>1. i + 1 \in 1..Len(terms) /\ k + (i + 1) = (k + 1) + i
    BY <1>1, <1>3, <1>4
  <2> QED
    BY <1>3, <1>4, <2>1
<1>6. row' = RowOf(all, k + 1)'
  <2>1. row' = RowOf(all, k + 1)
    BY <1>1, <1>2, <1>3, <1>4, NextRowIs
  <2> QED
    BY <2>1 DEF RowOf
<1>7. \E l \in 0..Len(all) : LeftFrom(terms', all, l) /\ row' = RowOf(all, l)'
  BY <1>4, <1>5, <1>6 DEF LeftFrom
<1> QED
  BY <1>7 DEF TableOf, all

\* Behind the last term.
LEMMA TableTells ==
    ASSUME nic \in NicNames, NEW pattern \in NicPatterns, TableOf(pattern), terms = <<>>
    PROVE  Len(nic) \in row <=> Means(pattern, nic)
<1> DEFINE all == TermsOf(pattern)
<1>1. Len(nic) \in Nat /\ Len(all) \in Nat
  BY NamesAndTerms
<1>2. PICK k \in 0..Len(all) : LeftFrom(terms, all, k) /\ row = RowOf(all, k)
  BY DEF TableOf
<1>3. Means(pattern, nic) <=> Reaches(all, Len(all), nic, Len(nic))
  BY DEF Means
<1> HIDE DEF all
<1>4. k = Len(all)
  <2>1. Len(terms) = 0
    OBVIOUS
  <2> QED
    BY <1>1, <1>2, <2>1 DEF LeftFrom
<1> QED
  BY <1>1, <1>2, <1>3, <1>4 DEF RowOf

\* The steps between the patterns.
ListsStay == nic' = nic /\ include' = include /\ exclude' = exclude

LEMMA TryKeeps ==
    ASSUME NicInv, ListsStay, ~BuiltInName, NEW n,
           \/ Try("include", n) /\ n \in 1..Len(include) /\ NoneOf(include, n - 1)
           \/ /\ Try("exclude", n) /\ n \in 1..Len(exclude) /\ NoneOf(exclude, n - 1)
              /\ NoneOf(include, Len(include))
    PROVE  NicInv'
<1>1. nic \in NicNames /\ include \in Lists /\ exclude \in Lists
  BY DEF NicInv
<1>2. nic' = nic /\ include' = include /\ exclude' = exclude
  BY DEF ListsStay
<1>3. BuiltInName' = BuiltInName /\ \A m : NoneOf(include, m)' = NoneOf(include, m) /\ NoneOf(exclude, m)' = NoneOf(exclude, m)
  BY <1>2 DEF BuiltInName, NoneOf
<1>4. CASE Try("include", n) /\ n \in 1..Len(include) /\ NoneOf(include, n - 1)
  <2>1. PICK q \in NicPatterns : q = include[n]
    BY <1>1, <1>4, ListsAre
  <2>2. list' = "include" /\ tried' = n /\ terms' = TermsOf(q) /\ row' = {0}
    BY <1>4, <2>1 DEF Try, ListOf
  <2>3. TableOf(q)'
    BY <1>1, <1>2, <2>2, TableBegins
  <2>4. include'[tried'] = q
    BY <1>2, <2>1, <2>2
  <2>5. TableOf(include[tried])'
    BY <2>3, <2>4 DEF TableOf
  <2>6. NicsChosen'
    BY <2>2 DEF NicsChosen
  <2> QED
    BY <1>1, <1>2, <1>3, <1>4, <2>2, <2>5, <2>6 DEF NicInv, NoneOf
<1>5. CASE /\ Try("exclude", n) /\ n \in 1..Len(exclude) /\ NoneOf(exclude, n - 1)
           /\ NoneOf(include, Len(include))
  <2>1. PICK q \in NicPatterns : q = exclude[n]
    BY <1>1, <1>5, ListsAre
  <2>2. list' = "exclude" /\ tried' = n /\ terms' = TermsOf(q) /\ row' = {0}
    BY <1>5, <2>1 DEF Try, ListOf
  <2>3. TableOf(q)'
    BY <1>1, <1>2, <2>2, TableBegins
  <2>4. exclude'[tried'] = q
    BY <1>2, <2>1, <2>2
  <2>5. TableOf(exclude[tried])'
    BY <2>3, <2>4 DEF TableOf
  <2>6. NicsChosen'
    BY <2>2 DEF NicsChosen
  <2> QED
    BY <1>1, <1>2, <1>3, <1>5, <2>2, <2>5, <2>6 DEF NicInv, NoneOf
<1> QED
  BY <1>4, <1>5

\* The verdict, which is what NicsChosen says of it.
LEMMA VerdictKeeps ==
    ASSUME NicInv, ListsStay, NEW yes \in BOOLEAN, Verdict(yes),
           yes <=> /\ ~BuiltInName
                   /\ \/ ~NoneOf(include, Len(include))
                      \/ include = <<>> /\ NoneOf(exclude, Len(exclude))
    PROVE  NicInv'
<1>1. nic \in NicNames /\ include \in Lists /\ exclude \in Lists
  BY DEF NicInv
<1>2. nic' = nic /\ include' = include /\ exclude' = exclude /\ list' = "done" /\ counted' = yes
  BY DEF ListsStay, Verdict
<1>3. DOMAIN include = 1..Len(include) /\ DOMAIN exclude = 1..Len(exclude)
  BY <1>1, ListsAre
<1>4. /\ (\E i \in DOMAIN include : Means(include[i], nic)) <=> ~NoneOf(include, Len(include))
      /\ (\E i \in DOMAIN exclude : Means(exclude[i], nic)) <=> ~NoneOf(exclude, Len(exclude))
  BY <1>3 DEF NoneOf
<1>5. NicsChosen'
  BY <1>2, <1>4 DEF NicsChosen, BuiltInName
<1> QED
  BY <1>1, <1>2, <1>5 DEF NicInv

LEMMA TryExcludeKeeps ==
    ASSUME NicInv, ListsStay, ~BuiltInName, NoneOf(include, Len(include)), TryExclude
    PROVE  NicInv'
<1>1. /\ Len(exclude) \in Nat /\ exclude \in Seq(NicPatterns)
      /\ Len(include) \in Nat /\ include \in Seq(NicPatterns)
  BY ListsAre DEF NicInv
<1>2. CASE exclude # <<>> /\ Try("exclude", 1)
  <2>1. 1 \in 1..Len(exclude) /\ NoneOf(exclude, 1 - 1)
    BY <1>1, <1>2 DEF NoneOf
  <2> QED
    BY <1>2, <2>1, TryKeeps
<1>3. CASE exclude = <<>> /\ Verdict(include = <<>>)
  <2>1. NoneOf(exclude, Len(exclude))
    BY <1>1, <1>3 DEF NoneOf
  <2>2. (include = <<>>) \in BOOLEAN
    OBVIOUS
  <2> QED
    BY <1>3, <2>1, <2>2, VerdictKeeps
<1> QED
  BY <1>2, <1>3 DEF TryExclude

LEMMA PatternDoneKeeps == ASSUME NicInv, ListsStay, PatternDone PROVE NicInv'
<1> DEFINE patterns == ListOf(list)
<1>1. /\ Len(exclude) \in Nat /\ Len(include) \in Nat /\ nic \in NicNames
      /\ include \in Seq(NicPatterns) /\ exclude \in Seq(NicPatterns)
  BY ListsAre DEF NicInv
<1>2. /\ list \in {"include", "exclude"} /\ terms = <<>> /\ ~BuiltInName
      /\ tried \in 1..Len(patterns) /\ NoneOf(patterns, tried - 1) /\ TableOf(patterns[tried])
      /\ patterns[tried] \in NicPatterns
      /\ list = "exclude" => NoneOf(include, Len(include))
  BY <1>1 DEF PatternDone, NicInv, ListOf
<1>3. Len(nic) \in row <=> Means(patterns[tried], nic)
  <2>1. PICK q \in NicPatterns : q = patterns[tried]
    BY <1>2
  <2>2. TableOf(q)
    BY <1>2, <2>1
  <2> QED
    BY <1>1, <1>2, <2>1, <2>2, TableTells
<1>4. CASE Len(nic) \in row
  <2>1. Verdict(list = "include") /\ ~NoneOf(patterns, Len(patterns))
    BY <1>1, <1>2, <1>3, <1>4 DEF PatternDone, NoneOf
  <2>2. (list = "include") <=> /\ ~BuiltInName
                               /\ \/ ~NoneOf(include, Len(include))
                                  \/ include = <<>> /\ NoneOf(exclude, Len(exclude))
    BY <1>2, <2>1 DEF ListOf
  <2> QED
    BY <2>1, <2>2, VerdictKeeps
<1>5. CASE Len(nic) \notin row
  <2>1. NoneOf(patterns, tried)
    BY <1>1, <1>2, <1>3, <1>5 DEF NoneOf
  <2>2. CASE tried < Len(patterns) /\ Try(list, tried + 1)
    <3>1. tried + 1 \in 1..Len(patterns) /\ (tried + 1) - 1 = tried
      BY <1>1, <1>2, <2>2 DEF ListOf
    <3> QED
      BY <1>2, <2>1, <2>2, <3>1, TryKeeps DEF ListOf
  <2>3. CASE tried = Len(patterns) /\ list = "include" /\ TryExclude
    BY <1>2, <2>1, <2>3, TryExcludeKeeps DEF ListOf
  <2>4. CASE tried = Len(patterns) /\ list = "exclude" /\ Verdict(include = <<>>)
    <3>1. NoneOf(exclude, Len(exclude)) /\ NoneOf(include, Len(include))
      BY <1>2, <2>1, <2>4 DEF ListOf
    <3>2. (include = <<>>) \in BOOLEAN
      OBVIOUS
    <3> QED
      BY <1>2, <2>4, <3>1, <3>2, VerdictKeeps
  <2> QED
    BY <1>5, <2>2, <2>3, <2>4 DEF PatternDone
<1> QED
  BY <1>4, <1>5

LEMMA IncludeNicKeeps == ASSUME NicInv, ListsStay, IncludeNic PROVE NicInv'
<1>1. Len(include) \in Nat /\ include \in Seq(NicPatterns)
  BY ListsAre DEF NicInv
<1>2. CASE BuiltInName
  <2>1. Verdict(FALSE)
    BY <1>2 DEF IncludeNic, BuiltInName
  <2> QED
    BY <1>2, <2>1, VerdictKeeps
<1>3. CASE ~BuiltInName
  <2>1. \/ include # <<>> /\ Try("include", 1)
        \/ include = <<>> /\ TryExclude
    BY <1>3 DEF IncludeNic, BuiltInName
  <2>2. CASE include # <<>> /\ Try("include", 1)
    <3>1. 1 \in 1..Len(include) /\ NoneOf(include, 1 - 1)
      BY <1>1, <2>2 DEF NoneOf
    <3> QED
      BY <1>3, <2>2, <3>1, TryKeeps
  <2>3. CASE include = <<>> /\ TryExclude
    <3>1. NoneOf(include, Len(include))
      BY <1>1, <2>3 DEF NoneOf
    <3> QED
      BY <1>3, <2>3, <3>1, TryExcludeKeeps
  <2> QED
    BY <2>1, <2>2, <2>3
<1> QED
  BY <1>2, <1>3

LEMMA MatchTermKeeps == ASSUME NicInv, ListsStay, MatchTerm PROVE NicInv'
<1>1. /\ list \in {"include", "exclude"} /\ list' = list /\ tried' = tried /\ terms # <<>>
      /\ row' = NextRow(row, Head(terms)) /\ terms' = Tail(terms)
  BY DEF MatchTerm
<1>2. nic' = nic /\ include' = include /\ exclude' = exclude
  BY DEF ListsStay
<1>3. nic \in NicNames /\ include \in Lists /\ exclude \in Lists
  BY DEF NicInv
<1>4. list = "include" => TableOf(include[tried])'
  <2> SUFFICES ASSUME list = "include" PROVE TableOf(include[tried])'
    OBVIOUS
  <2>1. tried \in 1..Len(include) /\ TableOf(include[tried])
    BY DEF NicInv
  <2>2. PICK q \in NicPatterns : q = include[tried]
    BY <1>3, <2>1, ListsAre
  <2>3. TableOf(q)
    BY <2>1, <2>2
  <2>4. TableOf(q)'
    BY <1>1, <1>2, <1>3, <2>3, TableGoesOn
  <2>5. include'[tried'] = q
    BY <1>1, <1>2, <2>2
  <2> QED
    BY <2>4, <2>5 DEF TableOf
<1>5. list = "exclude" => TableOf(exclude[tried])'
  <2> SUFFICES ASSUME list = "exclude" PROVE TableOf(exclude[tried])'
    OBVIOUS
  <2>1. tried \in 1..Len(exclude) /\ TableOf(exclude[tried])
    BY DEF NicInv
  <2>2. PICK q \in NicPatterns : q = exclude[tried]
    BY <1>3, <2>1, ListsAre
  <2>3. TableOf(q)
    BY <2>1, <2>2
  <2>4. TableOf(q)'
    BY <1>1, <1>2, <1>3, <2>3, TableGoesOn
  <2>5. exclude'[tried'] = q
    BY <1>1, <1>2, <2>2
  <2> QED
    BY <2>4, <2>5 DEF TableOf
<1>6. /\ BuiltInName' = BuiltInName /\ NoneOf(include, Len(include))' = NoneOf(include, Len(include))
      /\ NoneOf(include, tried - 1)' = NoneOf(include, tried - 1)
      /\ NoneOf(exclude, tried - 1)' = NoneOf(exclude, tried - 1)
  BY <1>1, <1>2 DEF BuiltInName, NoneOf
<1>7. NicsChosen'
  BY <1>1 DEF NicsChosen
<1> QED
  BY <1>1, <1>2, <1>3, <1>4, <1>5, <1>6, <1>7 DEF NicInv

LEMMA NextNicInv == NicInv /\ [IfNext]_ifVars => NicInv'
<1> SUFFICES ASSUME NicInv, [IfNext]_ifVars PROVE NicInv'
  OBVIOUS
<1>1. CASE IfNext
  <2>1. ListsStay
    BY <1>1 DEF IfNext, ListsStay
  <2> QED
    BY <1>1, <2>1, IncludeNicKeeps, MatchTermKeeps, PatternDoneKeeps DEF IfNext
<1>2. CASE UNCHANGED ifVars
  BY <1>2 DEF ifVars, NicInv, BuiltInName, NoneOf, TableOf, RowOf, NicsChosen
<1> QED
  BY <1>1, <1>2

\* Whatever patterns are listed and however the interfaces are called: the two
\* rows of the table, carried over the terms, say what the pattern means, and an
\* interface is counted exactly if the lists mean it to be.
THEOREM NicsStayChosen == IfSpec => []NicsChosen
<1>1. IfInit => NicInv
  BY DEF IfInit, NicInv, NicsChosen
<1>2. NicInv => NicsChosen
  BY DEF NicInv
<1> QED
  BY <1>1, <1>2, NextNicInv, PTL DEF IfSpec

-----------------------------------------------------------------------------
\* What is measured: the disks that collect_mounts keeps (disk/linux.rs) and the
\* interfaces that include_nic lets through (net/mod.rs) are counted once, for
\* any mounts, filters, patterns and names.
THEOREM MeasuredStaysOnce == DkSpec /\ IfSpec => []MeasuredOnce
<1>1. DisksOnce /\ NicsChosen => MeasuredOnce
  BY DEF MeasuredOnce
<1> QED
  BY <1>1, DisksCountedOnce, NicsStayChosen, PTL

=============================================================================
