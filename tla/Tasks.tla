-------------------------------- MODULE Tasks --------------------------------
(***************************************************************************)
(* A message of the server from dispatch to its answer:                    *)
(* dispatch_server_message (server/reconnection.rs), the commands and the  *)
(* pings of server/task.rs with ping_icmp.rs, ping_tcp.rs and ping_http.rs *)
(* and the envelopes of protocol/v2.rs.  What other modules model, the     *)
(* terminal, the files and the update, is handed over here and ends.       *)
(***************************************************************************)
EXTENDS Integers, Sequences, SequencesExt, FiniteSets, FiniteSetsExt

CONSTANTS
    Messages,        \* the messages the server may send
    Policies,        \* configurations and platforms: records of switches
    HighLatency,     \* HIGH_LATENCY_THRESHOLD_MS
    Retransmission,  \* TCP_RETRANSMISSION_DROP_THRESHOLD_MS
    MaxRetries,      \* MAX_LATENCY_RETRIES
    MaxHops,         \* requests of one HTTP ping
    MaxAddresses,    \* bound: addresses a name resolves to
    Slow             \* bound: what one network operation takes

ASSUME TasksAssumption ==
    /\ {HighLatency, Retransmission, MaxRetries, MaxHops, MaxAddresses, Slow} \subseteq Nat
    /\ Policies \subseteq [noExec : BOOLEAN, noShell : BOOLEAN, noUpdate : BOOLEAN,
                            httpOnly : BOOLEAN, windows : BOOLEAN]

VARIABLES
    channel,  \* "ws", or "http" when a report or a pull brought the message
    policy,   \* configuration and platform
    received, \* the message under way
    progress, \* where it is
    probe,    \* the measurement under way: its kind, what is left to try, the time spent
    rtts,     \* what measure_with_retry has measured of this kind
    best,     \* the least of it
    script,   \* Windows: the temporary script, "none", "written" or "left" behind
    reply,    \* what is told to the server
    posts     \* how often it was sent, and whether the server took it

tkVars == <<channel, policy, received, progress, probe, rtts, best, script, reply, posts>>

Failed == 0 - 1
NotText == "not text"
NoNumber == 0 - 99
NoAnswer == [of |-> "none", id |-> "", kind |-> "none", value |-> 0, parts |-> <<>>]
NoProbe == [kind |-> "none", left |-> 0, spent |-> 0]

\* A JSON value: its text when it is a string, its number when it reads as one.
Value(text, number) == [text |-> text, number |-> number]
NoValue == Value(NotText, NoNumber)

\* lookup_field: the object itself first, then its params.
LookupField(m, key) ==
    IF key \in DOMAIN m.top THEN m.top[key]
    ELSE IF key \in DOMAIN m.params THEN m.params[key] ELSE NoValue

\* extract_json_string with its default, and the first of two names that is there.
TextOf(m, key) == LET t == LookupField(m, key).text IN IF t = NotText THEN "" ELSE t
FirstText(m, k1, k2) ==
    IF LookupField(m, k1).text # NotText THEN LookupField(m, k1).text ELSE LookupField(m, k2).text
FirstNumber(m, keys) ==
    LET there == SelectSeq(keys, LAMBDA k : LookupField(m, k).number # NoNumber)
    IN  IF there = <<>> THEN NoNumber ELSE LookupField(m, there[1]).number

\* extract_ping_fields.
PingFields(m) ==
    [id |-> FirstNumber(m, <<"taskId", "task_id", "ping_task_id">>),
     kind |-> FirstText(m, "pingType", "ping_type"),
     target |-> FirstText(m, "target", "ping_target")]

\* The id of a ping reads as an integer, or is not there.
ASSUME MessagesAssumption == \A m \in Messages : PingFields(m).id \in Int

TkInit ==
    /\ channel \in {"ws", "http"}
    /\ policy \in Policies
    /\ policy.httpOnly => channel = "http"
    /\ received \in Messages
    /\ progress = "arrived"
    /\ probe = NoProbe
    /\ rtts = <<>> /\ best = Failed
    /\ script = "none"
    /\ reply = NoAnswer
    /\ posts = 0

(***************************************************************************)
(* Dispatch.                                                               *)
(***************************************************************************)
Goes(to) ==
    /\ progress' = to
    /\ UNCHANGED <<channel, policy, received, probe, rtts, best, script, reply, posts>>

ProbeAnswers(a) ==
    /\ reply' = a
    /\ progress' = "answer"
    /\ UNCHANGED <<channel, policy, received, probe, rtts, best, script, posts>>

\* An answer to a command.
Executed(code, parts) ==
    [of |-> "exec", id |-> TextOf(received, "task_id"), kind |-> "exec", value |-> code, parts |-> parts]

\* handle_startup_config_request: a request whose id is the one asked with.
StartupConfig(request) == [NoAnswer EXCEPT !.of = "startupConfig", !.id = request]

\* dispatch_server_message.  On a WebSocket an error of the server comes first.
DispatchMessage ==
    LET method == TextOf(received, "method")
        request == TextOf(received, "request_id")
        ping == PingFields(received)
    IN  /\ progress = "arrived"
        /\ \/ /\ channel = "ws" /\ received.error
              /\ Goes("session over")
           \/ /\ ~(channel = "ws" /\ received.error)
              /\ \/ /\ \/ ~received.utf8
                       \/ method \notin {"agent.exec", "agent.ping", "agent.terminal.request",
                                         "agent.startupConfig", "agent.file", "agent.switchVersion"}
                    /\ Goes("done")
                 \/ /\ received.utf8
                    /\ \/ /\ method = "agent.exec"
                          /\ Goes(IF TextOf(received, "task_id") = "" THEN "done" ELSE "exec")
                       \/ /\ method = "agent.ping"
                          /\ IF ping.id = NoNumber \/ ping.kind = NotText \/ ping.target = NotText
                             THEN Goes("done")
                             ELSE /\ probe' = [NoProbe EXCEPT !.kind = ping.kind]
                                  /\ progress' = "ping"
                                  /\ UNCHANGED <<channel, policy, received, rtts, best, script, reply, posts>>
                       \/ /\ method = "agent.terminal.request"
                          /\ Goes(IF policy.httpOnly \/ request = "" THEN "done" ELSE "terminal")
                       \/ /\ method = "agent.startupConfig"
                          /\ IF request = "" THEN Goes("done")
                             ELSE ProbeAnswers(StartupConfig(request))
                       \/ /\ method = "agent.file"
                          /\ Goes("file")
                       \/ /\ method = "agent.switchVersion"
                          /\ Goes(IF policy.noShell \/ policy.noUpdate THEN "done" ELSE "update")

(***************************************************************************)
(* Commands.                                                               *)
(***************************************************************************)

\* execute_exec, up to the process.
BeginExec ==
    LET command == TextOf(received, "command")
    IN  /\ progress = "exec"
        /\ \/ /\ policy.noExec
              /\ ProbeAnswers(Executed(0 - 1, <<"disabled">>))
           \/ /\ ~policy.noExec
              /\ command \in {"", "blank"}
              /\ ProbeAnswers(Executed(0, <<"no command">>))
           \/ /\ ~policy.noExec
              /\ command \notin {"", "blank"}
              /\ Goes(IF policy.windows THEN "script" ELSE "run")

\* exec_windows_powershell: the script is created new, and written.  One that
\* could not be written goes, unless its removal fails: that is ignored.
WriteScript ==
    /\ progress = "script"
    /\ \/ /\ script' \in {"none", "left"}
          /\ reply' = Executed(0 - 1, <<"no script">>)
          /\ progress' = "answer"
       \/ /\ script' = "written"
          /\ progress' = "run"
          /\ UNCHANGED reply
    /\ UNCHANGED <<channel, policy, received, probe, rtts, best, posts>>

\* exec_result with normalize_output: why the process ended decides, not its code.
ExecResult(ended, code, output) ==
    CASE ended = "error" -> Executed(0 - 1, <<"error">>)
      [] ended = "exited" -> Executed(code, output)
      [] ended = "timed out" -> Executed(0 - 124, output \o <<"timed out">>)
      [] ended = "output limit" -> Executed(0 - 125, output \o <<"truncated">>)

\* ExitStatus::code.  No code is a signal's end; those of Unix are not negative,
\* on Windows a code is any i32, those of exec_result too.
OwnCodes == {0 - 1, 0, 1} \cup IF policy.windows THEN {0 - 124, 0 - 125} ELSE {}

\* subprocess::run returns; the script goes in any case, if it can be removed.
EndExec ==
    /\ progress = "run"
    /\ \E ended \in {"error", "exited", "timed out", "output limit"}, code \in OwnCodes,
          output \in {<<>>, <<"stdout">>, <<"stderr">>, <<"stdout", "stderr">>} :
          reply' = ExecResult(ended, code, output)
    /\ script' \in IF script = "written" THEN {"none", "left"} ELSE {script}
    /\ progress' = "answer"
    /\ UNCHANGED <<channel, policy, received, probe, rtts, best, posts>>

(***************************************************************************)
(* Pings.                                                                  *)
(***************************************************************************)
Fallback == [icmp |-> "tcp", tcp |-> "http"]

PingAnswer(kind, value) ==
    LET id == PingFields(received).id
    IN  [of |-> "ping", id |-> IF id < 0 THEN 0 ELSE id, kind |-> kind, value |-> value, parts |-> <<>>]

\* handle_ping, with what measure_with_retry returned: the next kind, or the answer.
Settle(value) ==
    /\ best' = Failed
    /\ UNCHANGED <<channel, policy, received, script, posts>>
    /\ \/ /\ value = Failed /\ probe.kind \in DOMAIN Fallback
          /\ probe' = [NoProbe EXCEPT !.kind = Fallback[probe.kind]]
          /\ rtts' = <<>>
          /\ progress' = "ping"
          /\ UNCHANGED reply
       \/ /\ value # Failed \/ probe.kind \notin DOMAIN Fallback
          /\ reply' = PingAnswer(probe.kind, value)
          /\ progress' = "answer"
          /\ UNCHANGED probe

\* Measured once more, and again.
Again(rtt) ==
    /\ best' = IF rtts = <<>> THEN rtt ELSE Min({best, rtt})
    /\ rtts' = Append(rtts, rtt)
    /\ probe' = [NoProbe EXCEPT !.kind = probe.kind]
    /\ progress' = "ping"
    /\ UNCHANGED <<channel, policy, received, script, reply, posts>>

\* Mutant: the last round trip is kept, not the least.
KeepsLast(rtt) ==
    IF rtts # <<>> /\ rtt = Failed THEN best
    ELSE IF probe.kind = "tcp" /\ Len(rtts) = 1 /\ rtts[1] - rtt > Retransmission THEN Failed
    ELSE rtt

\* The value a measurement ends the series with, when it does.
Keeps(rtt) ==
    IF rtts = <<>> THEN rtt
    ELSE IF rtt = Failed THEN best
    ELSE IF probe.kind = "tcp" /\ Len(rtts) = 1 /\ rtts[1] - rtt > Retransmission THEN Failed
    ELSE Min({best, rtt})

\* measure_with_retry takes a measurement; rtts keeps those of the kind reported.
Measured(rtt) ==
    IF \/ rtt <= HighLatency
       \/ Len(rtts) = MaxRetries
       \/ Keeps(rtt) = Failed
    THEN /\ Settle(Keeps(rtt))
         /\ progress' = "answer" => rtts' = Append(rtts, rtt)
    ELSE Again(rtt)

AtLeastOne(rtt) == IF rtt = 0 THEN 1 ELSE rtt

\* A kind no probe is written for is answered so.
PingUnknown ==
    /\ progress = "ping" /\ probe.kind \notin {"icmp", "tcp", "http"}
    /\ reply' = PingAnswer("unknown", Failed)
    /\ progress' = "answer"
    /\ UNCHANGED <<channel, policy, received, probe, rtts, best, script, posts>>

\* ping_icmp: a name without an address, a socket refused, a time-out, or an echo.
PingIcmp ==
    /\ progress = "ping" /\ probe.kind = "icmp"
    /\ \E t \in {Failed} \cup 0..Slow : Measured(AtLeastOne(t))

\* ping_tcp and ping_http resolve the target; without an address they fail.
BeginProbe ==
    /\ progress = "ping" /\ probe.kind \in {"tcp", "http"}
    /\ \/ Measured(Failed)
       \/ /\ \E n \in 1..MaxAddresses :
                probe' = [probe EXCEPT !.left = IF probe.kind = "tcp" THEN n ELSE MaxHops]
          /\ progress' = "probe"
          /\ UNCHANGED <<channel, policy, received, rtts, best, script, reply, posts>>

\* ping_tcp: the addresses in turn, on one clock.
ConnectTcp ==
    /\ progress = "probe" /\ probe.kind = "tcp"
    /\ \E t \in 0..Slow :
          \/ Measured(AtLeastOne(probe.spent + t))
          \/ /\ probe.left = 1
             /\ Measured(Failed)
          \/ /\ probe.left > 1
             /\ probe' = [probe EXCEPT !.left = @ - 1, !.spent = @ + t]
             /\ UNCHANGED <<channel, policy, received, progress, rtts, best, script, reply, posts>>

\* ping_http: one request; the clock begins again with a redirect, and only
\* a redirect to nowhere may report no time at all.
RequestHttp ==
    /\ progress = "probe" /\ probe.kind = "http"
    /\ \E t \in 0..Slow, status \in {"ok", "redirect", "redirect nowhere", "other", "no response"} :
          \/ status = "ok" /\ Measured(AtLeastOne(t))
          \/ status = "redirect nowhere" /\ Measured(t)
          \/ status \in {"other", "no response"} /\ Measured(Failed)
          \/ status = "redirect" /\ probe.left = 1 /\ Measured(Failed)
          \/ /\ status = "redirect" /\ probe.left > 1
             /\ probe' = [probe EXCEPT !.left = @ - 1]
             /\ UNCHANGED <<channel, policy, received, progress, rtts, best, script, reply, posts>>

(***************************************************************************)
(* The answer.                                                             *)
(***************************************************************************)

\* validate_response: no error, the version, a result that is not null.
ValidResponse(r) == r.error \in {"absent", "null"} /\ r.version /\ r.result = "value"

Responses == [error : {"absent", "null", "value"}, version : BOOLEAN, result : {"absent", "null", "value"}]

\* The answer leaves once, and is not sent again when it is lost.
Sent(to) ==
    /\ progress = "answer"
    /\ posts' = posts + 1
    /\ progress' = to
    /\ UNCHANGED <<channel, policy, received, probe, rtts, best, script, reply>>

\* handle_ping_task: a ping that came by the socket is answered on it.
SendOnSocket ==
    /\ channel = "ws" /\ reply.of = "ping"
    /\ Sent("done") \/ Sent("lost")

\* upload_task_result and run_ping_and_upload_v2: the HTTP status and the
\* envelope tell if the server took it.
PostAnswer ==
    /\ channel = "http" \/ reply.of # "ping"
    /\ \/ Sent("lost")
       \/ \E r \in Responses : Sent(IF ValidResponse(r) THEN "done" ELSE "lost")

TkNext ==
    \/ DispatchMessage \/ BeginExec \/ WriteScript \/ EndExec
    \/ PingUnknown \/ PingIcmp \/ BeginProbe \/ ConnectTcp \/ RequestHttp
    \/ SendOnSocket \/ PostAnswer

TkSpec == TkInit /\ [][TkNext]_tkVars

TkTypeOK ==
    /\ progress \in {"arrived", "session over", "exec", "script", "run", "ping", "probe", "answer",
                     "terminal", "file", "update", "lost", "done"}
    /\ probe.left \in 0..Max({MaxHops, MaxAddresses})
    /\ Len(rtts) <= MaxRetries + 1
    /\ script \in {"none", "written", "left"}
    /\ posts \in 0..1

(***************************************************************************)
(* Properties.                                                             *)
(***************************************************************************)
TaskEnded == progress \in {"session over", "terminal", "file", "update", "lost", "done"}

\* A round trip that is told was measured by the kind that is told with it,
\* which is the one asked for or one it falls back to; it is the least of its
\* series, above the threshold only when the series was used up or broke off,
\* and never one whose second measurement shows a retransmission.
PingHonest ==
    reply.of = "ping" =>
       LET asked == PingFields(received).kind
           good == {rtts[i] : i \in DOMAIN rtts} \ {Failed}
       IN  /\ reply.kind \in CASE asked = "icmp" -> {"icmp", "tcp", "http"}
                               [] asked = "tcp" -> {"tcp", "http"}
                               [] asked = "http" -> {"http"}
                               [] OTHER -> {"unknown"}
           /\ reply.value = Failed => reply.kind \in {"http", "unknown"} /\ good = {}
           /\ reply.value # Failed =>
                /\ reply.value = Min(good)
                /\ reply.value > HighLatency => Len(rtts) = MaxRetries + 1 \/ Last(rtts) = Failed
                /\ reply.kind = "tcp" /\ Len(rtts) > 1 /\ rtts[2] # Failed =>
                     rtts[1] - rtts[2] <= Retransmission

LastIs(parts, word) == parts # <<>> /\ Last(parts) = word

\* A command runs only where that is allowed; its end is told by why it ended: a
\* code of its own never hides a time-out or a cut, and is never taken for one
\* but on Windows, where a command may end with the same number and only the
\* notice exec_result adds to the output tells them apart.
ExecHonest ==
    reply.of = "exec" =>
       /\ policy.noExec => reply.parts = <<"disabled">> /\ reply.value = 0 - 1
       /\ LastIs(reply.parts, "timed out") => reply.value = 0 - 124
       /\ LastIs(reply.parts, "truncated") => reply.value = 0 - 125
       /\ reply.value = 0 - 124 /\ ~policy.windows => LastIs(reply.parts, "timed out")
       /\ reply.value = 0 - 125 /\ ~policy.windows => LastIs(reply.parts, "truncated")

\* Every task gets one answer, sent once and about that task, and only a
\* task that can be answered is done; a script outlives its command only when
\* it cannot be removed (exec_windows_powershell).
TasksAnswered ==
    /\ PingHonest /\ ExecHonest
    /\ TaskEnded => (posts = 1 <=> reply.of # "none") /\ script # "written"
    /\ progress = "update" => ~policy.noShell /\ ~policy.noUpdate
    /\ progress = "terminal" => ~policy.httpOnly
    /\ reply.of # "none" =>
         /\ received.utf8
         /\ reply.of = "ping" => reply.id \in Nat /\ TextOf(received, "method") = "agent.ping"
         /\ reply.of = "exec" => reply.id # "" /\ TextOf(received, "method") = "agent.exec"

=============================================================================
