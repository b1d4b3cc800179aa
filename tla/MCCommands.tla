----------------------------- MODULE MCCommands -----------------------------
(***************************************************************************)
(* What the machines of commands, files, settings and traffic are run      *)
(* with.  The machine under way has its choices; every other one stays at  *)
(* one initial state.                                                      *)
(***************************************************************************)
EXTENDS Tasks, FileOps, Settings, Traffic

CommandMachines == {"tasks", "files", "settings", "traffic"}

-----------------------------------------------------------------------------
\* Tasks: messages with the names and types the server uses, and others.
Word(s) == Value(s, NoNumber)
Number(n) == Value(NotText, n)
NoFields == [x \in {} |-> NoValue]

MessageOf(method, top, params) ==
    [utf8 |-> TRUE, error |-> FALSE, top |-> ("method" :> Word(method)) @@ top, params |-> params]

TaskIds == {"taskId" :> Number(7), ("ping_task_id" :> Number(0 - 3)) @@ ("task_id" :> Word("x"))}

Pings ==
    {MessageOf("agent.ping", NoFields, id @@ ("pingType" :> Word(k)) @@ ("target" :> Word("host"))) :
        id \in TaskIds, k \in {"icmp", "tcp", "http", "udp"}}

Command(id, command) ==
    MessageOf("agent.exec", NoFields, ("task_id" :> id) @@ ("command" :> Word(command)))

SomeMessages ==
    Pings \cup
    {MessageOf("agent.ping", "target" :> Number(1), ("ping_type" :> Word("tcp")) @@ ("task_id" :> Value("7", 7))),
     Command(Word("t"), "run"), Command(Word("t"), ""), Command(Number(7), "run"),
     [Command(Word("t"), "run") EXCEPT !.utf8 = FALSE],
     MessageOf("agent.terminal.request", NoFields, "request_id" :> Word("r")),
     MessageOf("agent.startupConfig", NoFields, "request_id" :> Word("r")),
     MessageOf("agent.startupConfig", NoFields, NoFields),
     MessageOf("agent.file", NoFields, NoFields),
     MessageOf("agent.switchVersion", NoFields, NoFields),
     MessageOf("agent.message", NoFields, NoFields),
     [MessageOf("", NoFields, NoFields) EXCEPT !.error = TRUE]}

Switches == {"noExec", "noShell", "noUpdate", "httpOnly", "windows"}
SomePolicies == {[s \in Switches |-> s = on] : on \in Switches \cup {"none"}}

-----------------------------------------------------------------------------
\* Files: trees with links, with a second device below "m", and requests on
\* one path of two workers.
CONSTANTS w1, w2

FileNode(data) == Node("file", data, FileMode)
DirNode == Node("dir", Empty, DirMode)
LinkNode(path) == Node("link", path, "777")

SomeTrees ==
    {(<<"a">> :> DirNode) @@ (<<"a", "f">> :> FileNode("1")) @@ (<<"m">> :> DirNode) @@ more :
        more \in {<<"a", "l">> :> LinkNode(<<"m">>),
                  (<<"m", "f">> :> FileNode("3")) @@ (<<"a", "d">> :> DirNode),
                  (<<"l">> :> LinkNode(<<"a">>)) @@ (<<"f">> :> FileNode("3"))}}

RequestOf(op, src, dst) == [op |-> op, src |-> src, dst |-> dst, mode |-> "600"]

SomeRequests ==
    (w1 :> {RequestOf("create", <<"a", "f">>, <<>>), RequestOf("mkdir", <<"a", ".", "x">>, <<>>),
            RequestOf("delete", <<"a">>, <<>>), RequestOf("delete", <<"a", "..">>, <<>>),
            RequestOf("move", <<"a">>, <<"m">>), RequestOf("move", <<"a">>, <<"b">>),
            RequestOf("move", <<"a", "f">>, <<"m", "f">>), RequestOf("move", <<"a">>, <<"m", "a">>),
            RequestOf("copy", <<"a">>, <<"b">>), RequestOf("copy", <<"a">>, <<"a", "x", "..", "y">>),
            RequestOf("copy", <<"a">>, <<"l", "y">>), RequestOf("copy", <<"a", "f">>, <<"l", "f">>),
            RequestOf("chmod", <<"a">>, <<>>), RequestOf("list", <<"a">>, <<>>),
            RequestOf("search", <<>>, <<"f">>), RequestOf("download", <<"l", "f">>, <<>>)})
      @@ (w2 :> {RequestOf("create", <<"a", "f">>, <<>>), RequestOf("move", <<"a">>, <<"m", "b">>)})

-----------------------------------------------------------------------------
\* The choices of a machine that is not under way.
CmdPinned(m) ==
    /\ m = "tasks" \/ (/\ channel = "http" /\ policy = [s \in Switches |-> FALSE]
                       /\ received = MessageOf("agent.message", NoFields, NoFields))
    /\ m = "files" \/ tree = (<<"a">> :> DirNode) @@ (<<"a", "f">> :> FileNode("1")) @@ (<<"m">> :> DirNode)
                               @@ (<<"a", "l">> :> LinkNode(<<"m">>))
    /\ m = "settings" \/ (subject = "endpoint" /\ args = <<>>)
    /\ m = "traffic" \/ rotate = 0

CmdInit(m) ==
    /\ CmdPinned(m)
    /\ TkInit /\ FoInit /\ StInit /\ TfInit

cmdVars == <<tkVars, foVars, stVars, tfVars>>

CmdNext(m) ==
    \/ m = "tasks" /\ TkNext /\ UNCHANGED <<foVars, stVars, tfVars>>
    \/ m = "files" /\ FoNext /\ UNCHANGED <<tkVars, stVars, tfVars>>
    \/ m = "settings" /\ StNext /\ UNCHANGED <<tkVars, foVars, tfVars>>
    \/ m = "traffic" /\ TfNext /\ UNCHANGED <<tkVars, foVars, stVars>>

CmdTypeOK == TkTypeOK /\ FoTypeOK /\ StTypeOK /\ TfTypeOK

=============================================================================
